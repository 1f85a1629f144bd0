------------------------ MODULE TransactionalMemoryProofs ------------------------
(***************************************************************************)
(* One thread's attempts, whatever it calls and however it leaves: its     *)
(* write set, its callbacks and the objects they are about, for any        *)
(* variables, objects and bounds.                                          *)
(***************************************************************************)
EXTENDS TransactionalMemory, FiniteSetTheorems, TLAPS

Kinds == {"read_write", "read_only", "relative"}
States == {"free", "raw", "live", "broken"}
Entries == [dest_var : Vars, pending_write : Objects]
WriteSets == [filter : SUBSET {Bit[v] : v \in Vars}, data : Seq(Entries), capacity : Nat]

Types ==
    /\ stack \in Seq(Kinds) /\ committing \in BOOLEAN /\ section \in BOOLEAN
    /\ tx_state \in {"none", "read_only", "read_write"}
    /\ write_set \in WriteSets
    /\ read_set \in Seq(Vars)
    /\ fail_callbacks \in Seq(Callback) /\ working \in Seq(Callback) /\ queue \in Seq(Callback)
    /\ storage \in [Vars -> Objects]
    /\ heap \in [Objects -> States] /\ before \in [Objects -> States]
    /\ roots \in SUBSET Objects /\ mine \in SUBSET Objects
    /\ calls \in Nat /\ steps \in Nat
    /\ written \in [Vars -> Objects \cup {Nothing}]
    /\ tracked \in SUBSET Vars /\ seen \in SUBSET (Vars \X Objects)

(* Only a read-write transaction has something of its own. *)
Shape ==
    /\ Len(stack) <= MaxLevel /\ SlotToSpare
    /\ stack = <<>> => tx_state = "none" /\ ~section /\ ~committing
    /\ KindIsTheOutermost
    /\ \A i \in DOMAIN stack : stack[i] = "read_write" => tx_state = "read_write"
    /\ committing => tx_state = "read_write" /\ Len(stack) = 1
    /\ tx_state # "read_write" =>
           /\ write_set.data = <<>> /\ write_set.filter = {} /\ read_set = <<>>
           /\ fail_callbacks = <<>> /\ working = <<>> /\ mine = {}

(* The write set is what was written. *)
Writes ==
    /\ \A i, j \in DOMAIN write_set.data :
           write_set.data[i].dest_var = write_set.data[j].dest_var => i = j
    /\ \A i \in DOMAIN write_set.data :
           /\ Bit[write_set.data[i].dest_var] \in write_set.filter
           /\ written[write_set.data[i].dest_var] = write_set.data[i].pending_write
    /\ \A v \in Vars : written[v] # Nothing =>
           \E i \in DOMAIN write_set.data : write_set.data[i].dest_var = v

(* The read set is what was tracked, until a commit drops what was written.*)
Reads ==
    /\ ReadsOwnWrites /\ ValidatesTheRest
    /\ ~committing => ToSet(read_set) = tracked

Objs(cs) == {c[2] : c \in ToSet(cs)}

Written == {v \in Vars : written[v] # Nothing}
Pending == {written[v] : v \in Written}
Held == {storage[v] : v \in Vars}
Replaced == {storage[v] : v \in Written}

NotFree(h) == {o \in Objects : h[o] # "free"}

(* Each object that is not free has one owner. *)
Owners ==
    /\ NotFree(heap) = roots \cup mine \cup FreesIn(queue) \cup Held \cup Pending
    /\ \A o \in Objects : heap[o] # "broken"
    /\ \A v, w \in Vars : storage[v] = storage[w] => v = w
    /\ \A v, w \in Written : written[v] = written[w] => v = w
    /\ roots \cap mine = {} /\ FreesIn(queue) \cap (roots \cup mine) = {}
    /\ Held \cap (roots \cup mine \cup FreesIn(queue) \cup Pending) = {}
    /\ Pending \cap (roots \cup mine \cup FreesIn(queue)) = {}
    /\ \A o \in Held \cup Pending : heap[o] = "live" /\ o \notin Trivial

(* What was registered for after the grace period. *)
Registrations ==
    /\ Objs(queue) \subseteq FreesIn(queue) \cup roots
    /\ Objs(working) \subseteq roots \cup mine \cup Replaced
    /\ Replaced \subseteq FreesIn(working)

(* Callbacks that free do so, and those that only destroy leave it raw. *)
Cleans(cs, h) ==
    /\ \A o \in FreesIn(cs) : Run(cs, h)[o] = "free"
    /\ \A o \in Objs(cs) \ FreesIn(cs) : Run(cs, h)[o] = "raw"

Reclaims(cs) == Cleans(cs, heap)

(* The failure callbacks undo the attempt. *)
Undoes ==
    /\ \A c \in ToSet(fail_callbacks) : c[1] = "destroy" => c[2] \notin Trivial
    /\ Objs(fail_callbacks) \cap Objs(queue) = {}
    /\ stack # <<>> => \A o \in Objects : AsBefore(o, DoFailCallbacks(heap)[o])

(* The attempt began between transactions. *)
Began ==
    stack # <<>> =>
        /\ NotFree(before) = roots \cup FreesIn(queue) \cup Held
        /\ \A o \in Objects : before[o] # "broken"
        /\ \A o \in Held : before[o] = "live"

MemoryInv ==
    /\ Types /\ Shape /\ Writes /\ Reads /\ Owners /\ Registrations /\ Undoes /\ Began
    /\ Reclaims(queue) /\ Reclaims(queue \o working)

-----------------------------------------------------------------------------
(* Induction: a set of numbers that has 0 and the successor of each of its *)
(* members has all of them.                                                *)
LEMMA Induction ==
    ASSUME NEW S \in SUBSET Nat, 0 \in S, \A n \in S : n + 1 \in S
    PROVE  S = Nat
<1> SUFFICES ASSUME NEW n \in Nat, n \notin S
             PROVE  FALSE
  OBVIOUS
<1> DEFINE U == S \cap (0 .. n)
           f == [i \in U |-> i + 1]
<1>1. IsFiniteSet(U)
  <2>1. IsFiniteSet(0 .. n)
    BY FS_Interval
  <2> QED BY <2>1, FS_Subset
<1>2. f \in Injection(U, U \ {0})
  <2>1. \A i \in U : i < n /\ i + 1 \in U /\ i + 1 # 0
    OBVIOUS
  <2> QED BY <2>1 DEF Injection, IsInjective
<1>3. IsFiniteSet(U \ {0}) /\ Cardinality(U \ {0}) = Cardinality(U) - 1
  BY <1>1, FS_RemoveElement
<1>4. Cardinality(U) <= Cardinality(U \ {0})
  BY <1>2, <1>3, FS_Injection
<1>5. Cardinality(U) \in Nat
  BY <1>1, FS_CardinalityType
<1> QED BY <1>3, <1>4, <1>5

(* The smallest of a set of numbers. *)
LEMMA MinIs ==
    ASSUME NEW T \in SUBSET Nat, T # {}
    PROVE  Min(T) \in T /\ \A m \in T : Min(T) <= m
<1> DEFINE S == {n \in Nat : \A m \in 0 .. n : m \notin T}
<1>1. \E n \in T : \A m \in T : n <= m
  <2> SUFFICES ASSUME \A n \in T : \E m \in T : m < n
               PROVE  FALSE
    OBVIOUS
  <2>1. 0 \in S
    <3>1. 0 \notin T
      OBVIOUS
    <3> QED BY <3>1
  <2>2. ASSUME NEW n \in S
        PROVE  n + 1 \in S
    <3>1. n + 1 \notin T
      OBVIOUS
    <3> QED BY <3>1
  <2>3. S = Nat
    BY <2>1, <2>2, Induction
  <2> QED
    <3>1. PICK t \in T : TRUE
      OBVIOUS
    <3>2. t \in S
      BY <2>3
    <3> QED BY <3>2
<1> QED BY <1>1 DEF Min
-----------------------------------------------------------------------------
(* Running callbacks *)

Heaps == [Objects -> States]

LEMMA ApplyType ==
    ASSUME NEW h \in Heaps, NEW c \in Callback
    PROVE  Apply(h, c) \in Heaps /\ c[2] \in Objects
<1>1. c[2] \in Objects
  BY DEF Callback
<1>2. h[c[2]] \in States
  BY <1>1 DEF Heaps
<1>3. After(c[1], c[2], h[c[2]]) \in States
  BY <1>2 DEF After, Destroyed, Freed, States, Callback
<1> QED BY <1>1, <1>3 DEF Apply, Heaps

(* The heaps that a run of callbacks passes through. *)
Passes(f, cs, h) ==
    /\ f \in [0 .. Len(cs) -> Heaps] /\ f[0] = h
    /\ \A n \in 1 .. Len(cs) : f[n] = Apply(f[n - 1], cs[n])

LEMMA RunPasses ==
    ASSUME NEW cs \in Seq(Callback), NEW h \in Heaps
    PROVE  \E f : Passes(f, cs, h)
<1> DEFINE P(m) == m <= Len(cs) =>
                       \E f \in [0 .. m -> Heaps] :
                           f[0] = h /\ \A n \in 1 .. m : f[n] = Apply(f[n - 1], cs[n])
           S == {m \in Nat : P(m)}
<1>1. P(0)
  <2> DEFINE g == [n \in 0 .. 0 |-> h]
  <2>1. g \in [0 .. 0 -> Heaps] /\ g[0] = h
    OBVIOUS
  <2> HIDE DEF g
  <2> QED BY <2>1
<1>2. ASSUME NEW m \in Nat, P(m)
      PROVE  P(m + 1)
  <2> SUFFICES ASSUME m + 1 <= Len(cs)
               PROVE  \E f \in [0 .. m + 1 -> Heaps] :
                         f[0] = h /\ \A n \in 1 .. m + 1 : f[n] = Apply(f[n - 1], cs[n])
    OBVIOUS
  <2>1. m <= Len(cs)
    OBVIOUS
  <2>2. PICK f \in [0 .. m -> Heaps] :
            f[0] = h /\ \A n \in 1 .. m : f[n] = Apply(f[n - 1], cs[n])
    BY <1>2, <2>1
  <2> DEFINE g == [n \in 0 .. m + 1 |-> IF n = m + 1 THEN Apply(f[m], cs[m + 1]) ELSE f[n]]
  <2>3. cs[m + 1] \in Callback /\ f[m] \in Heaps
    BY <2>1, <2>2
  <2>4. Apply(f[m], cs[m + 1]) \in Heaps
    BY <2>3, ApplyType
  <2>5. g \in [0 .. m + 1 -> Heaps]
    BY <2>1, <2>2, <2>4
  <2>6. g[0] = h /\ \A n \in 1 .. m + 1 : g[n] = Apply(g[n - 1], cs[n])
    BY <2>1, <2>2
  <2> HIDE DEF g
  <2> QED BY <2>5, <2>6
<1> HIDE DEF P
<1>3. S = Nat
  <2>1. S \in SUBSET Nat /\ 0 \in S /\ \A m \in S : m + 1 \in S
    BY <1>1, <1>2
  <2> QED BY <2>1, Induction
<1>4. P(Len(cs))
  BY <1>3
<1> QED BY <1>4 DEF P, Passes

LEMMA RunIs ==
    ASSUME NEW cs \in Seq(Callback), NEW h \in Heaps, NEW f, Passes(f, cs, h)
    PROVE  Run(cs, h) = f[Len(cs)] /\ Run(cs, h) \in Heaps
<1> DEFINE Def(g) == [n \in 0 .. Len(cs) |-> IF n = 0 THEN h ELSE Apply(g[n - 1], cs[n])]
           after == CHOOSE g : g = Def(g)
<1>1. Run(cs, h) = after[Len(cs)]
  BY DEF Run
<1>2. f = Def(f)
  <2>1. f = [n \in 0 .. Len(cs) |-> f[n]]
    BY DEF Passes
  <2>2. \A n \in 0 .. Len(cs) : f[n] = IF n = 0 THEN h ELSE Apply(f[n - 1], cs[n])
    BY DEF Passes
  <2> QED BY <2>1, <2>2
<1> HIDE DEF Def
<1>3. after = Def(after)
  BY <1>2
<1> HIDE DEF after
<1>4. after[0] = h /\ \A n \in 1 .. Len(cs) : after[n] = Apply(after[n - 1], cs[n])
  <2>1. Len(cs) \in Nat
    OBVIOUS
  <2>2. after = [n \in 0 .. Len(cs) |-> IF n = 0 THEN h ELSE Apply(after[n - 1], cs[n])]
    BY <1>3 DEF Def
  <2> QED BY <2>1, <2>2
<1> DEFINE S == {m \in Nat : m <= Len(cs) => after[m] = f[m]}
<1>5. 0 \in S
  BY <1>4 DEF Passes
<1>6. ASSUME NEW m \in S
      PROVE  m + 1 \in S
  <2> SUFFICES ASSUME m + 1 <= Len(cs)
               PROVE  after[m + 1] = f[m + 1]
    OBVIOUS
  <2>1. m \in Nat /\ m + 1 \in 1 .. Len(cs) /\ after[m] = f[m] /\ (m + 1) - 1 = m
    OBVIOUS
  <2> QED BY <1>4, <2>1 DEF Passes
<1>7. S = Nat
  BY <1>5, <1>6, Induction
<1>8. Len(cs) \in S /\ Len(cs) \in Nat
  BY <1>7
<1> QED BY <1>1, <1>8 DEF Passes

LEMMA RunType ==
    ASSUME NEW cs \in Seq(Callback), NEW h \in Heaps
    PROVE  Run(cs, h) \in Heaps
BY RunPasses, RunIs

LEMMA RunEmpty ==
    ASSUME NEW h \in Heaps
    PROVE  Run(<<>>, h) = h
<1> DEFINE f == [n \in 0 .. 0 |-> h]
<1>1. <<>> \in Seq(Callback) /\ Len(<<>>) = 0
  OBVIOUS
<1>2. Passes(f, <<>>, h)
  BY <1>1 DEF Passes
<1>3. Run(<<>>, h) = f[Len(<<>>)]
  BY <1>1, <1>2, RunIs
<1> QED BY <1>1, <1>3

(* The callback that was registered last runs last, ... *)
LEMMA RunAppend ==
    ASSUME NEW cs \in Seq(Callback), NEW c \in Callback, NEW h \in Heaps
    PROVE  Run(Append(cs, c), h) = Apply(Run(cs, h), c)
<1>1. PICK f : Passes(f, cs, h)
  BY RunPasses
<1> DEFINE l == Len(cs)
           ds == Append(cs, c)
           g == [n \in 0 .. l + 1 |-> IF n = l + 1 THEN Apply(f[l], c) ELSE f[n]]
<1>2. /\ ds \in Seq(Callback) /\ Len(ds) = l + 1 /\ l \in Nat /\ ds[l + 1] = c
      /\ \A n \in 1 .. l : ds[n] = cs[n]
  OBVIOUS
<1>3. f[l] \in Heaps /\ f \in [0 .. l -> Heaps] /\ f[0] = h
      /\ \A n \in 1 .. l : f[n] = Apply(f[n - 1], cs[n])
  BY <1>1, <1>2 DEF Passes
<1>4. Apply(f[l], c) \in Heaps
  BY <1>3, ApplyType
<1> HIDE DEF l, ds
<1>5. Passes(g, ds, h)
  <2>1. g \in [0 .. Len(ds) -> Heaps] /\ g[0] = h
    BY <1>2, <1>3, <1>4
  <2>2. ASSUME NEW n \in 1 .. Len(ds)
        PROVE  g[n] = Apply(g[n - 1], ds[n])
    <3>1. CASE n = l + 1
      BY <1>2, <3>1
    <3>2. CASE n # l + 1
      <4>1. n \in 1 .. l /\ n - 1 \in 0 .. l
        BY <1>2, <3>2
      <4> QED BY <1>2, <1>3, <3>2, <4>1
    <3> QED BY <3>1, <3>2
  <2> QED BY <2>1, <2>2 DEF Passes
<1>6. Run(ds, h) = g[Len(ds)]
  BY <1>2, <1>5, RunIs
<1>7. Run(cs, h) = f[l]
  BY <1>1, RunIs DEF l
<1> QED BY <1>2, <1>6, <1>7 DEF ds

(* ... and the failure callback that was registered last runs first. *)
LEMMA UndoAppend ==
    ASSUME NEW cs \in Seq(Callback), NEW c \in Callback, NEW h \in Heaps
    PROVE  Run(Reverse(Append(cs, c)), h) = Run(Reverse(cs), Apply(h, c))
<1> DEFINE l == Len(cs)
           rs == Reverse(cs)
           ds == Reverse(Append(cs, c))
<1>1. /\ l \in Nat /\ rs \in Seq(Callback) /\ Len(rs) = l
      /\ \A n \in 1 .. l : rs[n] = cs[l - n + 1]
  BY DEF Reverse
<1>2. /\ ds \in Seq(Callback) /\ Len(ds) = l + 1 /\ ds[1] = c
      /\ \A n \in 1 .. l : ds[n + 1] = rs[n]
  <2>1. /\ Append(cs, c) \in Seq(Callback) /\ Len(Append(cs, c)) = l + 1
        /\ Append(cs, c)[l + 1] = c /\ \A n \in 1 .. l : Append(cs, c)[n] = cs[n]
    OBVIOUS
  <2>2. /\ ds \in Seq(Callback) /\ Len(ds) = l + 1
        /\ \A n \in 1 .. l + 1 : ds[n] = Append(cs, c)[l + 1 - n + 1]
    BY <1>1, <2>1 DEF Reverse
  <2>3. ds[1] = c
    BY <1>1, <2>1, <2>2
  <2>4. ASSUME NEW n \in 1 .. l
        PROVE  ds[n + 1] = rs[n]
    <3>1. n + 1 \in 1 .. l + 1 /\ l + 1 - (n + 1) + 1 = l - n + 1 /\ l - n + 1 \in 1 .. l
      BY <1>1
    <3> QED BY <1>1, <2>1, <2>2, <3>1
  <2> QED BY <2>2, <2>3, <2>4
<1> HIDE DEF l, rs, ds
<1>3. Apply(h, c) \in Heaps
  BY ApplyType
<1>4. PICK f : Passes(f, rs, Apply(h, c))
  BY <1>1, <1>3, RunPasses
<1> DEFINE g == [n \in 0 .. l + 1 |-> IF n = 0 THEN h ELSE f[n - 1]]
<1>5. f \in [0 .. l -> Heaps] /\ f[0] = Apply(h, c) /\ \A n \in 1 .. l : f[n] = Apply(f[n - 1], rs[n])
  BY <1>1, <1>4 DEF Passes
<1>6. Passes(g, ds, h)
  <2>1. g \in [0 .. l + 1 -> Heaps] /\ g[0] = h
    BY <1>1, <1>5
  <2>2. ASSUME NEW n \in 1 .. l + 1
        PROVE  g[n] = Apply(g[n - 1], ds[n])
    <3>1. CASE n = 1
      BY <1>1, <1>2, <1>5, <3>1
    <3>2. CASE n # 1
      <4>1. n - 1 \in 1 .. l /\ (n - 1) + 1 = n
        BY <1>1, <3>2
      <4>2. ds[n] = rs[n - 1]
        BY <1>2, <4>1
      <4>3. f[n - 1] = Apply(f[n - 1 - 1], rs[n - 1])
        BY <1>5, <4>1
      <4>4. g[n] = f[n - 1] /\ g[n - 1] = f[n - 1 - 1]
        BY <1>1, <4>1
      <4> QED BY <4>2, <4>3, <4>4
    <3> QED BY <3>1, <3>2
  <2> QED BY <1>2, <2>1, <2>2 DEF Passes
<1>7. Run(ds, h) = g[l + 1]
  BY <1>2, <1>6, RunIs
<1>8. Run(rs, Apply(h, c)) = f[l]
  BY <1>1, <1>3, <1>4, RunIs
<1>9. g[l + 1] = f[l]
  BY <1>1
<1> QED BY <1>7, <1>8, <1>9 DEF ds, rs

(* Two runs of the same callbacks keep what they keep step by step. *)
Alike(o, s, u) == s = u \/ (o \in Trivial /\ {s, u} = {"raw", "live"})

LEMMA RunLocal ==
    ASSUME NEW cs \in Seq(Callback), NEW h \in Heaps, NEW k \in Heaps, NEW o \in Objects,
           h[o] = k[o]
    PROVE  Run(cs, h)[o] = Run(cs, k)[o]
<1>1. PICK f : Passes(f, cs, h)
  BY RunPasses
<1>2. PICK g : Passes(g, cs, k)
  BY RunPasses
<1> DEFINE P(m) == m <= Len(cs) => f[m][o] = g[m][o]
           S == {m \in Nat : P(m)}
<1>3. P(0)
  BY <1>1, <1>2 DEF Passes
<1>4. ASSUME NEW m \in Nat, P(m)
      PROVE  P(m + 1)
  <2> SUFFICES ASSUME m + 1 <= Len(cs)
               PROVE  f[m + 1][o] = g[m + 1][o]
    OBVIOUS
  <2>1. m \in 0 .. Len(cs) /\ m + 1 \in 1 .. Len(cs) /\ (m + 1) - 1 = m /\ f[m][o] = g[m][o]
    BY <1>4
  <2>2. /\ f[m] \in Heaps /\ g[m] \in Heaps
        /\ f[m + 1] = Apply(f[m], cs[m + 1]) /\ g[m + 1] = Apply(g[m], cs[m + 1])
    BY <1>1, <1>2, <2>1 DEF Passes
  <2> QED BY <2>1, <2>2 DEF Apply, Heaps
<1> HIDE DEF P
<1>5. S = Nat
  <2>1. S \in SUBSET Nat /\ 0 \in S /\ \A m \in S : m + 1 \in S
    BY <1>3, <1>4
  <2> QED BY <2>1, Induction
<1>6. P(Len(cs))
  BY <1>5
<1> QED BY <1>1, <1>2, <1>6, RunIs DEF P

LEMMA RunElsewhere ==
    ASSUME NEW cs \in Seq(Callback), NEW h \in Heaps, NEW o \in Objects \ Objs(cs)
    PROVE  Run(cs, h)[o] = h[o]
<1>1. PICK f : Passes(f, cs, h)
  BY RunPasses
<1> DEFINE P(m) == m <= Len(cs) => f[m][o] = h[o]
           S == {m \in Nat : P(m)}
<1>2. P(0)
  BY <1>1 DEF Passes
<1>3. ASSUME NEW m \in Nat, P(m)
      PROVE  P(m + 1)
  <2> SUFFICES ASSUME m + 1 <= Len(cs)
               PROVE  f[m + 1][o] = h[o]
    OBVIOUS
  <2>1. m \in 0 .. Len(cs) /\ m + 1 \in 1 .. Len(cs) /\ (m + 1) - 1 = m /\ f[m][o] = h[o]
    BY <1>3
  <2>2. f[m] \in Heaps /\ f[m + 1] = Apply(f[m], cs[m + 1])
    BY <1>1, <2>1 DEF Passes
  <2>3. cs[m + 1][2] # o
    BY <2>1 DEF Objs, ToSet
  <2> QED BY <2>1, <2>2, <2>3 DEF Apply, Heaps
<1> HIDE DEF P
<1>4. S = Nat
  <2>1. S \in SUBSET Nat /\ 0 \in S /\ \A m \in S : m + 1 \in S
    BY <1>2, <1>3
  <2> QED BY <2>1, Induction
<1>5. P(Len(cs))
  BY <1>4
<1> QED BY <1>1, <1>5, RunIs DEF P

LEMMA AfterAlike ==
    ASSUME NEW o \in Objects, NEW s \in States, NEW u \in States, Alike(o, s, u),
           NEW what \in {"deallocate", "destroy", "destroy_deallocate"},
           what = "destroy" => o \notin Trivial
    PROVE  Alike(o, After(what, o, s), After(what, o, u))
<1>1. CASE s = u
  BY <1>1 DEF Alike
<1>2. CASE s # u
  <2>1. o \in Trivial /\ s \in {"raw", "live"} /\ u \in {"raw", "live"}
    BY <1>2 DEF Alike
  <2>2. what \in {"deallocate", "destroy_deallocate"}
    BY <2>1
  <2> QED BY <2>1, <2>2 DEF After, Freed, Alike
<1> QED BY <1>1, <1>2

LEMMA RunAlike ==
    ASSUME NEW cs \in Seq(Callback), NEW h \in Heaps, NEW k \in Heaps,
           \A o \in Objects : Alike(o, h[o], k[o]),
           \A i \in DOMAIN cs : cs[i][1] = "destroy" => cs[i][2] \notin Trivial
    PROVE  \A o \in Objects : Alike(o, Run(cs, h)[o], Run(cs, k)[o])
<1>1. PICK f : Passes(f, cs, h)
  BY RunPasses
<1>2. PICK g : Passes(g, cs, k)
  BY RunPasses
<1> DEFINE P(m) == m <= Len(cs) => \A o \in Objects : Alike(o, f[m][o], g[m][o])
           S == {m \in Nat : P(m)}
<1>3. P(0)
  BY <1>1, <1>2 DEF Passes
<1>4. ASSUME NEW m \in Nat, P(m)
      PROVE  P(m + 1)
  <2> SUFFICES ASSUME m + 1 <= Len(cs), NEW o \in Objects
               PROVE  Alike(o, f[m + 1][o], g[m + 1][o])
    OBVIOUS
  <2>1. m \in 0 .. Len(cs) /\ m + 1 \in 1 .. Len(cs) /\ (m + 1) - 1 = m /\ Alike(o, f[m][o], g[m][o])
    BY <1>4
  <2>2. /\ f[m] \in Heaps /\ g[m] \in Heaps
        /\ f[m + 1] = Apply(f[m], cs[m + 1]) /\ g[m + 1] = Apply(g[m], cs[m + 1])
    BY <1>1, <1>2, <2>1 DEF Passes
  <2>3. cs[m + 1] \in Callback /\ m + 1 \in DOMAIN cs
    BY <2>1
  <2>4. CASE cs[m + 1][2] = o
    <3>1. /\ f[m + 1][o] = After(cs[m + 1][1], o, f[m][o])
          /\ g[m + 1][o] = After(cs[m + 1][1], o, g[m][o])
      BY <2>2, <2>4 DEF Apply, Heaps
    <3>2. /\ cs[m + 1][1] \in {"deallocate", "destroy", "destroy_deallocate"}
          /\ cs[m + 1][1] = "destroy" => o \notin Trivial
      BY <2>3, <2>4 DEF Callback
    <3>3. f[m][o] \in States /\ g[m][o] \in States
      BY <2>2 DEF Heaps
    <3>4. Alike(o, After(cs[m + 1][1], o, f[m][o]), After(cs[m + 1][1], o, g[m][o]))
      BY <2>1, <3>2, <3>3, AfterAlike
    <3> QED BY <3>1, <3>4
  <2>5. CASE cs[m + 1][2] # o
    BY <2>1, <2>2, <2>5 DEF Apply, Heaps
  <2> QED BY <2>4, <2>5
<1> HIDE DEF P
<1>5. S = Nat
  <2>1. S \in SUBSET Nat /\ 0 \in S /\ \A m \in S : m + 1 \in S
    BY <1>3, <1>4
  <2> QED BY <2>1, Induction
<1>6. P(Len(cs))
  BY <1>5
<1> QED BY <1>1, <1>2, <1>6, RunIs DEF P

-----------------------------------------------------------------------------
(* Sequences of callbacks, as sets *)

LEMMA SetOfAppend ==
    ASSUME NEW S, NEW cs \in Seq(S), NEW c \in S
    PROVE  /\ Append(cs, c) \in Seq(S) /\ cs \o <<c>> = Append(cs, c)
           /\ ToSet(Append(cs, c)) = ToSet(cs) \cup {c}
<1>1. /\ Append(cs, c) \in Seq(S) /\ cs \o <<c>> = Append(cs, c)
      /\ DOMAIN Append(cs, c) = DOMAIN cs \cup {Len(cs) + 1}
      /\ Append(cs, c)[Len(cs) + 1] = c
      /\ \A i \in DOMAIN cs : Append(cs, c)[i] = cs[i]
  OBVIOUS
<1> QED BY <1>1 DEF ToSet

LEMMA SetOfConcat ==
    ASSUME NEW S, NEW cs \in Seq(S), NEW ds \in Seq(S)
    PROVE  cs \o ds \in Seq(S) /\ ToSet(cs \o ds) = ToSet(cs) \cup ToSet(ds)
<1>1. cs \o ds \in Seq(S) /\ Len(cs \o ds) = Len(cs) + Len(ds) /\ Len(cs) \in Nat /\ Len(ds) \in Nat
  OBVIOUS
<1>2. /\ \A i \in 1 .. Len(cs) : (cs \o ds)[i] = cs[i]
      /\ \A i \in 1 .. Len(ds) : (cs \o ds)[Len(cs) + i] = ds[i]
  OBVIOUS
<1>3. /\ DOMAIN cs = 1 .. Len(cs) /\ DOMAIN ds = 1 .. Len(ds)
      /\ DOMAIN (cs \o ds) = 1 .. (Len(cs) + Len(ds))
  BY <1>1
<1>4. ASSUME NEW i \in DOMAIN (cs \o ds)
      PROVE  (cs \o ds)[i] \in ToSet(cs) \cup ToSet(ds)
  <2>1. CASE i <= Len(cs)
    BY <1>1, <1>2, <1>3, <2>1 DEF ToSet
  <2>2. CASE ~(i <= Len(cs))
    <3>1. i - Len(cs) \in 1 .. Len(ds) /\ Len(cs) + (i - Len(cs)) = i
      BY <1>1, <1>3, <2>2
    <3>2. (cs \o ds)[i] = ds[i - Len(cs)]
      BY <1>2, <3>1
    <3> QED BY <1>3, <3>1, <3>2 DEF ToSet
  <2> QED BY <2>1, <2>2
<1>5. ASSUME NEW i \in DOMAIN cs
      PROVE  cs[i] \in ToSet(cs \o ds)
  <2>1. i \in DOMAIN (cs \o ds) /\ (cs \o ds)[i] = cs[i]
    BY <1>1, <1>2, <1>3
  <2> QED BY <2>1 DEF ToSet
<1>6. ASSUME NEW i \in DOMAIN ds
      PROVE  ds[i] \in ToSet(cs \o ds)
  <2>1. Len(cs) + i \in DOMAIN (cs \o ds) /\ (cs \o ds)[Len(cs) + i] = ds[i]
    BY <1>1, <1>2, <1>3
  <2> QED BY <2>1 DEF ToSet
<1> QED BY <1>1, <1>4, <1>5, <1>6 DEF ToSet

LEMMA ConcatAppend ==
    ASSUME NEW S, NEW cs \in Seq(S), NEW ds \in Seq(S), NEW c \in S
    PROVE  cs \o Append(ds, c) = Append(cs \o ds, c) /\ cs \o <<>> = cs
OBVIOUS

LEMMA ObjsOfEmpty == Objs(<<>>) = {} /\ FreesIn(<<>>) = {} /\ ToSet(<<>>) = {}
<1>1. ToSet(<<>>) = {}
  BY DEF ToSet
<1> QED BY <1>1 DEF Objs, FreesIn

LEMMA ObjsOfAppend ==
    ASSUME NEW cs \in Seq(Callback), NEW c \in Callback
    PROVE  /\ Objs(Append(cs, c)) = Objs(cs) \cup {c[2]}
           /\ FreesIn(Append(cs, c)) = FreesIn(cs) \cup (IF c[1] = "destroy" THEN {} ELSE {c[2]})
<1>1. ToSet(Append(cs, c)) = ToSet(cs) \cup {c}
  BY SetOfAppend
<1>2. Objs(Append(cs, c)) = Objs(cs) \cup {c[2]}
  BY <1>1 DEF Objs
<1>3. FreesIn(Append(cs, c)) = FreesIn(cs) \cup (IF c[1] = "destroy" THEN {} ELSE {c[2]})
  BY <1>1 DEF FreesIn
<1> QED BY <1>2, <1>3

LEMMA ObjsOfConcat ==
    ASSUME NEW cs \in Seq(Callback), NEW ds \in Seq(Callback)
    PROVE  /\ Objs(cs \o ds) = Objs(cs) \cup Objs(ds)
           /\ FreesIn(cs \o ds) = FreesIn(cs) \cup FreesIn(ds)
<1>1. ToSet(cs \o ds) = ToSet(cs) \cup ToSet(ds)
  BY SetOfConcat
<1>2. Objs(cs \o ds) = Objs(cs) \cup Objs(ds)
  BY <1>1 DEF Objs
<1>3. FreesIn(cs \o ds) = FreesIn(cs) \cup FreesIn(ds)
  BY <1>1 DEF FreesIn
<1> QED BY <1>2, <1>3

LEMMA ObjsType ==
    ASSUME NEW cs \in Seq(Callback)
    PROVE  FreesIn(cs) \subseteq Objs(cs) /\ Objs(cs) \subseteq Objects
<1>1. \A c \in ToSet(cs) : c \in Callback
  BY DEF ToSet
<1> QED BY <1>1 DEF FreesIn, Objs, Callback

(* Failure callbacks, in the order in which they run. *)
LEMMA ReverseIs ==
    ASSUME NEW cs \in Seq(Callback)
    PROVE  /\ Reverse(cs) \in Seq(Callback) /\ ToSet(Reverse(cs)) = ToSet(cs)
           /\ Objs(Reverse(cs)) = Objs(cs)
<1>1. /\ Len(cs) \in Nat /\ Reverse(cs) \in Seq(Callback) /\ DOMAIN Reverse(cs) = 1 .. Len(cs)
      /\ DOMAIN cs = 1 .. Len(cs)
      /\ \A n \in 1 .. Len(cs) : Reverse(cs)[n] = cs[Len(cs) - n + 1]
  BY DEF Reverse
<1>2. ASSUME NEW n \in 1 .. Len(cs)
      PROVE  Reverse(cs)[n] \in ToSet(cs)
  <2>1. Len(cs) - n + 1 \in 1 .. Len(cs)
    BY <1>1
  <2> QED BY <1>1, <2>1 DEF ToSet
<1>3. ASSUME NEW n \in 1 .. Len(cs)
      PROVE  cs[n] \in ToSet(Reverse(cs))
  <2>1. Len(cs) - n + 1 \in 1 .. Len(cs) /\ Len(cs) - (Len(cs) - n + 1) + 1 = n
    BY <1>1
  <2> QED BY <1>1, <2>1 DEF ToSet
<1>4. ToSet(Reverse(cs)) = ToSet(cs)
  BY <1>1, <1>2, <1>3 DEF ToSet
<1> QED BY <1>1, <1>4 DEF Objs
-----------------------------------------------------------------------------
(* The write set *)

(* find: a variable that was pushed is found, whoever shares its bit. *)
LEMMA FindIs ==
    ASSUME Types, Writes, NEW v \in Vars
    PROVE  /\ Find(write_set, v) = 0 <=> written[v] = Nothing
           /\ Find(write_set, v) # 0 => PendingWrite(write_set, v) = written[v]
<1> DEFINE data == write_set.data
           I == {i \in 1 .. Len(data) : data[i].dest_var = v}
<1>1. /\ data \in Seq(Entries) /\ DOMAIN data = 1 .. Len(data) /\ I \in SUBSET Nat
      /\ Nothing \notin Objects
  BY AttemptsAssumption DEF Types, Nothing, WriteSets
<1>2. Find(write_set, v) = IF Bit[v] \notin write_set.filter \/ I = {} THEN 0 ELSE Min(I)
  BY DEF Find, SelectInSeq
<1>3. CASE I = {}
  <2>1. written[v] = Nothing
    BY <1>1, <1>3 DEF Writes
  <2> QED BY <1>2, <1>3, <2>1
<1>4. CASE I # {}
  <2>1. Min(I) \in I
    BY <1>1, <1>4, MinIs
  <2>2. /\ Min(I) \in DOMAIN data /\ Min(I) # 0 /\ data[Min(I)].dest_var = v
        /\ data[Min(I)] \in Entries
    <3>1. Min(I) \in 1 .. Len(data) /\ data[Min(I)].dest_var = v
      BY <2>1
    <3> HIDE DEF I
    <3> QED BY <1>1, <3>1
  <2>3. Bit[v] \in write_set.filter /\ written[v] = data[Min(I)].pending_write
    BY <2>2 DEF Writes
  <2>4. written[v] # Nothing
    BY <1>1, <2>2, <2>3 DEF Entries
  <2>5. Find(write_set, v) = Min(I)
    BY <1>2, <1>4, <2>3
  <2> QED BY <2>2, <2>3, <2>4, <2>5 DEF PendingWrite
<1> QED BY <1>3, <1>4

(* push_back keeps a slot to spare: either the vector has room for two or  *)
(* it grows.                                                               *)
LEMMA PushBackIs ==
    ASSUME NEW s \in WriteSets, Len(s.data) < s.capacity, NEW v \in Vars, NEW o \in Objects
    PROVE  /\ PushBack(s, v, o) \in WriteSets
           /\ PushBack(s, v, o).data = Append(s.data, [dest_var |-> v, pending_write |-> o])
           /\ PushBack(s, v, o).filter = s.filter \cup {Bit[v]}
           /\ Len(PushBack(s, v, o).data) < PushBack(s, v, o).capacity
<1> DEFINE e == [dest_var |-> v, pending_write |-> o]
           data == Append(s.data, e)
<1>1. /\ s.capacity \in Nat /\ s.data \in Seq(Entries) /\ s.filter \in SUBSET {Bit[w] : w \in Vars}
      /\ e \in Entries
  BY DEF WriteSets, Entries
<1>2. data \in Seq(Entries) /\ Len(data) = Len(s.data) + 1 /\ Len(s.data) \in Nat
  BY <1>1
<1>3. PICK r : /\ r \in WriteSets /\ r.filter = s.filter /\ r.data = data /\ Len(data) < r.capacity
               /\ PushBack(s, v, o) = [r EXCEPT !.filter = r.filter \cup {Bit[v]}]
  <2>1. CASE AllocatesOnNextPush(s)
    <3> DEFINE r == EmplaceBack(s, e)
    <3>1. Len(data) > s.capacity - 1 /\ Len(data) < 2 * s.capacity /\ 2 * s.capacity \in Nat
      BY <1>1, <1>2, <2>1 DEF AllocatesOnNextPush
    <3>2. r = [s EXCEPT !.data = data, !.capacity = 2 * s.capacity]
      BY <3>1 DEF EmplaceBack
    <3>3. PushBack(s, v, o) = [r EXCEPT !.filter = r.filter \cup {Bit[v]}]
      BY <2>1 DEF PushBack
    <3>4. r \in WriteSets /\ r.filter = s.filter /\ r.data = data /\ r.capacity = 2 * s.capacity
      <4>1. \A c \in Nat : r = [s EXCEPT !.data = data, !.capacity = c] =>
                r \in WriteSets /\ r.filter = s.filter /\ r.data = data /\ r.capacity = c
        <5> HIDE DEF data, r
        <5> QED BY <1>2 DEF WriteSets
      <4> QED BY <3>1, <3>2, <4>1
    <3> QED BY <3>1, <3>3, <3>4
  <2>2. CASE ~AllocatesOnNextPush(s)
    <3> DEFINE r == UncheckedEmplaceBack(s, e)
    <3>1. Len(data) < s.capacity
      BY <1>1, <1>2, <2>2 DEF AllocatesOnNextPush
    <3>2. r = [s EXCEPT !.data = data]
      BY DEF UncheckedEmplaceBack
    <3>3. PushBack(s, v, o) = [r EXCEPT !.filter = r.filter \cup {Bit[v]}]
      BY <2>2 DEF PushBack
    <3>4. r \in WriteSets /\ r.filter = s.filter /\ r.data = data /\ r.capacity = s.capacity
      <4> HIDE DEF data, r
      <4> QED BY <1>2, <3>2 DEF WriteSets
    <3> QED BY <3>1, <3>3, <3>4
  <2> QED BY <2>1, <2>2
<1>4. r.filter \cup {Bit[v]} \in SUBSET {Bit[w] : w \in Vars}
  BY <1>1, <1>3
<1>5. /\ PushBack(s, v, o) \in WriteSets /\ PushBack(s, v, o).data = r.data
      /\ PushBack(s, v, o).filter = r.filter \cup {Bit[v]}
      /\ PushBack(s, v, o).capacity = r.capacity
  BY <1>3, <1>4 DEF WriteSets
<1> QED BY <1>3, <1>5

LEMMA ClearIs ==
    ASSUME NEW s \in WriteSets
    PROVE  /\ ClearSet(s) \in WriteSets /\ ClearSet(s).filter = {} /\ ClearSet(s).data = <<>>
           /\ ClearSet(s).capacity = s.capacity
<1>1. <<>> \in Seq(Entries) /\ {} \in SUBSET {Bit[v] : v \in Vars}
  OBVIOUS
<1> QED BY <1>1 DEF ClearSet, WriteSets

LEMMA ShrinkIs ==
    ASSUME NEW s \in WriteSets
    PROVE  /\ ShrinkToFit(s) \in WriteSets /\ ShrinkToFit(s).filter = s.filter
           /\ ShrinkToFit(s).data = s.data
           /\ Len(ShrinkToFit(s).data) < ShrinkToFit(s).capacity
<1>1. s.data \in Seq(Entries)
  BY DEF WriteSets
<1>2. Len(s.data) + 1 \in Nat /\ Len(s.data) < Len(s.data) + 1
  BY <1>1
<1>3. /\ ShrinkToFit(s) \in WriteSets /\ ShrinkToFit(s).filter = s.filter
      /\ ShrinkToFit(s).data = s.data /\ ShrinkToFit(s).capacity = Len(s.data) + 1
  BY <1>2 DEF ShrinkToFit, WriteSets
<1> QED BY <1>2, <1>3

LEMMA EraseIs ==
    ASSUME NEW s \in Seq(Vars), NEW i \in 1 .. Len(s)
    PROVE  /\ UnorderedErase(s, i) \in Seq(Vars) /\ Len(UnorderedErase(s, i)) = Len(s) - 1
           /\ \A j \in 1 .. (Len(s) - 1) :
                  UnorderedErase(s, i)[j] = IF j = i THEN s[Len(s)] ELSE s[j]
<1> DEFINE r == [s EXCEPT ![i] = s[Len(s)]]
<1>1. s \in [1 .. Len(s) -> Vars] /\ Len(s) \in Nat \ {0} /\ i \in 1 .. Len(s)
  OBVIOUS
<1>2. r \in [1 .. Len(s) -> Vars] /\ \A j \in 1 .. Len(s) : r[j] = IF j = i THEN s[Len(s)] ELSE s[j]
  BY <1>1
<1>3. r \in Seq(Vars) /\ Len(r) = Len(s)
  BY <1>1, <1>2
<1>4. UnorderedErase(s, i) = SubSeq(r, 1, Len(s) - 1)
  BY <1>3 DEF UnorderedErase, Front, Last
<1> HIDE DEF r
<1>5. /\ SubSeq(r, 1, Len(s) - 1) \in Seq(Vars) /\ Len(SubSeq(r, 1, Len(s) - 1)) = Len(s) - 1
      /\ \A j \in 1 .. (Len(s) - 1) : SubSeq(r, 1, Len(s) - 1)[j] = r[j]
  BY <1>1, <1>3
<1> QED BY <1>1, <1>2, <1>4, <1>5

(* After n steps from the back, what is before the position is as it was   *)
(* and nothing that is written is behind it.                               *)
Dropped(reads, s, n, r) ==
    /\ r \in Seq(Vars) /\ Len(reads) - n <= Len(r)
    /\ \A j \in 1 .. (Len(reads) - n) : r[j] = reads[j]
    /\ \A j \in 1 .. Len(r) : j > Len(reads) - n => Find(s, r[j]) = 0
    /\ \A v \in Vars : Find(s, v) = 0 =>
           ((\E j \in 1 .. Len(r) : r[j] = v) <=> (\E j \in 1 .. Len(reads) : reads[j] = v))

LEMMA DropNext ==
    ASSUME NEW reads \in Seq(Vars), NEW s, NEW n \in Nat, n + 1 <= Len(reads),
           NEW r, Dropped(reads, s, n, r),
           NEW i, i = Len(reads) + 1 - (n + 1)
    PROVE  Dropped(reads, s, n + 1, IF Find(s, r[i]) # 0 THEN UnorderedErase(r, i) ELSE r)
<1>1. /\ r \in Seq(Vars) /\ Len(r) \in Nat /\ Len(reads) \in Nat /\ i = Len(reads) - n
      /\ i \in 1 .. Len(r) /\ Len(reads) - (n + 1) = i - 1
      /\ \A j \in 1 .. i : r[j] = reads[j]
      /\ \A j \in 1 .. Len(r) : j > i => Find(s, r[j]) = 0
  BY DEF Dropped
<1>2. CASE Find(s, r[i]) = 0
  <2>1. ASSUME NEW j \in 1 .. Len(r), j > i - 1
        PROVE  Find(s, r[j]) = 0
    <3>1. j = i \/ j > i
      BY <1>1, <2>1
    <3> QED BY <1>1, <1>2, <3>1
  <2>2. i - 1 <= Len(r) /\ \A j \in 1 .. (i - 1) : r[j] = reads[j]
    BY <1>1
  <2> QED BY <1>1, <1>2, <2>1, <2>2 DEF Dropped
<1>3. CASE Find(s, r[i]) # 0
  <2> DEFINE q == UnorderedErase(r, i)
             l == Len(r)
  <2>1. /\ q \in Seq(Vars) /\ Len(q) = l - 1 /\ l \in Nat /\ i \in 1 .. l
        /\ \A j \in 1 .. (l - 1) : q[j] = IF j = i THEN r[l] ELSE r[j]
    BY <1>1, EraseIs
  <2> HIDE DEF q
  <2>2. i - 1 <= Len(q) /\ \A j \in 1 .. (i - 1) : q[j] = reads[j]
    <3>1. ASSUME NEW j \in 1 .. (i - 1)
          PROVE  q[j] = reads[j]
      <4>1. j \in 1 .. (l - 1) /\ j # i /\ j \in 1 .. i
        BY <1>1, <2>1
      <4> QED BY <1>1, <2>1, <4>1
    <3> QED BY <1>1, <2>1, <3>1
  <2>3. ASSUME NEW j \in 1 .. Len(q), j > i - 1
        PROVE  Find(s, q[j]) = 0
    <3>1. CASE j = i
      <4>1. l \in 1 .. Len(r) /\ l > i /\ q[j] = r[l]
        BY <1>1, <2>1, <3>1
      <4> QED BY <1>1, <4>1
    <3>2. CASE j # i
      <4>1. j \in 1 .. Len(r) /\ j > i /\ q[j] = r[j]
        BY <1>1, <2>1, <2>3, <3>2
      <4> QED BY <1>1, <4>1
    <3> QED BY <3>1, <3>2
  <2>4. ASSUME NEW v \in Vars, Find(s, v) = 0
        PROVE  (\E j \in 1 .. Len(q) : q[j] = v) <=> (\E j \in 1 .. Len(r) : r[j] = v)
    <3>1. ASSUME NEW j \in 1 .. Len(q)
          PROVE  \E k \in 1 .. Len(r) : r[k] = q[j]
      <4>1. j \in 1 .. l /\ l \in 1 .. l /\ (q[j] = r[l] \/ q[j] = r[j])
        BY <2>1
      <4> QED BY <4>1
    <3>2. ASSUME NEW j \in 1 .. Len(r), r[j] = v
          PROVE  \E k \in 1 .. Len(q) : q[k] = v
      <4>1. j # i
        BY <1>3, <2>4, <3>2
      <4>2. CASE j = l
        <5>1. i \in 1 .. Len(q) /\ q[i] = r[l]
          BY <2>1, <4>1, <4>2
        <5> QED BY <3>2, <4>2, <5>1
      <4>3. CASE j # l
        <5>1. j \in 1 .. Len(q) /\ q[j] = r[j]
          BY <2>1, <4>1, <4>3
        <5> QED BY <3>2, <5>1
      <4> QED BY <4>2, <4>3
    <3> QED BY <3>1, <3>2
  <2>5. Dropped(reads, s, n + 1, q)
    BY <1>1, <2>1, <2>2, <2>3, <2>4 DEF Dropped
  <2> QED BY <1>3, <2>5 DEF q
<1> QED BY <1>2, <1>3

(* remove_writes_from_reads: of the reads, those stay that are not found   *)
(* in the write set.                                                       *)
LEMMA RemoveWritesIs ==
    ASSUME NEW reads \in Seq(Vars), NEW s
    PROVE  /\ RemoveWritesFromReads(reads, s) \in Seq(Vars)
           /\ ToSet(RemoveWritesFromReads(reads, s)) = {v \in ToSet(reads) : Find(s, v) = 0}
<1> DEFINE L == Len(reads)
           Drop(r, i) == IF Find(s, r[i]) # 0 THEN UnorderedErase(r, i) ELSE r
           Goes(f, m) == /\ f[0] = reads
                         /\ \A n \in 1 .. m : f[n] = Drop(f[n - 1], L + 1 - n)
                         /\ \A n \in 0 .. m : Dropped(reads, s, n, f[n])
           P(m) == m <= L => \E f : f = [n \in 0 .. m |-> f[n]] /\ Goes(f, m)
           S == {m \in Nat : P(m)}
<1>1. L \in Nat
  OBVIOUS
<1>2. P(0)
  <2> DEFINE f == [n \in 0 .. 0 |-> reads]
  <2>1. f = [n \in 0 .. 0 |-> f[n]] /\ f[0] = reads
    OBVIOUS
  <2>2. Dropped(reads, s, 0, reads)
    BY <1>1 DEF Dropped
  <2>3. \A n \in 0 .. 0 : Dropped(reads, s, n, f[n])
    BY <2>1, <2>2
  <2> HIDE DEF f
  <2> QED BY <2>1, <2>3
<1>3. ASSUME NEW m \in Nat, P(m)
      PROVE  P(m + 1)
  <2> SUFFICES ASSUME m + 1 <= L
               PROVE  \E f : f = [n \in 0 .. m + 1 |-> f[n]] /\ Goes(f, m + 1)
    OBVIOUS
  <2>1. m <= L
    BY <1>1
  <2>2. PICK f : f = [n \in 0 .. m |-> f[n]] /\ Goes(f, m)
    BY <1>3, <2>1
  <2> DEFINE i == L + 1 - (m + 1)
             g == [n \in 0 .. m + 1 |-> IF n = m + 1 THEN Drop(f[m], i) ELSE f[n]]
  <2>3. Dropped(reads, s, m, f[m])
    BY <2>2
  <2>4. Dropped(reads, s, m + 1, Drop(f[m], i))
    BY <2>3, DropNext
  <2> HIDE DEF Drop
  <2>5. /\ g = [n \in 0 .. m + 1 |-> g[n]] /\ g[m + 1] = Drop(f[m], i) /\ \A n \in 0 .. m : g[n] = f[n]
    OBVIOUS
  <2> HIDE DEF g
  <2>6. g[0] = reads
    BY <2>2, <2>5
  <2>7. ASSUME NEW n \in 1 .. m + 1
        PROVE  g[n] = Drop(g[n - 1], L + 1 - n)
    <3>1. CASE n = m + 1
      <4>1. n - 1 = m /\ m \in 0 .. m /\ L + 1 - n = i
        BY <1>1, <3>1
      <4> HIDE DEF i
      <4> QED BY <2>5, <3>1, <4>1
    <3>2. CASE n # m + 1
      <4>1. n \in 1 .. m /\ n \in 0 .. m /\ n - 1 \in 0 .. m
        BY <3>2
      <4> QED BY <2>2, <2>5, <4>1
    <3> QED BY <3>1, <3>2
  <2>8. ASSUME NEW n \in 0 .. m + 1
        PROVE  Dropped(reads, s, n, g[n])
    <3>1. CASE n = m + 1
      BY <2>4, <2>5, <3>1
    <3>2. CASE n # m + 1
      <4>1. n \in 0 .. m
        BY <3>2
      <4> QED BY <2>2, <2>5, <4>1
    <3> QED BY <3>1, <3>2
  <2> QED BY <2>5, <2>6, <2>7, <2>8
<1> HIDE DEF P
<1>4. S = Nat
  <2>1. S \in SUBSET Nat /\ 0 \in S /\ \A m \in S : m + 1 \in S
    BY <1>2, <1>3
  <2> QED BY <2>1, Induction
<1>5. P(L)
  BY <1>1, <1>4
<1>6. PICK f : f = [n \in 0 .. L |-> f[n]] /\ Goes(f, L)
  BY <1>1, <1>5 DEF P
<1> DEFINE Def(g) == [n \in 0 .. L |-> IF n = 0 THEN reads ELSE Drop(g[n - 1], L + 1 - n)]
           left == CHOOSE g : g = Def(g)
<1>7. RemoveWritesFromReads(reads, s) = left[L]
  BY DEF RemoveWritesFromReads
<1> HIDE DEF Drop
<1>8. f = Def(f)
  <2>1. ASSUME NEW n \in 0 .. L
        PROVE  f[n] = IF n = 0 THEN reads ELSE Drop(f[n - 1], L + 1 - n)
    <3>1. n = 0 \/ n \in 1 .. L
      BY <1>1
    <3> QED BY <1>6, <3>1
  <2> HIDE DEF L
  <2> QED BY <1>6, <2>1
<1> HIDE DEF Def
<1>9. left = Def(left)
  BY <1>8
<1> HIDE DEF left
<1>10. left[0] = reads /\ \A n \in 1 .. L : left[n] = Drop(left[n - 1], L + 1 - n)
  <2>1. left = [n \in 0 .. L |-> IF n = 0 THEN reads ELSE Drop(left[n - 1], L + 1 - n)]
    BY <1>9 DEF Def
  <2> QED BY <1>1, <2>1
<1> DEFINE Q(m) == m <= L => left[m] = f[m]
           T == {m \in Nat : Q(m)}
<1>11. Q(0)
  BY <1>6, <1>10
<1>12. ASSUME NEW m \in Nat, Q(m)
       PROVE  Q(m + 1)
  <2> SUFFICES ASSUME m + 1 <= L
               PROVE  left[m + 1] = f[m + 1]
    OBVIOUS
  <2>1. m + 1 \in 1 .. L /\ left[m] = f[m] /\ (m + 1) - 1 = m
    BY <1>1, <1>12
  <2> QED BY <1>6, <1>10, <2>1
<1> HIDE DEF Q
<1>13. T = Nat
  <2>1. T \in SUBSET Nat /\ 0 \in T /\ \A m \in T : m + 1 \in T
    BY <1>11, <1>12
  <2> QED BY <2>1, Induction
<1>14. Q(L)
  BY <1>1, <1>13
<1>15. RemoveWritesFromReads(reads, s) = f[L]
  BY <1>1, <1>7, <1>14 DEF Q
<1>16. Dropped(reads, s, L, f[L])
  BY <1>1, <1>6
<1>17. ASSUME NEW r, Dropped(reads, s, L, r)
       PROVE  r \in Seq(Vars) /\ ToSet(r) = {v \in ToSet(reads) : Find(s, v) = 0}
  <2>1. /\ r \in Seq(Vars) /\ Len(r) \in Nat /\ DOMAIN r = 1 .. Len(r) /\ DOMAIN reads = 1 .. Len(reads)
        /\ \A j \in 1 .. Len(r) : Find(s, r[j]) = 0 /\ r[j] \in Vars
        /\ \A j \in 1 .. Len(reads) : reads[j] \in Vars
    BY <1>1, <1>17 DEF Dropped
  <2>2. \A v \in Vars : Find(s, v) = 0 =>
            ((\E j \in 1 .. Len(r) : r[j] = v) <=> (\E j \in 1 .. Len(reads) : reads[j] = v))
    BY <1>17 DEF Dropped
  <2>3. ASSUME NEW v \in ToSet(r)
        PROVE  v \in ToSet(reads) /\ Find(s, v) = 0
    <3>1. PICK j \in 1 .. Len(r) : r[j] = v
      BY <2>1 DEF ToSet
    <3>2. v \in Vars /\ Find(s, v) = 0
      BY <2>1, <3>1
    <3>3. \E k \in 1 .. Len(reads) : reads[k] = v
      BY <2>2, <3>1, <3>2
    <3> QED BY <2>1, <3>2, <3>3 DEF ToSet
  <2>4. ASSUME NEW v \in ToSet(reads), Find(s, v) = 0
        PROVE  v \in ToSet(r)
    <3>1. PICK j \in 1 .. Len(reads) : reads[j] = v
      BY <2>1 DEF ToSet
    <3>2. v \in Vars
      BY <2>1, <3>1
    <3>3. \E k \in 1 .. Len(r) : r[k] = v
      BY <2>2, <2>4, <3>1, <3>2
    <3> QED BY <2>1, <3>3 DEF ToSet
  <2> QED BY <2>1, <2>3, <2>4
<1> QED BY <1>15, <1>16, <1>17

-----------------------------------------------------------------------------
(* What a step leaves alone *)

LEMMA StackIs ==
    ASSUME NEW s \in Seq(Kinds), s # <<>>
    PROVE  /\ Len(s) \in Nat /\ Len(s) >= 1 /\ s[1] \in Kinds /\ Last(s) \in Kinds
           /\ Last(s) = s[Len(s)] /\ Len(s) \in DOMAIN s /\ DOMAIN s = 1 .. Len(s)
           /\ \A k \in Kinds : /\ Append(s, k) \in Seq(Kinds) /\ Append(s, k) # <<>>
                               /\ Append(s, k)[1] = s[1] /\ Len(Append(s, k)) = Len(s) + 1
                               /\ \A i \in DOMAIN Append(s, k) :
                                      Append(s, k)[i] = k \/ \E j \in DOMAIN s : Append(s, k)[i] = s[j]
           /\ \A n \in 1 .. Len(s) :
                  /\ SubSeq(s, 1, n) \in Seq(Kinds) /\ SubSeq(s, 1, n) # <<>>
                  /\ SubSeq(s, 1, n)[1] = s[1] /\ Len(SubSeq(s, 1, n)) = n
                  /\ \A i \in DOMAIN SubSeq(s, 1, n) : \E j \in DOMAIN s : SubSeq(s, 1, n)[i] = s[j]
<1>1. /\ Len(s) \in Nat /\ Len(s) >= 1 /\ s[1] \in Kinds /\ Last(s) \in Kinds
      /\ Last(s) = s[Len(s)] /\ Len(s) \in DOMAIN s /\ DOMAIN s = 1 .. Len(s)
  BY DEF Last
<1>2. ASSUME NEW k \in Kinds
      PROVE  /\ Append(s, k) \in Seq(Kinds) /\ Append(s, k) # <<>>
             /\ Append(s, k)[1] = s[1] /\ Len(Append(s, k)) = Len(s) + 1
             /\ \A i \in DOMAIN Append(s, k) :
                    Append(s, k)[i] = k \/ \E j \in DOMAIN s : Append(s, k)[i] = s[j]
  BY <1>1
<1>3. ASSUME NEW n \in 1 .. Len(s)
      PROVE  /\ SubSeq(s, 1, n) \in Seq(Kinds) /\ SubSeq(s, 1, n) # <<>>
             /\ SubSeq(s, 1, n)[1] = s[1] /\ Len(SubSeq(s, 1, n)) = n
             /\ \A i \in DOMAIN SubSeq(s, 1, n) : \E j \in DOMAIN s : SubSeq(s, 1, n)[i] = s[j]
  <2>1. SubSeq(s, 1, n) \in Seq(Kinds) /\ Len(SubSeq(s, 1, n)) = n
        /\ \A i \in 1 .. n : SubSeq(s, 1, n)[i] = s[i]
    BY <1>1
  <2> QED BY <1>1, <2>1
<1> QED BY <1>1, <1>2, <1>3

(* Levels come and go above the outermost call. *)
LEMMA ShapeInside ==
    ASSUME Types, Shape, stack # <<>>,
           stack' \in Seq(Kinds), stack' # <<>>, stack'[1] = stack[1], Len(stack') <= MaxLevel,
           \A i \in DOMAIN stack' : stack'[i] = "read_write" => tx_state = "read_write",
           tx_state' = tx_state, section' = section, SlotToSpare',
           committing' => tx_state = "read_write" /\ Len(stack') = 1,
           tx_state # "read_write" =>
               /\ write_set'.data = <<>> /\ write_set'.filter = {} /\ read_set' = <<>>
               /\ fail_callbacks' = <<>> /\ working' = <<>> /\ mine' = {}
    PROVE  Shape'
BY DEF Shape, KindIsTheOutermost

(* The outermost call is left. *)
LEMMA ShapeOutside ==
    ASSUME Types, Shape, stack' = <<>>, tx_state' = "none", section' = FALSE, ~committing', SlotToSpare',
           write_set'.data = <<>>, write_set'.filter = {}, read_set' = <<>>,
           fail_callbacks' = <<>>, working' = <<>>, mine' = {}
    PROVE  Shape'
<1>1. Len(<<>>) = 0 /\ DOMAIN <<>> = {} /\ 0 <= MaxLevel
  BY AttemptsAssumption
<1> QED BY <1>1 DEF Shape, KindIsTheOutermost

LEMMA WritesKept ==
    ASSUME Writes, write_set'.data = write_set.data, write_set'.filter = write_set.filter,
           written' = written
    PROVE  Writes'
BY DEF Writes

LEMMA WritesForgotten ==
    ASSUME write_set'.data = <<>>, written' = [v \in Vars |-> Nothing]
    PROVE  Writes'
BY DEF Writes

LEMMA ReadsForgotten ==
    ASSUME read_set' = <<>>, ~committing', tracked' = {}, seen' = {}
    PROVE  Reads'
<1>1. ToSet(<<>>) = {}
  BY DEF ToSet
<1> QED BY <1>1 DEF Reads, ReadsOwnWrites, ValidatesTheRest

(* The objects and who owns them. *)
Memory == Owners /\ Registrations /\ Reclaims(queue) /\ Reclaims(queue \o working)

LEMMA MemoryKept ==
    ASSUME Memory, heap' = heap, roots' = roots, mine' = mine, queue' = queue, working' = working,
           storage' = storage, written' = written
    PROVE  Memory'
<1>1. Owners'
  BY DEF Memory, Owners, NotFree, Held, Pending, Written, FreesIn
<1>2. Registrations'
  BY DEF Memory, Registrations, Objs, FreesIn, Replaced, Written
<1>3. Reclaims(queue)' /\ Reclaims(queue \o working)'
  BY DEF Memory, Reclaims
<1> QED BY <1>1, <1>2, <1>3 DEF Memory

Past == Undoes /\ Began

LEMMA PastKept ==
    ASSUME Past, heap' = heap, roots' = roots, queue' = queue, storage' = storage,
           fail_callbacks' = fail_callbacks,
           stack' = <<>> \/ (stack # <<>> /\ before' = before)
    PROVE  Past'
<1>1. DoFailCallbacks(heap)' = DoFailCallbacks(heap)
  BY DEF DoFailCallbacks
<1>2. Undoes'
  <2>1. stack' # <<>> => \A o \in Objects : AsBefore(o, DoFailCallbacks(heap)[o])'
    BY <1>1 DEF Past, Undoes, AsBefore
  <2>2. \A c \in ToSet(fail_callbacks') : c[1] = "destroy" => c[2] \notin Trivial
    BY DEF Past, Undoes
  <2>3. Objs(fail_callbacks)' \cap Objs(queue)' = {}
    BY DEF Past, Undoes, Objs
  <2> QED BY <2>1, <2>2, <2>3 DEF Undoes
<1>3. Began'
  BY DEF Past, Began, NotFree, Held, FreesIn
<1> QED BY <1>2, <1>3 DEF Past

LEMMA MemoryInvIs ==
    MemoryInv <=> Types /\ Shape /\ Writes /\ Reads /\ Memory /\ Past
BY DEF MemoryInv, Memory, Past

-----------------------------------------------------------------------------
(* Callbacks that clean up *)

LEMMA CleansElsewhere ==
    ASSUME NEW cs \in Seq(Callback), NEW h \in Heaps, NEW k \in Heaps,
           \A o \in Objs(cs) : h[o] = k[o], Cleans(cs, h)
    PROVE  Cleans(cs, k)
<1>1. FreesIn(cs) \subseteq Objs(cs) /\ Objs(cs) \subseteq Objects
  BY ObjsType
<1>2. \A o \in Objs(cs) : Run(cs, h)[o] = Run(cs, k)[o]
  BY <1>1, RunLocal
<1> QED BY <1>1, <1>2 DEF Cleans

LEMMA CleansAppend ==
    ASSUME NEW cs \in Seq(Callback), NEW c \in Callback, NEW h \in Heaps,
           Cleans(cs, h), c[2] \notin FreesIn(cs),
           After(c[1], c[2], Run(cs, h)[c[2]]) = IF c[1] = "destroy" THEN "raw" ELSE "free"
    PROVE  Cleans(Append(cs, c), h)
<1> DEFINE r == Run(cs, h)
           ds == Append(cs, c)
<1>1. r \in Heaps /\ c[2] \in Objects
  BY RunType, ApplyType
<1>2. Run(ds, h) = Apply(r, c)
  BY RunAppend
<1>3. /\ Run(ds, h)[c[2]] = IF c[1] = "destroy" THEN "raw" ELSE "free"
      /\ \A o \in Objects \ {c[2]} : Run(ds, h)[o] = r[o]
  BY <1>1, <1>2 DEF Apply, Heaps
<1>4. /\ Objs(ds) = Objs(cs) \cup {c[2]}
      /\ FreesIn(ds) = FreesIn(cs) \cup (IF c[1] = "destroy" THEN {} ELSE {c[2]})
      /\ FreesIn(cs) \subseteq Objects /\ Objs(cs) \subseteq Objects
  BY ObjsOfAppend, ObjsType
<1> HIDE DEF ds
<1>5. ASSUME NEW o \in FreesIn(ds)
      PROVE  Run(ds, h)[o] = "free"
  <2>1. CASE o = c[2]
    BY <1>3, <1>4, <2>1
  <2>2. CASE o # c[2]
    BY <1>3, <1>4, <2>2 DEF Cleans
  <2> QED BY <2>1, <2>2
<1>6. ASSUME NEW o \in Objs(ds) \ FreesIn(ds)
      PROVE  Run(ds, h)[o] = "raw"
  <2>1. CASE o = c[2]
    BY <1>3, <1>4, <2>1
  <2>2. CASE o # c[2]
    BY <1>3, <1>4, <2>2 DEF Cleans
  <2> QED BY <2>1, <2>2
<1> QED BY <1>5, <1>6 DEF Cleans, ds

LEMMA CleansNothing ==
    ASSUME NEW h
    PROVE  Cleans(<<>>, h)
BY ObjsOfEmpty DEF Cleans

(* A heap that is cleaned up: what was freed is free, what was destroyed   *)
(* is raw, the rest is as it was.                                          *)
LEMMA CleanedIs ==
    ASSUME NEW cs \in Seq(Callback), NEW h \in Heaps, Cleans(cs, h),
           Objs(cs) \subseteq NotFree(h), \A o \in Objects : h[o] # "broken"
    PROVE  /\ Run(cs, h) \in Heaps
           /\ NotFree(Run(cs, h)) = NotFree(h) \ FreesIn(cs)
           /\ \A o \in Objects : Run(cs, h)[o] # "broken"
           /\ \A o \in Objects \ Objs(cs) : Run(cs, h)[o] = h[o]
<1> DEFINE r == Run(cs, h)
<1>1. r \in Heaps
  BY RunType
<1>2. FreesIn(cs) \subseteq Objs(cs) /\ Objs(cs) \subseteq Objects
  BY ObjsType
<1>3. /\ \A o \in FreesIn(cs) : r[o] = "free"
      /\ \A o \in Objs(cs) \ FreesIn(cs) : r[o] = "raw"
      /\ \A o \in Objects \ Objs(cs) : r[o] = h[o]
  BY RunElsewhere DEF Cleans
<1> HIDE DEF r
<1>4. NotFree(r) = NotFree(h) \ FreesIn(cs)
  BY <1>2, <1>3 DEF NotFree
<1>5. \A o \in Objects : r[o] # "broken"
  BY <1>2, <1>3
<1> QED BY <1>1, <1>3, <1>4, <1>5 DEF r
-----------------------------------------------------------------------------
(* What the invariant says of the callbacks that are registered, and of a  *)
(* thread that has nothing of its own.                                     *)
LEMMA WhereRegistered ==
    ASSUME Types, Memory
    PROVE  /\ queue \o working \in Seq(Callback)
           /\ Objs(queue \o working) = Objs(queue) \cup Objs(working)
           /\ FreesIn(queue \o working) = FreesIn(queue) \cup FreesIn(working)
           /\ Objs(queue \o working) \subseteq FreesIn(queue) \cup roots \cup mine \cup Replaced
           /\ Objs(queue \o working) \subseteq NotFree(heap)
           /\ Replaced \subseteq Held
<1>1. queue \in Seq(Callback) /\ working \in Seq(Callback)
  BY DEF Types
<1>2. /\ queue \o working \in Seq(Callback)
      /\ Objs(queue \o working) = Objs(queue) \cup Objs(working)
      /\ FreesIn(queue \o working) = FreesIn(queue) \cup FreesIn(working)
  BY <1>1, SetOfConcat, ObjsOfConcat
<1>3. Objs(queue \o working) \subseteq FreesIn(queue) \cup roots \cup mine \cup Replaced
  BY <1>2 DEF Memory, Registrations
<1>4. Replaced \subseteq Held
  BY DEF Replaced, Held, Written
<1>5. Objs(queue \o working) \subseteq NotFree(heap)
  BY <1>3, <1>4 DEF Memory, Owners
<1> QED BY <1>2, <1>3, <1>4, <1>5

LEMMA Idle ==
    ASSUME Types, Writes, write_set.data = <<>>
    PROVE  written = [v \in Vars |-> Nothing] /\ Written = {} /\ Pending = {} /\ Replaced = {}
<1>1. \A v \in Vars : written[v] = Nothing
  BY DEF Writes
<1>2. Written = {}
  BY <1>1 DEF Written
<1>3. written = [v \in Vars |-> Nothing]
  BY <1>1 DEF Types
<1> QED BY <1>2, <1>3 DEF Pending, Replaced

LEMMA PastOver ==
    ASSUME stack' = <<>>, fail_callbacks' = <<>>
    PROVE  Past'
<1>1. ToSet(fail_callbacks') = {} /\ Objs(fail_callbacks)' = {}
  BY ObjsOfEmpty
<1> QED BY <1>1 DEF Past, Undoes, Began

LEMMA PastBegins ==
    ASSUME before' = heap', heap' \in Heaps, fail_callbacks' = <<>>, mine' = {},
           written' = [v \in Vars |-> Nothing], Memory'
    PROVE  Past'
<1>1. ToSet(fail_callbacks') = {} /\ Objs(fail_callbacks)' = {}
  BY ObjsOfEmpty
<1>2. Reverse(<<>>) = <<>>
  BY DEF Reverse
<1>3. DoFailCallbacks(heap)' = heap'
  BY <1>2, RunEmpty DEF DoFailCallbacks
<1>4. Undoes'
  BY <1>1, <1>3 DEF Undoes, AsBefore
<1>5. Pending' = {}
  BY DEF Pending, Written
<1>6. Began'
  BY <1>5 DEF Began, Memory, Owners, NotFree
<1> QED BY <1>4, <1>6 DEF Past

-----------------------------------------------------------------------------
(* The failure callbacks bring back the heap of the beginning. *)
LEMMA UndoneIs ==
    ASSUME Types, Memory, Past, stack # <<>>
    PROVE  /\ DoFailCallbacks(heap) \in Heaps
           /\ NotFree(DoFailCallbacks(heap)) = roots \cup FreesIn(queue) \cup Held
           /\ \A o \in Objects : DoFailCallbacks(heap)[o] # "broken"
           /\ \A o \in Held : DoFailCallbacks(heap)[o] = "live"
           /\ \A o \in Objs(queue) : DoFailCallbacks(heap)[o] = heap[o]
<1> DEFINE h == DoFailCallbacks(heap)
<1>1. /\ fail_callbacks \in Seq(Callback) /\ queue \in Seq(Callback) /\ heap \in Heaps
      /\ before \in Heaps /\ storage \in [Vars -> Objects]
  BY DEF Types, Heaps
<1>2. /\ Reverse(fail_callbacks) \in Seq(Callback)
      /\ Objs(Reverse(fail_callbacks)) = Objs(fail_callbacks)
  BY <1>1, ReverseIs
<1>3. h \in Heaps
  BY <1>1, <1>2, RunType DEF DoFailCallbacks
<1>4. \A o \in Objs(queue) : h[o] = heap[o]
  <2>1. Objs(queue) \subseteq Objects /\ Objs(fail_callbacks) \cap Objs(queue) = {}
    BY <1>1, ObjsType DEF Past, Undoes
  <2> QED BY <1>1, <1>2, <2>1, RunElsewhere DEF DoFailCallbacks
<1>5. \A o \in Objects : AsBefore(o, h[o])
  BY DEF Past, Undoes
<1>6. /\ NotFree(before) = roots \cup FreesIn(queue) \cup Held
      /\ \A o \in Objects : before[o] # "broken"
      /\ \A o \in Held : before[o] = "live"
  BY DEF Past, Began
<1> HIDE DEF h
<1>7. NotFree(h) = NotFree(before)
  BY <1>5 DEF AsBefore, NotFree
<1>8. \A o \in Objects : h[o] # "broken"
  BY <1>5, <1>6 DEF AsBefore
<1>9. \A o \in Held : h[o] = "live"
  <2>1. Held \subseteq Objects /\ \A o \in Held : o \notin Trivial
    BY <1>1 DEF Held, Memory, Owners
  <2> QED BY <1>5, <1>6, <2>1 DEF AsBefore
<1> QED BY <1>3, <1>4, <1>6, <1>7, <1>8, <1>9 DEF h

LEMMA MemoryFails ==
    ASSUME Types, Memory, Past, stack # <<>>,
           heap' = DoFailCallbacks(heap), roots' = roots, mine' = {}, queue' = queue,
           working' = <<>>, storage' = storage, written' = [v \in Vars |-> Nothing]
    PROVE  Memory'
<1>1. queue \in Seq(Callback) /\ heap \in Heaps
  BY DEF Types, Heaps
<1>2. /\ heap' \in Heaps /\ NotFree(heap') = roots \cup FreesIn(queue) \cup Held
      /\ \A o \in Objects : heap'[o] # "broken"
      /\ \A o \in Held : heap'[o] = "live"
      /\ \A o \in Objs(queue) : heap'[o] = heap[o]
  BY UndoneIs
<1>3. /\ Written' = {} /\ Pending' = {} /\ Replaced' = {} /\ Held' = Held
  BY DEF Written, Pending, Replaced, Held
<1>4. Owners'
  <2>1. NotFree(heap)' = NotFree(heap') /\ FreesIn(queue)' = FreesIn(queue)
    BY DEF NotFree
  <2> QED BY <1>2, <1>3, <2>1 DEF Memory, Owners
<1>5. Registrations'
  BY <1>3, ObjsOfEmpty DEF Memory, Registrations, Objs, FreesIn
<1>6. Cleans(queue, heap')
  BY <1>1, <1>2, CleansElsewhere DEF Memory, Reclaims
<1>7. queue \o <<>> = queue
  BY <1>1
<1>8. Reclaims(queue)' /\ Reclaims(queue \o working)'
  BY <1>6, <1>7 DEF Reclaims
<1> QED BY <1>4, <1>5, <1>8 DEF Memory

(* An object that was free is taken. *)
LEMMA MemoryTakes ==
    ASSUME Types, Memory, NEW n \in Objects, heap[n] = "free", NEW s \in {"raw", "live"},
           heap' = [heap EXCEPT ![n] = s],
           queue' = queue, working' = working, storage' = storage, written' = written,
           \/ mine' = mine \cup {n} /\ roots' = roots
           \/ roots' = roots \cup {n} /\ mine' = mine
    PROVE  Memory'
<1>1. /\ queue \in Seq(Callback) /\ working \in Seq(Callback) /\ heap \in Heaps
      /\ heap' \in Heaps /\ heap'[n] = s /\ \A o \in Objects \ {n} : heap'[o] = heap[o]
      /\ Held \subseteq Objects
  BY DEF Types, Heaps, Held, States
<1>2. NotFree(heap') = NotFree(heap) \cup {n} /\ n \notin NotFree(heap)
  BY <1>1 DEF NotFree
<1>3. /\ Written' = Written /\ Pending' = Pending /\ Replaced' = Replaced /\ Held' = Held
      /\ FreesIn(queue)' = FreesIn(queue) /\ NotFree(heap)' = NotFree(heap')
  BY DEF Written, Pending, Replaced, Held, NotFree
<1>4. n \notin roots \cup mine \cup FreesIn(queue) \cup Held \cup Pending
  BY <1>2 DEF Memory, Owners
<1>5. Owners'
  <2>1. NotFree(heap') = roots' \cup mine' \cup FreesIn(queue) \cup Held \cup Pending
    BY <1>2 DEF Memory, Owners
  <2>2. \A o \in Objects : heap'[o] # "broken"
    BY <1>1 DEF Memory, Owners
  <2>3. \A o \in Held \cup Pending : heap'[o] = "live" /\ o \notin Trivial
    <3>1. ASSUME NEW o \in Held \cup Pending
          PROVE  o \in Objects \ {n} /\ heap[o] = "live" /\ o \notin Trivial
      BY <1>4 DEF Memory, Owners, NotFree
    <3> QED BY <1>1, <3>1
  <2>4. /\ roots' \cap mine' = {} /\ FreesIn(queue) \cap (roots' \cup mine') = {}
        /\ Held \cap (roots' \cup mine' \cup FreesIn(queue) \cup Pending) = {}
        /\ Pending \cap (roots' \cup mine' \cup FreesIn(queue)) = {}
    BY <1>4 DEF Memory, Owners
  <2>5. /\ \A v, w \in Vars : storage'[v] = storage'[w] => v = w
        /\ \A v, w \in Written' : written'[v] = written'[w] => v = w
    BY <1>3 DEF Memory, Owners
  <2> QED BY <1>3, <2>1, <2>2, <2>3, <2>4, <2>5 DEF Owners
<1>6. Registrations'
  BY <1>3 DEF Memory, Registrations, Objs, FreesIn
<1>7. Cleans(queue, heap') /\ Cleans(queue \o working, heap')
  <2>1. /\ queue \o working \in Seq(Callback) /\ Objs(queue) \subseteq Objs(queue \o working)
        /\ Objs(queue \o working) \subseteq NotFree(heap) /\ NotFree(heap) \subseteq Objects
    BY WhereRegistered DEF NotFree
  <2>2. \A o \in Objs(queue \o working) : heap[o] = heap'[o]
    BY <1>1, <1>2, <2>1
  <2>3. Cleans(queue, heap')
    BY <1>1, <2>1, <2>2, CleansElsewhere DEF Memory, Reclaims
  <2>4. Cleans(queue \o working, heap')
    BY <1>1, <2>1, <2>2, CleansElsewhere DEF Memory, Reclaims
  <2> QED BY <2>3, <2>4
<1> QED BY <1>5, <1>6, <1>7 DEF Memory, Reclaims

(* A callback is registered that undoes what the step has done. *)
LEMMA PastGrows ==
    ASSUME Types, Past, NEW c \in Callback, heap' \in Heaps, Apply(heap', c) = heap,
           c[2] \notin Objs(queue), c[1] = "destroy" => c[2] \notin Trivial,
           fail_callbacks' = Append(fail_callbacks, c),
           stack' = stack, before' = before, queue' = queue, storage' = storage, roots' = roots
    PROVE  Past'
<1>1. fail_callbacks \in Seq(Callback)
  BY DEF Types
<1>2. DoFailCallbacks(heap)' = DoFailCallbacks(heap)
  <2>1. DoFailCallbacks(heap)' = Run(Reverse(Append(fail_callbacks, c)), heap')
    BY DEF DoFailCallbacks
  <2>2. Run(Reverse(Append(fail_callbacks, c)), heap') = Run(Reverse(fail_callbacks), Apply(heap', c))
    BY <1>1, UndoAppend
  <2> QED BY <2>1, <2>2 DEF DoFailCallbacks
<1>3. /\ ToSet(fail_callbacks') = ToSet(fail_callbacks) \cup {c}
      /\ Objs(fail_callbacks') = Objs(fail_callbacks) \cup {c[2]}
  BY <1>1, SetOfAppend, ObjsOfAppend
<1>4. Undoes'
  <2>1. \A d \in ToSet(fail_callbacks') : d[1] = "destroy" => d[2] \notin Trivial
    BY <1>3 DEF Past, Undoes
  <2>2. Objs(fail_callbacks') \cap Objs(queue) = {}
    BY <1>3 DEF Past, Undoes
  <2>3. stack' # <<>> => \A o \in Objects : AsBefore(o, DoFailCallbacks(heap)[o])'
    BY <1>2 DEF Past, Undoes, AsBefore
  <2>4. Objs(fail_callbacks)' = Objs(fail_callbacks') /\ Objs(queue)' = Objs(queue)
    BY DEF Objs
  <2> QED BY <2>1, <2>2, <2>3, <2>4 DEF Undoes
<1>5. Began'
  BY DEF Past, Began, NotFree, Held, FreesIn
<1> QED BY <1>4, <1>5 DEF Past

-----------------------------------------------------------------------------
(* Ways in *)

LEMMA EnterKeeps ==
    ASSUME MemoryInv, NEW f \in Kinds, Enter(f)
    PROVE  MemoryInv'
<1>1. Types /\ Shape /\ Writes /\ Reads /\ Memory /\ Past
  BY MemoryInvIs
<1>2. /\ stack = <<>> /\ stack' = <<f>> /\ calls' = calls + 1 /\ section' = TRUE
      /\ tx_state' = (IF f = "relative" THEN "none" ELSE f)
      /\ before' = heap /\ written' = [v \in Vars |-> Nothing]
      /\ tracked' = {} /\ seen' = {} /\ steps' = 0
      /\ UNCHANGED <<committing, write_set, read_set, callbacks, storage, memory>>
  BY DEF Enter, BeginAttempt, Forget
<1>3. /\ tx_state = "none" /\ ~committing /\ write_set.data = <<>> /\ write_set.filter = {}
      /\ read_set = <<>> /\ fail_callbacks = <<>> /\ working = <<>> /\ mine = {} /\ SlotToSpare
  BY <1>1, <1>2 DEF Shape
<1>4. /\ UNCHANGED <<fail_callbacks, working, queue>> /\ UNCHANGED <<heap, roots, mine>>
  BY <1>2 DEF callbacks, memory
<1>5. Types'
  <2>1. <<f>> \in Seq(Kinds)
    OBVIOUS
  <2>2. tx_state' \in {"none", "read_only", "read_write"}
    BY <1>2 DEF Kinds
  <2>3. calls' \in Nat /\ steps' \in Nat
    BY <1>1, <1>2 DEF Types
  <2> QED BY <1>1, <1>2, <1>4, <2>1, <2>2, <2>3 DEF Types
<1>6. Shape'
  <2>1. Len(<<f>>) = 1 /\ 1 <= MaxLevel /\ DOMAIN <<f>> = {1} /\ <<f>>[1] = f /\ <<f>> # <<>>
    BY AttemptsAssumption
  <2>2. SlotToSpare'
    BY <1>2, <1>3 DEF SlotToSpare
  <2>3. KindIsTheOutermost'
    BY <1>2, <2>1 DEF KindIsTheOutermost
  <2> QED BY <1>2, <1>3, <1>4, <2>1, <2>2, <2>3 DEF Shape
<1>7. Writes'
  BY <1>2, <1>3, WritesForgotten
<1>8. Reads'
  BY <1>2, <1>3, ReadsForgotten
<1>9. Memory'
  BY <1>1, <1>2, <1>3, <1>4, Idle, MemoryKept
<1>10. Past'
  BY <1>1, <1>2, <1>3, <1>4, <1>9, PastBegins DEF Types, Heaps
<1> QED BY <1>5, <1>6, <1>7, <1>8, <1>9, <1>10 DEF MemoryInv, Memory, Past

LEMMA NestKeeps ==
    ASSUME MemoryInv, NEW f \in Kinds, Nest(f)
    PROVE  MemoryInv'
<1>1. Types /\ Shape /\ Writes /\ Reads /\ Memory /\ Past
  BY MemoryInvIs
<1>2. /\ stack # <<>> /\ ~committing /\ steps' = steps + 1 /\ Len(stack) < MaxLevel
      /\ f = "read_write" => tx_state = "read_write"
      /\ stack' = Append(stack, f)
      /\ UNCHANGED <<committing, tx_state, section, write_set, read_set, storage, calls>>
  BY DEF Nest, Does, Running
<1>3. /\ UNCHANGED <<fail_callbacks, working, queue>> /\ UNCHANGED <<heap, roots, mine>>
      /\ UNCHANGED <<before, written, tracked, seen>>
  BY DEF Nest, callbacks, memory, history
<1>4. /\ stack' \in Seq(Kinds) /\ stack' # <<>> /\ stack'[1] = stack[1]
      /\ Len(stack') = Len(stack) + 1 /\ Len(stack) \in Nat
      /\ \A i \in DOMAIN stack' : stack'[i] = f \/ \E j \in DOMAIN stack : stack'[i] = stack[j]
  BY <1>1, <1>2, StackIs DEF Types
<1>5. Types'
  <2>1. steps' \in Nat
    BY <1>1, <1>2 DEF Types
  <2> QED BY <1>1, <1>2, <1>3, <1>4, <2>1 DEF Types
<1>6. Shape'
  <2>1. Len(stack') <= MaxLevel
    BY <1>2, <1>4, AttemptsAssumption
  <2>2. SlotToSpare'
    BY <1>1, <1>2 DEF Shape, SlotToSpare
  <2>3. \A i \in DOMAIN stack' : stack'[i] = "read_write" => tx_state = "read_write"
    BY <1>1, <1>2, <1>4 DEF Shape
  <2>4. tx_state # "read_write" =>
            /\ write_set'.data = <<>> /\ write_set'.filter = {} /\ read_set' = <<>>
            /\ fail_callbacks' = <<>> /\ working' = <<>> /\ mine' = {}
    BY <1>1, <1>2, <1>3 DEF Shape
  <2> QED BY <1>1, <1>2, <1>4, <2>1, <2>2, <2>3, <2>4, ShapeInside
<1>7. Writes'
  BY <1>1, <1>2, <1>3, WritesKept
<1>8. Reads'
  BY <1>1, <1>2, <1>3 DEF Reads, ReadsOwnWrites, ValidatesTheRest
<1>9. Memory' /\ Past'
  BY <1>1, <1>2, <1>3, MemoryKept, PastKept
<1> QED BY <1>5, <1>6, <1>7, <1>8, <1>9 DEF MemoryInv, Memory, Past

(* An inner call returns. *)
LEMMA ReturnKeeps ==
    ASSUME MemoryInv, Return
    PROVE  MemoryInv'
<1>1. Types /\ Shape /\ Writes /\ Reads /\ Memory /\ Past
  BY MemoryInvIs
<1>2. /\ stack # <<>> /\ ~committing /\ Len(stack) > 1
      /\ stack' = SubSeq(stack, 1, Len(stack) - 1)
      /\ UNCHANGED <<committing, tx_state, section, write_set, read_set, storage, calls, steps>>
  BY DEF Return, Running, Front
<1>3. /\ UNCHANGED <<fail_callbacks, working, queue>> /\ UNCHANGED <<heap, roots, mine>>
      /\ UNCHANGED <<before, written, tracked, seen>>
  BY DEF Return, callbacks, memory, history
<1>4. /\ stack' \in Seq(Kinds) /\ stack' # <<>> /\ stack'[1] = stack[1]
      /\ Len(stack') = Len(stack) - 1 /\ Len(stack) \in Nat
      /\ \A i \in DOMAIN stack' : \E j \in DOMAIN stack : stack'[i] = stack[j]
  <2>1. stack \in Seq(Kinds) /\ Len(stack) - 1 \in 1 .. Len(stack) /\ Len(stack) \in Nat
    BY <1>1, <1>2 DEF Types
  <2> QED BY <1>2, <2>1, StackIs
<1>5. Types'
  BY <1>1, <1>2, <1>3, <1>4 DEF Types
<1>6. Shape'
  <2>1. Len(stack') <= MaxLevel
    BY <1>1, <1>4, AttemptsAssumption DEF Shape
  <2>2. SlotToSpare'
    BY <1>1, <1>2 DEF Shape, SlotToSpare
  <2>3. \A i \in DOMAIN stack' : stack'[i] = "read_write" => tx_state = "read_write"
    BY <1>1, <1>4 DEF Shape
  <2>4. tx_state # "read_write" =>
            /\ write_set'.data = <<>> /\ write_set'.filter = {} /\ read_set' = <<>>
            /\ fail_callbacks' = <<>> /\ working' = <<>> /\ mine' = {}
    BY <1>1, <1>2, <1>3 DEF Shape
  <2> QED BY <1>1, <1>2, <1>4, <2>1, <2>2, <2>3, <2>4, ShapeInside
<1>7. Writes'
  BY <1>1, <1>2, <1>3, WritesKept
<1>8. Reads'
  BY <1>1, <1>2, <1>3 DEF Reads, ReadsOwnWrites, ValidatesTheRest
<1>9. Memory' /\ Past'
  BY <1>1, <1>2, <1>3, MemoryKept, PastKept
<1> QED BY <1>5, <1>6, <1>7, <1>8, <1>9 DEF MemoryInv, Memory, Past

-----------------------------------------------------------------------------
(* Ways out *)

(* A section that is no read-write transaction has nothing to undo. *)
LEMMA NothingToUndo ==
    ASSUME Types, Shape, tx_state # "read_write"
    PROVE  DoFailCallbacks(heap) = heap
<1>1. fail_callbacks = <<>> /\ heap \in Heaps
  BY DEF Shape, Types, Heaps
<1>2. Reverse(<<>>) = <<>>
  BY DEF Reverse
<1> QED BY <1>1, <1>2, RunEmpty DEF DoFailCallbacks

(* The outermost call is left: what all the ways of doing so share. *)
LEMMA OutsideTypes ==
    ASSUME Types, Shape, stack' = <<>>, tx_state' = "none", section' = FALSE, committing' = FALSE,
           steps' = 0, before' = [o \in Objects |-> "free"], written' = [v \in Vars |-> Nothing],
           tracked' = {}, seen' = {}, calls' = calls,
           write_set' = ClearSet(write_set) \/ (tx_state # "read_write" /\ write_set' = write_set),
           read_set' = <<>>, fail_callbacks' = <<>>, working' = <<>>, mine' = {},
           queue' \in Seq(Callback), storage' \in [Vars -> Objects], heap' \in Heaps,
           roots' \subseteq Objects
    PROVE  Types' /\ Shape' /\ Writes' /\ Reads'
<1>1. /\ ClearSet(write_set) \in WriteSets /\ ClearSet(write_set).filter = {}
      /\ ClearSet(write_set).data = <<>> /\ ClearSet(write_set).capacity = write_set.capacity
      /\ write_set \in WriteSets
  BY ClearIs DEF Types
<1>2. write_set' \in WriteSets /\ write_set'.data = <<>> /\ write_set'.filter = {}
  BY <1>1 DEF Shape
<1>3. SlotToSpare'
  <2>1. Len(write_set.data) < write_set.capacity /\ write_set.data \in Seq(Entries)
        /\ write_set.capacity \in Nat
    BY <1>1 DEF Shape, SlotToSpare, WriteSets
  <2>2. write_set'.capacity = write_set.capacity
    BY <1>1
  <2>3. Len(write_set.data) \in Nat /\ Len(<<>>) = 0
    BY <2>1
  <2>4. Len(<<>>) < write_set.capacity
    BY <2>1, <2>3
  <2> QED BY <1>2, <2>2, <2>4 DEF SlotToSpare
<1>4. Types'
  <2>1. /\ stack' \in Seq(Kinds) /\ tx_state' \in {"none", "read_only", "read_write"}
        /\ read_set' \in Seq(Vars) /\ fail_callbacks' \in Seq(Callback) /\ working' \in Seq(Callback)
    OBVIOUS
  <2>2. before' \in [Objects -> States] /\ written' \in [Vars -> Objects \cup {Nothing}]
    BY DEF States
  <2>3. /\ calls' \in Nat /\ steps' \in Nat /\ mine' \subseteq Objects /\ tracked' \subseteq Vars
        /\ seen' \subseteq Vars \X Objects /\ committing' \in BOOLEAN /\ section' \in BOOLEAN
        /\ heap' \in [Objects -> States]
    BY DEF Types, Heaps
  <2> QED BY <1>2, <2>1, <2>2, <2>3 DEF Types
<1>5. Shape'
  BY <1>2, <1>3, ShapeOutside
<1>6. Writes' /\ Reads'
  BY <1>2, WritesForgotten, ReadsForgotten
<1> QED BY <1>4, <1>5, <1>6

(* A read-only transaction or a relative section returns. *)
LEMMA LeaveReadOnlyKeeps ==
    ASSUME MemoryInv, LeaveReadOnly
    PROVE  MemoryInv'
<1>1. Types /\ Shape /\ Writes /\ Reads /\ Memory /\ Past
  BY MemoryInvIs
<1>2. /\ stack # <<>> /\ ~committing /\ tx_state # "read_write"
      /\ roots' = roots \cup mine /\ mine' = {}
      /\ stack' = <<>> /\ tx_state' = "none" /\ section' = FALSE /\ calls' = calls
      /\ before' = [o \in Objects |-> "free"] /\ written' = [v \in Vars |-> Nothing]
      /\ tracked' = {} /\ seen' = {} /\ steps' = 0
      /\ UNCHANGED <<committing, write_set, read_set, callbacks, storage, heap>>
  BY DEF LeaveReadOnly, Running, Over, EndCall, Forget
<1>3. UNCHANGED <<fail_callbacks, working, queue>>
  BY <1>2 DEF callbacks
<1>4. /\ write_set.data = <<>> /\ read_set = <<>> /\ fail_callbacks = <<>> /\ working = <<>>
      /\ mine = {} /\ committing = FALSE
  BY <1>1, <1>2 DEF Shape, Types
<1>5. Types' /\ Shape' /\ Writes' /\ Reads'
  <2>1. /\ queue' \in Seq(Callback) /\ storage' \in [Vars -> Objects] /\ heap' \in Heaps
        /\ roots' \subseteq Objects
    BY <1>1, <1>2, <1>3 DEF Types, Heaps
  <2> QED BY <1>1, <1>2, <1>3, <1>4, <2>1, OutsideTypes
<1>6. Memory'
  BY <1>1, <1>2, <1>3, <1>4, Idle, MemoryKept
<1>7. Past'
  BY <1>2, <1>3, <1>4, PastOver
<1> QED BY <1>5, <1>6, <1>7 DEF MemoryInv, Memory, Past

(* An exception goes up to the level that catches it. *)
LEMMA ThrowKeeps ==
    ASSUME MemoryInv, Running, NEW n \in 0 .. Len(stack), Throw(n, heap),
           UNCHANGED <<committing, queue, storage, roots, calls>>
    PROVE  MemoryInv'
<1>1. Types /\ Shape /\ Writes /\ Reads /\ Memory /\ Past
  BY MemoryInvIs
<1>2. stack # <<>> /\ ~committing /\ committing = FALSE
  BY <1>1 DEF Running, Types
<1>3. /\ Len(stack) \in Nat /\ n \in Nat /\ stack \in Seq(Kinds)
  BY <1>1 DEF Types
<1>4. CASE n > 0
  <2>1. /\ stack' = SubSeq(stack, 1, n) /\ steps' = steps + 1 /\ heap' = heap
        /\ UNCHANGED <<tx_state, section, write_set, read_set, fail_callbacks, working, mine>>
        /\ UNCHANGED <<before, written, tracked, seen>>
    <3>1. /\ stack' = SubSeq(stack, 1, n) /\ steps' = steps + 1 /\ heap' = heap
          /\ UNCHANGED <<tx_state, section, write_set, read_set, fail_callbacks, working, mine,
                         history>>
      BY <1>4 DEF Throw
    <3> QED BY <3>1 DEF history
  <2>2. /\ stack' \in Seq(Kinds) /\ stack' # <<>> /\ stack'[1] = stack[1] /\ Len(stack') = n
        /\ \A i \in DOMAIN stack' : \E j \in DOMAIN stack : stack'[i] = stack[j]
    <3> DEFINE t == SubSeq(stack, 1, n)
    <3>1. n \in 1 .. Len(stack)
      BY <1>3, <1>4
    <3>2. /\ t \in Seq(Kinds) /\ t # <<>> /\ t[1] = stack[1] /\ Len(t) = n
          /\ \A i \in DOMAIN t : \E j \in DOMAIN stack : t[i] = stack[j]
      BY <1>2, <1>3, <3>1, StackIs
    <3>3. stack' = t
      BY <2>1
    <3> HIDE DEF t
    <3> QED BY <3>2, <3>3
  <2>3. Types'
    <3>1. steps' \in Nat
      BY <1>1, <2>1 DEF Types
    <3> QED BY <1>1, <2>1, <2>2, <3>1 DEF Types
  <2>4. Shape'
    <3>1. Len(stack') <= MaxLevel
      BY <1>1, <1>3, <2>2, AttemptsAssumption DEF Shape
    <3>2. SlotToSpare'
      BY <1>1, <2>1 DEF Shape, SlotToSpare
    <3>3. \A i \in DOMAIN stack' : stack'[i] = "read_write" => tx_state = "read_write"
      BY <1>1, <2>2 DEF Shape
    <3>4. tx_state # "read_write" =>
              /\ write_set'.data = <<>> /\ write_set'.filter = {} /\ read_set' = <<>>
              /\ fail_callbacks' = <<>> /\ working' = <<>> /\ mine' = {}
      BY <1>1, <2>1 DEF Shape
    <3> QED BY <1>1, <1>2, <2>1, <2>2, <3>1, <3>2, <3>3, <3>4, ShapeInside
  <2>5. Writes'
    BY <1>1, <2>1, WritesKept
  <2>6. Reads'
    BY <1>1, <2>1 DEF Reads, ReadsOwnWrites, ValidatesTheRest
  <2>7. Memory' /\ Past'
    BY <1>1, <1>2, <2>1, MemoryKept, PastKept
  <2> QED BY <2>3, <2>4, <2>5, <2>6, <2>7 DEF MemoryInv, Memory, Past
<1>5. CASE n = 0
  <2>1. /\ stack' = <<>> /\ tx_state' = "none" /\ section' = FALSE
        /\ before' = [o \in Objects |-> "free"] /\ written' = [v \in Vars |-> Nothing]
        /\ tracked' = {} /\ seen' = {} /\ steps' = 0
    BY <1>5 DEF Throw, EndCall, Forget
  <2>2. /\ heap' = DoFailCallbacks(heap) /\ read_set' = <<>> /\ fail_callbacks' = <<>>
        /\ working' = <<>> /\ mine' = {}
        /\ write_set' = ClearSet(write_set) \/ (tx_state # "read_write" /\ write_set' = write_set)
    <3>1. CASE tx_state = "read_write"
      BY <1>5, <3>1 DEF Throw
    <3>2. CASE tx_state # "read_write"
      <4>1. DoFailCallbacks(heap) = heap
        BY <1>1, <3>2, NothingToUndo
      <4>2. /\ heap' = heap
            /\ UNCHANGED <<write_set, read_set, fail_callbacks, working, mine>>
        BY <1>5, <3>2 DEF Throw
      <4> QED BY <1>1, <3>2, <4>1, <4>2 DEF Shape
    <3> QED BY <3>1, <3>2
  <2>3. heap' \in Heaps
    BY <1>1, <1>2, <2>2, UndoneIs
  <2>4. Types' /\ Shape' /\ Writes' /\ Reads'
    <3>1. queue' \in Seq(Callback) /\ storage' \in [Vars -> Objects] /\ roots' \subseteq Objects
      BY <1>1 DEF Types
    <3> QED BY <1>1, <1>2, <2>1, <2>2, <2>3, <3>1, OutsideTypes
  <2>5. Memory'
    BY <1>1, <1>2, <2>1, <2>2, MemoryFails
  <2>6. Past'
    BY <2>1, <2>2, PastOver
  <2> QED BY <2>4, <2>5, <2>6 DEF MemoryInv, Memory, Past
<1> QED BY <1>3, <1>4, <1>5

LEMMA UserThrowsKeeps ==
    ASSUME MemoryInv, UserThrows
    PROVE  MemoryInv'
<1>1. Len(stack) \in Nat /\ 0 .. Len(stack) - 1 \subseteq 0 .. Len(stack)
  <2>1. stack \in Seq(Kinds)
    BY DEF MemoryInv, Types
  <2> QED BY <2>1
<1>2. PICK n \in 0 .. Len(stack) - 1 : Throw(n, heap)
  BY DEF UserThrows, Catchers
<1>3. Running /\ UNCHANGED <<committing, queue, storage, roots, calls>>
  BY DEF UserThrows
<1> QED BY <1>1, <1>2, <1>3, ThrowKeeps

(* What an allocator returns was free. *)
LEMMA FreshIs ==
    ASSUME NEW trivial, FreeObjects(trivial) # {}
    PROVE  /\ Fresh(trivial) \in Objects /\ heap[Fresh(trivial)] = "free"
           /\ (Fresh(trivial) \in Trivial) = trivial
<1>1. FreeObjects(trivial) \in SUBSET Nat
  BY AttemptsAssumption DEF FreeObjects
<1>2. Fresh(trivial) \in FreeObjects(trivial)
  BY <1>1, MinIs DEF Fresh
<1> QED BY <1>2 DEF FreeObjects

(* The storage of a value that was not constructed is given back: nothing  *)
(* has happened to the heap when the exception leaves the write.           *)
LEMMA WriteThrowsKeeps ==
    ASSUME MemoryInv, NEW v \in Vars, WriteThrows(v)
    PROVE  MemoryInv'
<1> DEFINE new == Fresh(FALSE)
           h == GiveBack([heap EXCEPT ![new] = "raw"], new)
<1>1. /\ Running /\ FreeObjects(FALSE) # {} /\ UNCHANGED <<committing, queue, storage, roots, calls>>
      /\ \E n \in 0 .. Len(stack) : Throw(n, h)
  BY DEF WriteThrows, MayWrite
<1>2. new \in Objects /\ heap[new] = "free"
  BY <1>1, FreshIs
<1>3. h = heap
  BY <1>2 DEF GiveBack, MemoryInv, Types
<1> HIDE DEF h
<1>4. PICK n \in 0 .. Len(stack) : Throw(n, heap)
  BY <1>1, <1>3
<1> QED BY <1>1, <1>4, ThrowKeeps

(* The attempt starts over. *)
LEMMA StartOverKeeps ==
    ASSUME MemoryInv, stack # <<>>, tx_state # "none", StartOver
    PROVE  MemoryInv'
<1>1. Types /\ Shape /\ Writes /\ Reads /\ Memory /\ Past
  BY MemoryInvIs
<1>2. /\ stack' = <<stack[1]>> /\ committing' = FALSE
      /\ before' = heap' /\ written' = [v \in Vars |-> Nothing]
      /\ tracked' = {} /\ seen' = {} /\ steps' = 0
      /\ UNCHANGED <<tx_state, section, queue, storage, roots, calls>>
  BY DEF StartOver, BeginAttempt, Forget
<1>3. /\ ClearSet(write_set) \in WriteSets /\ ClearSet(write_set).filter = {}
      /\ ClearSet(write_set).data = <<>> /\ ClearSet(write_set).capacity = write_set.capacity
      /\ write_set \in WriteSets
  BY <1>1, ClearIs DEF Types
<1>4. /\ heap' = DoFailCallbacks(heap) /\ read_set' = <<>> /\ fail_callbacks' = <<>>
      /\ working' = <<>> /\ mine' = {} /\ write_set' \in WriteSets /\ write_set'.data = <<>>
      /\ write_set'.filter = {} /\ write_set'.capacity = write_set.capacity
  <2>1. CASE tx_state = "read_write"
    BY <1>3, <2>1 DEF StartOver
  <2>2. CASE tx_state # "read_write"
    <3>1. DoFailCallbacks(heap) = heap
      BY <1>1, <2>2, NothingToUndo
    <3>2. UNCHANGED <<write_set, read_set, fail_callbacks, working, heap, mine>>
      BY <2>2 DEF StartOver
    <3> QED BY <1>1, <1>3, <2>2, <3>1, <3>2 DEF Shape
  <2> QED BY <2>1, <2>2
<1>5. heap' \in Heaps
  BY <1>1, <1>4, UndoneIs
<1>6. stack[1] \in Kinds /\ 1 \in DOMAIN stack
  BY <1>1, StackIs DEF Types
<1>7. /\ stack' \in Seq(Kinds) /\ stack' # <<>> /\ stack'[1] = stack[1] /\ Len(stack') = 1
      /\ \A i \in DOMAIN stack' : stack'[i] = stack[1]
  BY <1>2, <1>6
<1>8. Types'
  <2>1. /\ read_set' \in Seq(Vars) /\ fail_callbacks' \in Seq(Callback) /\ working' \in Seq(Callback)
        /\ committing' \in BOOLEAN /\ steps' \in Nat /\ mine' \subseteq Objects
        /\ tracked' \subseteq Vars /\ seen' \subseteq Vars \X Objects
        /\ written' \in [Vars -> Objects \cup {Nothing}]
    <3>1. read_set' \in Seq(Vars) /\ fail_callbacks' \in Seq(Callback) /\ working' \in Seq(Callback)
      BY <1>4
    <3>2. committing' \in BOOLEAN /\ steps' \in Nat /\ written' \in [Vars -> Objects \cup {Nothing}]
      BY <1>2
    <3>3. mine' \subseteq Objects /\ tracked' \subseteq Vars /\ seen' \subseteq Vars \X Objects
      BY <1>2, <1>4
    <3> QED BY <3>1, <3>2, <3>3
  <2>2. heap' \in [Objects -> States] /\ before' \in [Objects -> States]
    BY <1>2, <1>5 DEF Heaps
  <2> QED BY <1>1, <1>2, <1>4, <1>7, <2>1, <2>2 DEF Types
<1>9. Shape'
  <2>1. Len(stack') <= MaxLevel
    BY <1>7, AttemptsAssumption
  <2>2. SlotToSpare'
    <3>1. Len(write_set.data) < write_set.capacity /\ write_set.data \in Seq(Entries)
          /\ write_set.capacity \in Nat
      BY <1>1, <1>3 DEF Shape, SlotToSpare, WriteSets
    <3>2. Len(write_set.data) \in Nat /\ Len(<<>>) = 0
      BY <3>1
    <3>3. Len(<<>>) < write_set.capacity
      BY <3>1, <3>2
    <3> QED BY <1>4, <3>3 DEF SlotToSpare
  <2>3. \A i \in DOMAIN stack' : stack'[i] = "read_write" => tx_state = "read_write"
    BY <1>1, <1>6, <1>7 DEF Shape
  <2> QED BY <1>1, <1>2, <1>4, <1>7, <2>1, <2>2, <2>3, ShapeInside
<1>10. Writes' /\ Reads'
  BY <1>2, <1>4, WritesForgotten, ReadsForgotten
<1>11. Memory'
  BY <1>1, <1>2, <1>4, MemoryFails
<1>12. Past'
  BY <1>2, <1>4, <1>5, <1>11, PastBegins
<1> QED BY <1>8, <1>9, <1>10, <1>11, <1>12 DEF MemoryInv, Memory, Past

(* The outermost function returns: what was written is not validated. *)
LEMMA TryCommitKeeps ==
    ASSUME MemoryInv, TryCommit
    PROVE  MemoryInv'
<1>1. Types /\ Shape /\ Writes /\ Reads /\ Memory /\ Past
  BY MemoryInvIs
<1>2. /\ stack # <<>> /\ ~committing /\ Len(stack) = 1 /\ tx_state = "read_write" /\ committing' = TRUE
      /\ read_set' = (IF write_set.data = <<>> THEN read_set
                      ELSE RemoveWritesFromReads(read_set, write_set))
      /\ UNCHANGED <<stack, tx_state, section, write_set, storage, calls, steps>>
  BY DEF TryCommit, Running
<1>3. /\ UNCHANGED <<fail_callbacks, working, queue>> /\ UNCHANGED <<heap, roots, mine>>
      /\ UNCHANGED <<before, written, tracked, seen>>
  BY DEF TryCommit, callbacks, memory, history
<1>4. /\ read_set' \in Seq(Vars)
      /\ write_set.data # <<>> => ToSet(read_set') = {v \in ToSet(read_set) : Find(write_set, v) = 0}
  <2>1. read_set \in Seq(Vars)
    BY <1>1 DEF Types
  <2> QED BY <1>2, <2>1, RemoveWritesIs
<1>5. Types'
  BY <1>1, <1>2, <1>3, <1>4 DEF Types
<1>6. Shape'
  <2>1. SlotToSpare'
    BY <1>1, <1>2 DEF Shape, SlotToSpare
  <2> QED BY <1>1, <1>2, <1>3, <2>1 DEF Shape, KindIsTheOutermost
<1>7. Writes'
  BY <1>1, <1>2, <1>3, WritesKept
<1>8. Reads'
  <2>1. ToSet(read_set) = tracked /\ tracked \subseteq Vars
    BY <1>1, <1>2 DEF Reads, Types
  <2>2. \A v \in Vars : Find(write_set, v) = 0 <=> written[v] = Nothing
    BY <1>1, FindIs
  <2>3. write_set.data # <<>> =>
            ToSet(read_set') = tracked \ {v \in Vars : written[v] # Nothing}
    BY <1>4, <2>1, <2>2
  <2>4. ValidatesTheRest'
    BY <1>2, <1>3, <2>3 DEF ValidatesTheRest
  <2>5. ReadsOwnWrites'
    BY <1>1, <1>2, <1>3 DEF Reads, ReadsOwnWrites
  <2> QED BY <1>2, <2>4, <2>5 DEF Reads
<1>9. Memory' /\ Past'
  BY <1>1, <1>2, <1>3, MemoryKept, PastKept
<1> QED BY <1>5, <1>6, <1>7, <1>8, <1>9 DEF MemoryInv, Memory, Past

(* The variables after a commit. *)
Committed == [v \in Vars |-> IF Find(write_set, v) = 0 THEN storage[v] ELSE PendingWrite(write_set, v)]

(* What was written takes the place of what it replaces, which is freed by *)
(* a callback from now on, like everything the user has given away.        *)
LEMMA CommitOwners ==
    ASSUME Types, Writes, Memory, storage' = Committed, mine' = {},
           written' = [v \in Vars |-> Nothing],
           roots' = (roots \cup mine) \ FreesIn(working)
    PROVE  /\ storage' \in [Vars -> Objects]
           /\ Written' = {} /\ Pending' = {} /\ Replaced' = {}
           /\ Held' = (Held \ Replaced) \cup Pending
           /\ \A v, w \in Vars : storage'[v] = storage'[w] => v = w
           /\ NotFree(heap) = roots' \cup FreesIn(queue \o working) \cup Held'
           /\ FreesIn(queue \o working) \cap roots' = {}
           /\ Held' \cap (roots' \cup Objs(queue \o working)) = {}
           /\ Objs(queue \o working) \subseteq FreesIn(queue \o working) \cup roots'
           /\ \A o \in Held' : heap[o] = "live" /\ o \notin Trivial
<1>1. /\ storage \in [Vars -> Objects] /\ written \in [Vars -> Objects \cup {Nothing}]
      /\ Nothing \notin Objects
  BY AttemptsAssumption DEF Types, Nothing
<1>2. \A v \in Vars : storage'[v] = IF v \in Written THEN written[v] ELSE storage[v]
  <2>1. \A v \in Vars : /\ Find(write_set, v) = 0 <=> written[v] = Nothing
                        /\ Find(write_set, v) # 0 => PendingWrite(write_set, v) = written[v]
    BY FindIs
  <2> QED BY <2>1 DEF Committed, Written
<1>3. storage' \in [Vars -> Objects]
  <2>1. \A v \in Vars : storage'[v] \in Objects
    BY <1>1, <1>2 DEF Written
  <2>2. storage' = [v \in Vars |-> storage'[v]]
    BY DEF Committed
  <2> QED BY <2>1, <2>2
<1>4. Written' = {} /\ Pending' = {} /\ Replaced' = {}
  BY DEF Written, Pending, Replaced
<1>5. /\ \A v, w \in Vars : storage[v] = storage[w] => v = w
      /\ \A v, w \in Written : written[v] = written[w] => v = w
      /\ Written \subseteq Vars
      /\ \A v \in Vars : storage[v] \in Held
      /\ \A v \in Written : written[v] \in Pending /\ storage[v] \in Replaced
      /\ Held \cap Pending = {} /\ Replaced \subseteq Held
  BY DEF Memory, Owners, Written, Held, Pending, Replaced
<1>6. Held' = (Held \ Replaced) \cup Pending
  <2>1. ASSUME NEW o \in Held'
        PROVE  o \in (Held \ Replaced) \cup Pending
    <3>1. PICK v \in Vars : o = storage'[v]
      BY DEF Held
    <3>2. CASE v \in Written
      BY <1>2, <1>5, <3>1, <3>2
    <3>3. CASE v \notin Written
      <4>1. o = storage[v]
        BY <1>2, <3>1, <3>3
      <4>2. storage[v] \notin Replaced
        BY <1>5, <3>3 DEF Replaced
      <4> QED BY <1>5, <4>1, <4>2
    <3> QED BY <3>2, <3>3
  <2>2. ASSUME NEW o \in Held \ Replaced
        PROVE  o \in Held'
    <3>1. PICK v \in Vars : o = storage[v]
      BY DEF Held
    <3>2. v \notin Written
      BY <1>5, <3>1
    <3>3. storage'[v] = o
      BY <1>2, <3>1, <3>2
    <3> QED BY <3>3 DEF Held
  <2>3. ASSUME NEW o \in Pending
        PROVE  o \in Held'
    <3>1. PICK v \in Written : o = written[v]
      BY DEF Pending
    <3>2. storage'[v] = o /\ v \in Vars
      BY <1>2, <1>5, <3>1
    <3> QED BY <3>2 DEF Held
  <2> QED BY <2>1, <2>2, <2>3
<1>7. ASSUME NEW v \in Vars, NEW w \in Vars, storage'[v] = storage'[w]
      PROVE  v = w
  <2>1. storage'[v] = (IF v \in Written THEN written[v] ELSE storage[v])
        /\ storage'[w] = (IF w \in Written THEN written[w] ELSE storage[w])
    BY <1>2
  <2> QED BY <1>5, <1>7, <2>1
<1>8. /\ Objs(queue) \subseteq FreesIn(queue) \cup roots
      /\ Objs(working) \subseteq roots \cup mine \cup Replaced
      /\ Replaced \subseteq FreesIn(working) /\ FreesIn(working) \subseteq Objs(working)
      /\ Objs(queue \o working) = Objs(queue) \cup Objs(working)
      /\ FreesIn(queue \o working) = FreesIn(queue) \cup FreesIn(working)
  BY WhereRegistered, ObjsType DEF Memory, Registrations, Types
<1>9. /\ NotFree(heap) = roots \cup mine \cup FreesIn(queue) \cup Held \cup Pending
      /\ roots \cap mine = {} /\ FreesIn(queue) \cap (roots \cup mine) = {}
      /\ Held \cap (roots \cup mine \cup FreesIn(queue) \cup Pending) = {}
      /\ Pending \cap (roots \cup mine \cup FreesIn(queue)) = {}
      /\ \A o \in Held \cup Pending : heap[o] = "live" /\ o \notin Trivial
  BY DEF Memory, Owners
<1>10. NotFree(heap) = roots' \cup FreesIn(queue \o working) \cup Held'
  BY <1>5, <1>6, <1>8, <1>9
<1>11. FreesIn(queue \o working) \cap roots' = {}
  BY <1>8, <1>9
<1>12. Objs(queue \o working) \subseteq FreesIn(queue \o working) \cup roots'
  BY <1>8
<1>13. Held' \cap (roots' \cup Objs(queue \o working)) = {}
  BY <1>5, <1>6, <1>8, <1>9
<1>14. \A o \in Held' : heap[o] = "live" /\ o \notin Trivial
  BY <1>6, <1>9
<1> QED BY <1>3, <1>4, <1>6, <1>7, <1>10, <1>11, <1>12, <1>13, <1>14

LEMMA CommitSucceedsKeeps ==
    ASSUME MemoryInv, CommitSucceeds
    PROVE  MemoryInv'
<1> DEFINE D == queue \o working
<1>1. Types /\ Shape /\ Writes /\ Reads /\ Memory /\ Past
  BY MemoryInvIs
<1>2. /\ committing /\ committing' = FALSE /\ storage' = Committed
      /\ write_set' = ClearSet(write_set) /\ read_set' = <<>> /\ fail_callbacks' = <<>>
      /\ working' = <<>> /\ mine' = {} /\ roots' = (roots \cup mine) \ FreesIn(working)
      /\ \/ queue' = D /\ heap' = heap
         \/ queue' = <<>> /\ heap' = Run(D, heap)
  BY DEF CommitSucceeds, Committed
<1>3. /\ stack' = <<>> /\ tx_state' = "none" /\ section' = FALSE /\ calls' = calls
      /\ before' = [o \in Objects |-> "free"] /\ written' = [v \in Vars |-> Nothing]
      /\ tracked' = {} /\ seen' = {} /\ steps' = 0
  BY DEF CommitSucceeds, Over, EndCall, Forget
<1>4. /\ storage' \in [Vars -> Objects]
      /\ Written' = {} /\ Pending' = {} /\ Replaced' = {}
      /\ \A v, w \in Vars : storage'[v] = storage'[w] => v = w
      /\ NotFree(heap) = roots' \cup FreesIn(D) \cup Held'
      /\ FreesIn(D) \cap roots' = {}
      /\ Held' \cap (roots' \cup Objs(D)) = {}
      /\ Objs(D) \subseteq FreesIn(D) \cup roots'
      /\ \A o \in Held' : heap[o] = "live" /\ o \notin Trivial
  BY <1>1, <1>2, <1>3, CommitOwners
<1>5. D \in Seq(Callback) /\ Objs(D) \subseteq NotFree(heap) /\ heap \in Heaps
      /\ \A o \in Objects : heap[o] # "broken"
  BY <1>1, WhereRegistered DEF Types, Heaps, Memory, Owners
<1>6. /\ FreesIn(D) \subseteq Objs(D) /\ Objs(D) \subseteq Objects /\ D \o <<>> = D
      /\ <<>> \in Seq(Callback) /\ <<>> \o <<>> = <<>>
  <2>1. <<>> \in Seq(Callback)
    OBVIOUS
  <2>2. D \o <<>> = D /\ <<>> \o <<>> = <<>>
    BY <1>5, <2>1, ConcatAppend
  <2> QED BY <1>5, <2>1, <2>2, ObjsType
<1>7. Cleans(D, heap)
  BY <1>1 DEF Memory, Reclaims
<1>8. Held' \subseteq Objects
  BY <1>4 DEF Held
<1> HIDE DEF D
<1>9. CASE queue' = D /\ heap' = heap
  <2>1. Owners'
    <3>1. NotFree(heap)' = NotFree(heap) /\ FreesIn(queue)' = FreesIn(D)
      BY <1>9 DEF NotFree
    <3> QED BY <1>2, <1>4, <1>5, <1>6, <1>9, <3>1 DEF Owners
  <2>2. Registrations'
    <3>1. FreesIn(queue)' = FreesIn(D) /\ Objs(queue)' = Objs(D) /\ Objs(working)' = {}
      BY <1>2, <1>9, ObjsOfEmpty DEF Objs
    <3> QED BY <1>4, <3>1 DEF Registrations
  <2>3. Reclaims(queue)' /\ Reclaims(queue \o working)'
    BY <1>2, <1>6, <1>7, <1>9 DEF Reclaims
  <2>4. Types' /\ Shape' /\ Writes' /\ Reads'
    <3>1. queue' \in Seq(Callback) /\ heap' \in Heaps /\ roots' \subseteq Objects
      BY <1>1, <1>2, <1>5, <1>9 DEF Types
    <3> QED BY <1>1, <1>2, <1>3, <1>4, <3>1, OutsideTypes
  <2>5. Past'
    BY <1>2, <1>3, PastOver
  <2> QED BY <2>1, <2>2, <2>3, <2>4, <2>5 DEF MemoryInv, Past
<1>10. CASE queue' = <<>> /\ heap' = Run(D, heap)
  <2>1. /\ heap' \in Heaps /\ NotFree(heap') = NotFree(heap) \ FreesIn(D)
        /\ \A o \in Objects : heap'[o] # "broken"
        /\ \A o \in Objects \ Objs(D) : heap'[o] = heap[o]
    BY <1>5, <1>7, <1>10, CleanedIs
  <2>2. Owners'
    <3>1. NotFree(heap)' = NotFree(heap') /\ FreesIn(queue)' = {}
      BY <1>10, ObjsOfEmpty DEF NotFree
    <3>2. \A o \in Held' : heap'[o] = "live" /\ o \notin Trivial
      BY <1>4, <1>8, <2>1
    <3>3. NotFree(heap') = roots' \cup Held'
      BY <1>4, <1>6, <2>1
    <3> QED BY <1>2, <1>4, <2>1, <3>1, <3>2, <3>3 DEF Owners
  <2>3. Registrations'
    <3>1. Objs(queue)' = {} /\ Objs(working)' = {}
      BY <1>2, <1>10, ObjsOfEmpty DEF Objs
    <3> QED BY <1>4, <3>1 DEF Registrations
  <2>4. Reclaims(queue)' /\ Reclaims(queue \o working)'
    BY <1>2, <1>6, <1>10, CleansNothing DEF Reclaims
  <2>5. Types' /\ Shape' /\ Writes' /\ Reads'
    <3>1. queue' \in Seq(Callback) /\ roots' \subseteq Objects
      BY <1>1, <1>2, <1>6, <1>10 DEF Types
    <3> QED BY <1>1, <1>2, <1>3, <1>4, <2>1, <3>1, OutsideTypes
  <2>6. Past'
    BY <1>2, <1>3, PastOver
  <2> QED BY <2>2, <2>3, <2>4, <2>5, <2>6 DEF MemoryInv, Past
<1> QED BY <1>2, <1>9, <1>10

(* Between transactions nothing but the queue is left to reclaim. *)
LEMMA ShrinkKeeps ==
    ASSUME MemoryInv, Shrink
    PROVE  MemoryInv'
<1>1. Types /\ Shape /\ Writes /\ Reads /\ Memory /\ Past
  BY MemoryInvIs
<1>2. /\ stack = <<>> /\ heap' = Run(queue, heap) /\ queue' = <<>>
      /\ write_set' = ShrinkToFit(write_set)
      /\ UNCHANGED <<stack, committing, tx_state, section, read_set, fail_callbacks, working,
                     storage, roots, mine, calls, steps>>
  BY DEF Shrink
<1>3. UNCHANGED <<before, written, tracked, seen>>
  BY DEF Shrink, history
<1>4. /\ write_set.data = <<>> /\ fail_callbacks = <<>> /\ working = <<>> /\ mine = {}
  BY <1>1, <1>2 DEF Shape
<1>5. /\ write_set' \in WriteSets /\ write_set'.filter = write_set.filter
      /\ write_set'.data = write_set.data /\ SlotToSpare'
  BY <1>1, <1>2, ShrinkIs DEF Types, SlotToSpare
<1>6. Pending = {} /\ Replaced = {} /\ Pending' = {} /\ Replaced' = {} /\ Written' = Written /\ Held' = Held
  <2>1. Pending = {} /\ Replaced = {} /\ Written = {}
    BY <1>1, <1>4, Idle
  <2>2. Written' = Written /\ Held' = Held
    BY <1>2, <1>3 DEF Written, Held
  <2> QED BY <2>1, <2>2 DEF Pending, Replaced
<1>7. /\ queue \in Seq(Callback) /\ heap \in Heaps /\ Cleans(queue, heap)
      /\ Objs(queue) \subseteq NotFree(heap) /\ \A o \in Objects : heap[o] # "broken"
      /\ Objs(queue) \subseteq FreesIn(queue) \cup roots /\ Held \subseteq Objects
  BY <1>1 DEF Types, Heaps, Memory, Reclaims, Registrations, Owners, Held
<1>8. /\ heap' \in Heaps /\ NotFree(heap') = NotFree(heap) \ FreesIn(queue)
      /\ \A o \in Objects : heap'[o] # "broken"
      /\ \A o \in Objects \ Objs(queue) : heap'[o] = heap[o]
  BY <1>2, <1>7, CleanedIs
<1>9. Types'
  <2>1. queue' \in Seq(Callback) /\ heap' \in [Objects -> States]
    BY <1>2, <1>8 DEF Heaps
  <2> QED BY <1>1, <1>2, <1>3, <1>5, <2>1 DEF Types
<1>10. Shape'
  BY <1>1, <1>2, <1>5 DEF Shape, KindIsTheOutermost
<1>11. Writes' /\ Reads'
  <2>1. Writes'
    BY <1>1, <1>3, <1>5, WritesKept
  <2>2. Reads'
    BY <1>1, <1>2, <1>3, <1>5 DEF Reads, ReadsOwnWrites, ValidatesTheRest
  <2> QED BY <2>1, <2>2
<1>12. Memory'
  <2>1. /\ NotFree(heap) = roots \cup FreesIn(queue) \cup Held
        /\ FreesIn(queue) \cap roots = {} /\ Held \cap (roots \cup FreesIn(queue)) = {}
        /\ \A o \in Held : heap[o] = "live" /\ o \notin Trivial
        /\ \A v, w \in Vars : storage[v] = storage[w] => v = w
        /\ \A v, w \in Written : written[v] = written[w] => v = w
    BY <1>1, <1>4, <1>6 DEF Memory, Owners
  <2>2. Owners'
    <3>1. NotFree(heap)' = NotFree(heap') /\ FreesIn(queue)' = {}
      BY <1>2, ObjsOfEmpty DEF NotFree
    <3>2. \A o \in Held : heap'[o] = "live" /\ o \notin Trivial
      <4>1. Held \cap Objs(queue) = {}
        BY <1>7, <2>1
      <4> QED BY <1>7, <1>8, <2>1, <4>1
    <3>3. NotFree(heap') = roots \cup Held
      BY <1>8, <2>1
    <3>4. roots' = roots /\ mine' = {} /\ storage' = storage /\ written' = written
      BY <1>2, <1>3, <1>4
    <3> QED BY <1>6, <1>8, <2>1, <3>1, <3>2, <3>3, <3>4 DEF Owners
  <2>3. Registrations'
    <3>1. Objs(queue)' = {} /\ Objs(working)' = {}
      BY <1>2, <1>4, ObjsOfEmpty DEF Objs
    <3> QED BY <1>6, <3>1 DEF Registrations
  <2>4. <<>> \o <<>> = <<>>
    OBVIOUS
  <2>5. Reclaims(queue)' /\ Reclaims(queue \o working)'
    BY <1>2, <1>4, <2>4, CleansNothing DEF Reclaims
  <2> QED BY <2>2, <2>3, <2>5 DEF Memory
<1>13. Past'
  BY <1>2, <1>4, PastOver
<1> QED BY <1>9, <1>10, <1>11, <1>12, <1>13 DEF MemoryInv, Memory, Past

LEMMA ShrinkInsideKeeps ==
    ASSUME MemoryInv, ShrinkInside
    PROVE  MemoryInv'
<1>1. Types /\ Shape /\ Writes /\ Reads /\ Memory /\ Past
  BY MemoryInvIs
<1>2. /\ stack # <<>> /\ ~committing /\ steps' = steps + 1
      /\ write_set' = ShrinkToFit(write_set)
      /\ UNCHANGED <<stack, committing, tx_state, section, read_set, storage, calls>>
  BY DEF ShrinkInside, Does, Running
<1>3. /\ UNCHANGED <<fail_callbacks, working, queue>> /\ UNCHANGED <<heap, roots, mine>>
      /\ UNCHANGED <<before, written, tracked, seen>>
  BY DEF ShrinkInside, callbacks, memory, history
<1>4. /\ write_set' \in WriteSets /\ write_set'.filter = write_set.filter
      /\ write_set'.data = write_set.data /\ SlotToSpare'
  BY <1>1, <1>2, ShrinkIs DEF Types, SlotToSpare
<1>5. Types'
  <2>1. steps' \in Nat
    BY <1>1, <1>2 DEF Types
  <2> QED BY <1>1, <1>2, <1>3, <1>4, <2>1 DEF Types
<1>6. Shape'
  BY <1>1, <1>2, <1>3, <1>4 DEF Shape, KindIsTheOutermost
<1>7. Writes'
  BY <1>1, <1>3, <1>4, WritesKept
<1>8. Reads'
  BY <1>1, <1>2, <1>3, <1>4 DEF Reads, ReadsOwnWrites, ValidatesTheRest
<1>9. Memory' /\ Past'
  BY <1>1, <1>2, <1>3, MemoryKept, PastKept
<1> QED BY <1>5, <1>6, <1>7, <1>8, <1>9 DEF MemoryInv, Memory, Past
-----------------------------------------------------------------------------
(* Reads and writes *)

(* A read takes what is pending or what the variable holds. *)
LEMMA ReadKeeps ==
    ASSUME MemoryInv, NEW v \in Vars, NEW track \in BOOLEAN, Read(v, track)
    PROVE  MemoryInv'
<1>1. Types /\ Shape /\ Writes /\ Reads /\ Memory /\ Past
  BY MemoryInvIs
<1>2. /\ stack # <<>> /\ ~committing /\ steps' = steps + 1
      /\ UNCHANGED <<stack, committing, tx_state, section, write_set, storage, calls, before, written>>
  BY DEF Read, Does, Running
<1>3. UNCHANGED <<fail_callbacks, working, queue>> /\ UNCHANGED <<heap, roots, mine>>
  BY DEF Read, callbacks, memory
<1>4. /\ Find(write_set, v) = 0 <=> written[v] = Nothing
      /\ Find(write_set, v) # 0 => PendingWrite(write_set, v) = written[v]
  BY <1>1, FindIs
<1>5. tx_state # "read_write" => written[v] = Nothing
  BY <1>1, Idle DEF Shape
<1>6. seen' = {<<v, IF written[v] = Nothing THEN storage[v] ELSE written[v]>>}
  BY <1>4, <1>5 DEF Read, HasThreadData
<1>7. read_set \in Seq(Vars) /\ ToSet(read_set) = tracked
  BY <1>1, <1>2 DEF Reads, Types
<1>8. \/ read_set' = read_set /\ tracked' = tracked
      \/ tx_state = "read_write" /\ read_set' = Append(read_set, v) /\ tracked' = tracked \cup {v}
  BY DEF Read, HasThreadData
<1>9. read_set' \in Seq(Vars) /\ ToSet(read_set') = tracked' /\ tracked' \subseteq Vars
  <2>1. Append(read_set, v) \in Seq(Vars) /\ ToSet(Append(read_set, v)) = ToSet(read_set) \cup {v}
    BY <1>7, SetOfAppend
  <2>2. tracked \subseteq Vars
    BY <1>1 DEF Types
  <2> QED BY <1>7, <1>8, <2>1, <2>2
<1>10. Types'
  <2>1. steps' \in Nat
    BY <1>1, <1>2 DEF Types
  <2>2. seen' \subseteq Vars \X Objects
    <3>1. (IF written[v] = Nothing THEN storage[v] ELSE written[v]) \in Objects
      BY <1>1 DEF Types
    <3> QED BY <1>6, <3>1
  <2> QED BY <1>1, <1>2, <1>3, <1>9, <2>1, <2>2 DEF Types
<1>11. Shape'
  <2>1. SlotToSpare'
    BY <1>1, <1>2 DEF Shape, SlotToSpare
  <2> QED BY <1>1, <1>2, <1>3, <1>8, <2>1 DEF Shape, KindIsTheOutermost
<1>12. Writes'
  BY <1>1, <1>2, WritesKept
<1>13. Reads'
  BY <1>2, <1>6, <1>9 DEF Reads, ReadsOwnWrites, ValidatesTheRest
<1>14. Memory' /\ Past'
  BY <1>1, <1>2, <1>3, MemoryKept, PastKept
<1> QED BY <1>10, <1>11, <1>12, <1>13, <1>14 DEF MemoryInv, Memory, Past

LEMMA WriteAgainKeeps ==
    ASSUME MemoryInv, NEW v \in Vars, WriteAgain(v)
    PROVE  MemoryInv'
<1>1. Types /\ Shape /\ Writes /\ Reads /\ Memory /\ Past
  BY MemoryInvIs
<1>2. /\ stack # <<>> /\ ~committing /\ steps' = steps + 1 /\ seen' = {}
      /\ UNCHANGED <<stack, committing, tx_state, section, write_set, read_set, storage, calls,
                     before, written, tracked>>
  BY DEF WriteAgain, Does, Running
<1>3. UNCHANGED <<fail_callbacks, working, queue>> /\ UNCHANGED <<heap, roots, mine>>
  BY DEF WriteAgain, callbacks, memory
<1>4. Types'
  <2>1. steps' \in Nat
    BY <1>1, <1>2 DEF Types
  <2> QED BY <1>1, <1>2, <1>3, <2>1 DEF Types
<1>5. Shape'
  <2>1. SlotToSpare'
    BY <1>1, <1>2 DEF Shape, SlotToSpare
  <2> QED BY <1>1, <1>2, <1>3, <2>1 DEF Shape, KindIsTheOutermost
<1>6. Writes'
  BY <1>1, <1>2, WritesKept
<1>7. Reads'
  BY <1>1, <1>2 DEF Reads, ReadsOwnWrites, ValidatesTheRest
<1>8. Memory' /\ Past'
  BY <1>1, <1>2, <1>3, MemoryKept, PastKept
<1> QED BY <1>4, <1>5, <1>6, <1>7, <1>8 DEF MemoryInv, Memory, Past

(* Only inside of a read-write transaction is there something to write to. *)
LEMMA MayWriteIs ==
    ASSUME Types, Shape, MayWrite
    PROVE  stack # <<>> /\ ~committing /\ tx_state = "read_write"
<1>1. stack \in Seq(Kinds) /\ stack # <<>> /\ ~committing /\ Last(stack) = "read_write"
  BY DEF Types, MayWrite, Running
<1>2. Last(stack) = stack[Len(stack)] /\ Len(stack) \in DOMAIN stack
  BY <1>1, StackIs
<1> QED BY <1>1, <1>2 DEF Shape

LEMMA PushKeepsWrites ==
    ASSUME Types, Writes, NEW v \in Vars, written[v] = Nothing, NEW o \in Objects,
           write_set'.data = Append(write_set.data, [dest_var |-> v, pending_write |-> o]),
           write_set'.filter = write_set.filter \cup {Bit[v]},
           written' = [written EXCEPT ![v] = o]
    PROVE  Writes'
<1> DEFINE data == write_set.data
           e == [dest_var |-> v, pending_write |-> o]
           data2 == Append(data, e)
           l == Len(data) + 1
<1>1. /\ data \in Seq(Entries) /\ e \in Entries /\ e.dest_var = v /\ e.pending_write = o
      /\ written \in [Vars -> Objects \cup {Nothing}] /\ Nothing \notin Objects
  BY AttemptsAssumption DEF Types, WriteSets, Entries, Nothing
<1>2. /\ DOMAIN data2 = DOMAIN data \cup {l} /\ data2[l] = e /\ l \notin DOMAIN data
      /\ \A i \in DOMAIN data : data2[i] = data[i] /\ data[i].dest_var \in Vars
  <2>1. \A i \in DOMAIN data : data[i] \in Entries
    BY <1>1
  <2>2. /\ DOMAIN data2 = DOMAIN data \cup {l} /\ data2[l] = e /\ l \notin DOMAIN data
        /\ \A i \in DOMAIN data : data2[i] = data[i]
    BY <1>1
  <2> QED BY <2>1, <2>2 DEF Entries
<1>3. \A i \in DOMAIN data : data[i].dest_var # v
  <2>1. ASSUME NEW i \in DOMAIN data
        PROVE  written[data[i].dest_var] # Nothing
    <3>1. data[i] \in Entries
      BY <1>1
    <3>2. data[i].pending_write \in Objects
      BY <3>1 DEF Entries
    <3> QED BY <1>1, <3>2 DEF Writes
  <2> QED BY <2>1
<1>4. written'[v] = o /\ \A w \in Vars \ {v} : written'[w] = written[w]
  BY <1>1
<1>5. write_set'.data = data2
  OBVIOUS
<1> HIDE DEF data2, l, e
<1>6. ASSUME NEW i \in DOMAIN data2, NEW j \in DOMAIN data2, data2[i].dest_var = data2[j].dest_var
      PROVE  i = j
  <2>1. CASE i = l
    BY <1>1, <1>2, <1>3, <1>6, <2>1
  <2>2. CASE j = l
    BY <1>1, <1>2, <1>3, <1>6, <2>2
  <2>3. CASE i # l /\ j # l
    BY <1>2, <1>6, <2>3 DEF Writes
  <2> QED BY <2>1, <2>2, <2>3
<1>7. ASSUME NEW i \in DOMAIN data2
      PROVE  /\ Bit[data2[i].dest_var] \in write_set'.filter
             /\ written'[data2[i].dest_var] = data2[i].pending_write
  <2>1. CASE i = l
    BY <1>1, <1>2, <1>4, <2>1
  <2>2. CASE i # l
    <3>1. i \in DOMAIN data /\ data2[i] = data[i] /\ data[i].dest_var \in Vars \ {v}
      BY <1>2, <1>3, <2>2
    <3> QED BY <1>4, <3>1 DEF Writes
  <2> QED BY <2>1, <2>2
<1>8. ASSUME NEW w \in Vars, written'[w] # Nothing
      PROVE  \E i \in DOMAIN data2 : data2[i].dest_var = w
  <2>1. CASE w = v
    BY <1>1, <1>2, <2>1
  <2>2. CASE w # v
    <3>1. written[w] # Nothing
      BY <1>4, <1>8, <2>2
    <3>2. PICK i \in DOMAIN data : data[i].dest_var = w
      BY <3>1 DEF Writes
    <3> QED BY <1>2, <3>2
  <2> QED BY <2>1, <2>2
<1> QED BY <1>5, <1>6, <1>7, <1>8 DEF Writes

(* A first write: the new storage is pending, the old one is registered.   *)
LEMMA WriteMemory ==
    ASSUME Types, Memory, NEW v \in Vars, written[v] = Nothing,
           NEW n \in Objects, heap[n] = "free", n \notin Trivial,
           heap' = [heap EXCEPT ![n] = "live"], written' = [written EXCEPT ![v] = n],
           working' = Append(working, <<"destroy_deallocate", storage[v]>>),
           UNCHANGED <<queue, storage, roots, mine>>
    PROVE  Memory'
<1> DEFINE D == queue \o working
           c == <<"destroy_deallocate", storage[v]>>
<1>1. /\ queue \in Seq(Callback) /\ working \in Seq(Callback) /\ heap \in Heaps
      /\ heap' \in Heaps /\ heap'[n] = "live" /\ \A o \in Objects \ {n} : heap'[o] = heap[o]
      /\ storage \in [Vars -> Objects] /\ written \in [Vars -> Objects \cup {Nothing}]
      /\ Nothing \notin Objects
  BY AttemptsAssumption DEF Types, Heaps, States, Nothing
<1>2. /\ c \in Callback /\ c[1] = "destroy_deallocate" /\ c[2] = storage[v]
      /\ storage[v] \in Objects /\ storage[v] \in Held
  BY <1>1 DEF Callback, Held
<1>3. NotFree(heap') = NotFree(heap) \cup {n} /\ n \notin NotFree(heap)
  BY <1>1 DEF NotFree
<1>4. written'[v] = n /\ \A w \in Vars \ {v} : written'[w] = written[w]
  BY <1>1
<1>5. /\ Written' = Written \cup {v} /\ v \notin Written /\ Written \subseteq Vars
      /\ Held' = Held
  BY <1>1, <1>4 DEF Written, Held
<1>6. Pending' = Pending \cup {n} /\ Replaced' = Replaced \cup {storage[v]}
  <2>1. Pending' = Pending \cup {n}
    <3>1. Pending' = {written'[w] : w \in Written'}
      BY DEF Pending
    <3> QED BY <1>4, <1>5, <3>1 DEF Pending
  <2>2. Replaced' = {storage[w] : w \in Written'}
    BY DEF Replaced
  <2> QED BY <1>5, <2>1, <2>2 DEF Replaced
<1>7. n \notin roots \cup mine \cup FreesIn(queue) \cup Held \cup Pending
  BY <1>3 DEF Memory, Owners
<1>8. Owners'
  <2>1. NotFree(heap') = roots \cup mine \cup FreesIn(queue) \cup Held \cup Pending'
    BY <1>3, <1>6 DEF Memory, Owners
  <2>2. \A o \in Objects : heap'[o] # "broken"
    BY <1>1 DEF Memory, Owners
  <2>3. ASSUME NEW o \in Held \cup Pending'
        PROVE  heap'[o] = "live" /\ o \notin Trivial
    <3>1. CASE o = n
      BY <1>1, <3>1
    <3>2. CASE o # n
      <4>1. o \in Held \cup Pending
        BY <1>6, <3>2
      <4>2. o \in Objects \ {n} /\ heap[o] = "live" /\ o \notin Trivial
        BY <3>2, <4>1 DEF Memory, Owners, NotFree
      <4> QED BY <1>1, <4>2
    <3> QED BY <3>1, <3>2
  <2>4. /\ roots \cap mine = {} /\ FreesIn(queue) \cap (roots \cup mine) = {}
        /\ Held \cap (roots \cup mine \cup FreesIn(queue) \cup Pending') = {}
        /\ Pending' \cap (roots \cup mine \cup FreesIn(queue)) = {}
    BY <1>6, <1>7 DEF Memory, Owners
  <2>5. ASSUME NEW w \in Written', NEW u \in Written', written'[w] = written'[u]
        PROVE  w = u
    <3>1. \A x \in Written : written[x] \in Pending /\ x # v
      BY <1>5 DEF Pending
    <3> QED BY <1>4, <1>5, <1>7, <2>5, <3>1 DEF Memory, Owners
  <2>6. /\ \A w, u \in Vars : storage'[w] = storage'[u] => w = u
        /\ roots' = roots /\ mine' = mine /\ FreesIn(queue)' = FreesIn(queue)
        /\ NotFree(heap)' = NotFree(heap')
    BY DEF Memory, Owners, NotFree
  <2> QED BY <1>5, <2>1, <2>2, <2>3, <2>4, <2>5, <2>6 DEF Owners
<1>9. /\ Objs(working') = Objs(working) \cup {storage[v]}
      /\ FreesIn(working') = FreesIn(working) \cup {storage[v]}
  BY <1>1, <1>2, ObjsOfAppend
<1>10. Registrations'
  <2>1. /\ Objs(queue)' = Objs(queue) /\ FreesIn(queue)' = FreesIn(queue)
        /\ Objs(working)' = Objs(working') /\ FreesIn(working)' = FreesIn(working')
    BY DEF Objs
  <2> QED BY <1>6, <1>9, <2>1 DEF Memory, Registrations
<1>11. /\ D \in Seq(Callback) /\ queue \o working' = Append(D, c)
       /\ Objs(queue) \subseteq Objs(D) /\ Objs(D) \subseteq NotFree(heap)
       /\ Objs(D) \subseteq FreesIn(queue) \cup roots \cup mine \cup Replaced
       /\ FreesIn(D) \subseteq Objs(D) /\ NotFree(heap) \subseteq Objects
  <2>1. queue \o working' = Append(D, c)
    BY <1>1, <1>2, ConcatAppend
  <2>2. D \in Seq(Callback)
    BY WhereRegistered
  <2>3. FreesIn(D) \subseteq Objs(D)
    BY <2>2, ObjsType
  <2> QED BY <2>1, <2>2, <2>3, WhereRegistered DEF NotFree
<1>12. storage[v] \notin Objs(D)
  <2>1. storage[v] \notin FreesIn(queue) \cup roots \cup mine
    BY <1>2 DEF Memory, Owners
  <2>2. storage[v] \notin Replaced
    BY <1>5 DEF Replaced, Memory, Owners
  <2> QED BY <1>11, <2>1, <2>2
<1> HIDE DEF D, c
<1>13. \A o \in Objs(D) : heap[o] = heap'[o]
  BY <1>1, <1>3, <1>11
<1>14. Cleans(queue, heap') /\ Cleans(D, heap')
  <2>1. Cleans(queue, heap) /\ Cleans(D, heap)
    BY DEF Memory, Reclaims, D
  <2>2. \A o \in Objs(queue) : heap[o] = heap'[o]
    BY <1>11, <1>13
  <2> QED BY <1>1, <1>11, <1>13, <2>1, <2>2, CleansElsewhere
<1>15. Cleans(Append(D, c), heap')
  <2>1. storage[v] # n /\ heap[storage[v]] = "live" /\ storage[v] \notin Trivial
    BY <1>2, <1>7 DEF Memory, Owners
  <2>2. Run(D, heap')[storage[v]] = "live"
    <3>1. storage[v] \in Objects \ Objs(D) /\ D \in Seq(Callback) /\ heap' \in Heaps
      BY <1>1, <1>2, <1>11, <1>12
    <3>2. Run(D, heap')[storage[v]] = heap'[storage[v]]
      BY <3>1, RunElsewhere
    <3>3. heap'[storage[v]] = "live"
      BY <1>1, <1>2, <2>1
    <3> QED BY <3>2, <3>3
  <2>3. After("destroy_deallocate", storage[v], "live") = "free"
    BY <2>1 DEF After, Freed, Destroyed
  <2>4. /\ c[2] \notin FreesIn(D)
        /\ After(c[1], c[2], Run(D, heap')[c[2]]) = IF c[1] = "destroy" THEN "raw" ELSE "free"
    BY <1>2, <1>11, <1>12, <2>2, <2>3
  <2> QED BY <1>1, <1>2, <1>11, <1>14, <2>4, CleansAppend
<1>16. Reclaims(queue)' /\ Reclaims(queue \o working)'
  BY <1>11, <1>14, <1>15 DEF Reclaims
<1> QED BY <1>8, <1>10, <1>16 DEF Memory

LEMMA WriteKeeps ==
    ASSUME MemoryInv, NEW v \in Vars, Write(v)
    PROVE  MemoryInv'
<1> DEFINE new == Fresh(FALSE)
           c == <<"destroy_deallocate", new>>
<1>1. Types /\ Shape /\ Writes /\ Reads /\ Memory /\ Past
  BY MemoryInvIs
<1>2. /\ MayWrite /\ Find(write_set, v) = 0 /\ FreeObjects(FALSE) # {}
      /\ steps' = steps + 1
      /\ heap' = [heap EXCEPT ![new] = "live"]
      /\ write_set' = PushBack(write_set, v, new)
      /\ working' = Append(working, <<"destroy_deallocate", storage[v]>>)
      /\ fail_callbacks' = Append(fail_callbacks, c)
      /\ written' = [written EXCEPT ![v] = new] /\ seen' = {}
      /\ UNCHANGED <<stack, committing, tx_state, section, read_set, queue, storage, roots, mine,
                     calls, before, tracked>>
  BY DEF Write, Does
<1>3. stack # <<>> /\ ~committing /\ tx_state = "read_write"
  BY <1>1, <1>2, MayWriteIs
<1>4. new \in Objects /\ heap[new] = "free" /\ new \notin Trivial
  BY <1>2, FreshIs
<1> HIDE DEF new
<1>5. written[v] = Nothing
  BY <1>1, <1>2, FindIs
<1>6. /\ write_set' \in WriteSets /\ SlotToSpare'
      /\ write_set'.data = Append(write_set.data, [dest_var |-> v, pending_write |-> new])
      /\ write_set'.filter = write_set.filter \cup {Bit[v]}
  BY <1>1, <1>2, <1>4, PushBackIs DEF Types, Shape, SlotToSpare
<1>7. /\ c \in Callback /\ c[1] = "destroy_deallocate" /\ c[2] = new
      /\ <<"destroy_deallocate", storage[v]>> \in Callback
  BY <1>1, <1>4 DEF Callback, Types
<1>8. /\ heap \in Heaps /\ heap' \in Heaps /\ heap'[new] = "live"
      /\ Apply(heap', c) = heap
  <2>1. heap \in Heaps /\ heap' \in Heaps /\ heap'[new] = "live"
    BY <1>1, <1>2, <1>4 DEF Types, Heaps, States
  <2>2. After("destroy_deallocate", new, "live") = "free"
    BY <1>4 DEF After, Freed, Destroyed
  <2>3. Apply(heap', c) = [heap' EXCEPT ![new] = "free"]
    BY <1>7, <2>1, <2>2 DEF Apply, Heaps
  <2>4. [heap' EXCEPT ![new] = "free"] = heap
    BY <1>2, <1>4, <2>1 DEF Heaps
  <2> QED BY <2>1, <2>3, <2>4
<1> HIDE DEF c
<1>9. Types'
  <2>1. working' \in Seq(Callback) /\ fail_callbacks' \in Seq(Callback)
    BY <1>1, <1>2, <1>7, SetOfAppend DEF Types
  <2>2. written' \in [Vars -> Objects \cup {Nothing}]
    BY <1>1, <1>2, <1>4 DEF Types
  <2>3. steps' \in Nat /\ seen' \subseteq Vars \X Objects
    BY <1>1, <1>2 DEF Types
  <2>4. heap' \in [Objects -> States]
    BY <1>8 DEF Heaps
  <2> QED BY <1>1, <1>2, <1>6, <2>1, <2>2, <2>3, <2>4 DEF Types
<1>10. Shape'
  BY <1>1, <1>2, <1>3, <1>6 DEF Shape, KindIsTheOutermost
<1>11. Writes'
  BY <1>1, <1>2, <1>4, <1>5, <1>6, PushKeepsWrites
<1>12. Reads'
  BY <1>1, <1>2, <1>3 DEF Reads, ReadsOwnWrites, ValidatesTheRest
<1>13. Memory'
  BY <1>1, <1>2, <1>4, <1>5, WriteMemory
<1>14. Past'
  <2>1. new \notin Objs(queue)
    BY <1>1, <1>4, WhereRegistered DEF NotFree
  <2> QED BY <1>1, <1>2, <1>7, <1>8, <2>1, PastGrows
<1> QED BY <1>9, <1>10, <1>11, <1>12, <1>13, <1>14 DEF MemoryInv, Memory, Past
-----------------------------------------------------------------------------
(* The functions of memory.hpp *)

(* The functions that take a thread_data are used in sections of           *)
(* read-write transactions only: no other section runs failure callbacks.  *)
WhereUndone == KindsThatAllocate \subseteq {"read_write"}

LEMMA MayAllocateIs ==
    ASSUME WhereUndone, Types, Shape, MayAllocate
    PROVE  /\ ~committing
           /\ section => stack # <<>> /\ tx_state = "read_write"
           /\ ~section => stack = <<>>
<1>1. stack # <<>> => section
  BY DEF Shape, KindIsTheOutermost
<1>2. stack = <<>> => ~section
  BY DEF Shape
<1>3. ~committing /\ (WithThreadData \/ MayWrite)
  BY DEF MayAllocate, WithTransaction
<1>4. section /\ WithThreadData => tx_state = "read_write"
  BY DEF WithThreadData, WhereUndone
<1>5. MayWrite => tx_state = "read_write"
  BY MayWriteIs
<1> QED BY <1>1, <1>2, <1>3, <1>4, <1>5

(* What the functions that take or construct an object share. *)
LEMMA TakesKeeps ==
    ASSUME MemoryInv, ~committing, UNCHANGED mvars, steps' \in Nat, heap' \in Heaps,
           fail_callbacks' \in Seq(Callback), roots' \subseteq Objects, mine' \subseteq Objects,
           tx_state # "read_write" => fail_callbacks' = <<>> /\ mine' = {},
           Memory', Past'
    PROVE  MemoryInv'
<1>1. Types /\ Shape /\ Writes /\ Reads
  BY MemoryInvIs
<1>2. /\ UNCHANGED <<stack, committing, tx_state, section, write_set, read_set, working, queue,
                     storage, calls>>
      /\ UNCHANGED <<before, written, tracked, seen>>
  BY DEF mvars, history
<1>3. Types'
  BY <1>1, <1>2 DEF Types, Heaps
<1>4. Shape'
  <2>1. SlotToSpare'
    BY <1>1, <1>2 DEF Shape, SlotToSpare
  <2> QED BY <1>1, <1>2, <2>1 DEF Shape, KindIsTheOutermost
<1>5. Writes' /\ Reads'
  <2>1. Writes'
    BY <1>1, <1>2, WritesKept
  <2>2. Reads'
    BY <1>1, <1>2 DEF Reads, ReadsOwnWrites, ValidatesTheRest
  <2> QED BY <2>1, <2>2
<1> QED BY <1>3, <1>4, <1>5 DEF MemoryInv, Memory, Past

(* An object is taken, and a callback that gives it back is registered:    *)
(* allocate and allocate_construct.                                        *)
LEMMA AllocationKeeps ==
    ASSUME WhereUndone, MemoryInv, MayAllocate, NEW trivial \in BOOLEAN, RoomFor(trivial), Counts(1),
           NEW s \in {"raw", "live"}, NEW what \in {"deallocate", "destroy_deallocate"},
           After(what, Fresh(trivial), s) = "free",
           heap' = [heap EXCEPT ![Fresh(trivial)] = s],
           AfterFail(<<<<what, Fresh(trivial)>>>>), Mine(Fresh(trivial)), UNCHANGED mvars
    PROVE  MemoryInv'
<1> DEFINE n == Fresh(trivial)
           c == <<what, n>>
<1>1. Types /\ Shape /\ Memory /\ Past
  BY MemoryInvIs
<1>2. /\ ~committing
      /\ section => stack # <<>> /\ tx_state = "read_write"
      /\ ~section => stack = <<>>
  BY <1>1, MayAllocateIs
<1>3. n \in Objects /\ heap[n] = "free"
  BY FreshIs DEF RoomFor
<1> HIDE DEF n
<1>4. /\ c \in Callback /\ c[1] = what /\ c[2] = n /\ what # "destroy"
  BY <1>3 DEF Callback
<1>5. /\ heap \in Heaps /\ heap' \in Heaps /\ heap'[n] = s /\ Apply(heap', c) = heap
  <2>1. heap \in Heaps /\ heap' \in Heaps /\ heap'[n] = s
    BY <1>1, <1>3 DEF Types, Heaps, States, n
  <2>2. Apply(heap', c) = [heap' EXCEPT ![n] = "free"]
    BY <1>4, <2>1 DEF Apply, Heaps, n
  <2>3. [heap' EXCEPT ![n] = "free"] = heap
    BY <1>3, <2>1 DEF Heaps, n
  <2> QED BY <2>1, <2>2, <2>3
<1>6. /\ UNCHANGED <<stack, tx_state, working, queue, storage>> /\ UNCHANGED <<before, written>>
  BY DEF mvars, history
<1>7. /\ section => mine' = mine \cup {n} /\ roots' = roots
      /\ ~section => roots' = roots \cup {n} /\ mine' = mine
  BY DEF Mine, n
<1>8. /\ section => fail_callbacks' = fail_callbacks \o <<c>>
      /\ ~section => fail_callbacks' = fail_callbacks
  BY DEF AfterFail, Registers, n
<1>9. section => fail_callbacks' = Append(fail_callbacks, c)
  BY <1>1, <1>4, <1>8, SetOfAppend DEF Types
<1> HIDE DEF c
<1>10. steps' \in Nat
  BY <1>1 DEF Counts, Does, Types
<1>11. Memory'
  BY <1>1, <1>3, <1>6, <1>7, MemoryTakes DEF n
<1>12. Past'
  <2>1. CASE section
    <3>1. n \notin Objs(queue)
      BY <1>1, <1>3, WhereRegistered DEF NotFree
    <3> QED BY <1>1, <1>4, <1>5, <1>6, <1>7, <1>9, <2>1, <3>1, PastGrows
  <2>2. CASE ~section
    BY <1>1, <1>2, <1>6, <1>8, <2>2, PastOver DEF Shape
  <2> QED BY <2>1, <2>2
<1>13. /\ fail_callbacks' \in Seq(Callback) /\ roots' \subseteq Objects /\ mine' \subseteq Objects
       /\ tx_state # "read_write" => fail_callbacks' = <<>> /\ mine' = {}
  <2>1. fail_callbacks' \in Seq(Callback)
    <3>1. fail_callbacks \in Seq(Callback)
      BY <1>1 DEF Types
    <3>2. Append(fail_callbacks, c) \in Seq(Callback)
      BY <1>4, <3>1, SetOfAppend
    <3> QED BY <1>8, <1>9, <3>1, <3>2
  <2>2. roots' \subseteq Objects /\ mine' \subseteq Objects
    BY <1>1, <1>3, <1>7 DEF Types
  <2>3. tx_state # "read_write" => fail_callbacks' = <<>> /\ mine' = {}
    BY <1>1, <1>2, <1>7, <1>8 DEF Shape
  <2> QED BY <2>1, <2>2, <2>3
<1> QED BY <1>2, <1>5, <1>10, <1>11, <1>12, <1>13, TakesKeeps

LEMMA AllocateKeeps ==
    ASSUME WhereUndone, MemoryInv, NEW trivial \in BOOLEAN, Allocate(trivial)
    PROVE  MemoryInv'
<1>1. After("deallocate", Fresh(trivial), "raw") = "free"
  BY DEF After, Freed
<1> QED BY <1>1, AllocationKeeps DEF Allocate

LEMMA AllocateConstructKeeps ==
    ASSUME WhereUndone, MemoryInv, NEW trivial \in BOOLEAN, AllocateConstruct(trivial)
    PROVE  MemoryInv'
<1>1. After("destroy_deallocate", Fresh(trivial), "live") = "free"
  BY DEF After, Freed, Destroyed
<1> QED BY <1>1, AllocationKeeps DEF AllocateConstruct

(* An object of the user's that is not given away is in no callback. *)
LEMMA UsableIs ==
    ASSUME Types, Memory, NEW o \in Objects, o \in roots \cup mine, Registered(o) = {}
    PROVE  o \notin Objs(queue \o working) /\ o \notin Objs(queue) /\ o \notin FreesIn(queue \o working)
<1>1. o \notin Objs(queue \o working)
  BY DEF Registered, Objs
<1>2. /\ queue \o working \in Seq(Callback)
      /\ Objs(queue) \subseteq Objs(queue \o working)
  BY WhereRegistered
<1> QED BY <1>1, <1>2, ObjsType

LEMMA ConstructKeeps ==
    ASSUME WhereUndone, MemoryInv, NEW o \in Objects, Construct(o)
    PROVE  MemoryInv'
<1> DEFINE c == <<"destroy", o>>
           D == queue \o working
<1>1. Types /\ Shape /\ Memory /\ Past
  BY MemoryInvIs
<1>2. /\ MayAllocate /\ Counts(1) /\ o \in roots \cup mine /\ Registered(o) = {} /\ heap[o] = "raw"
      /\ heap' = [heap EXCEPT ![o] = "live"] /\ roots' = roots /\ mine' = mine
      /\ AfterFail(IF o \in Trivial THEN <<>> ELSE <<c>>)
      /\ UNCHANGED mvars
  BY DEF Construct, Usable
<1>3. /\ ~committing
      /\ section => stack # <<>> /\ tx_state = "read_write"
      /\ ~section => stack = <<>>
  BY <1>1, <1>2, MayAllocateIs
<1>4. /\ UNCHANGED <<stack, tx_state, working, queue, storage>> /\ UNCHANGED <<before, written>>
  BY <1>2 DEF mvars, history
<1>5. o \notin Objs(D) /\ o \notin Objs(queue)
  BY <1>1, <1>2, UsableIs
<1>6. /\ heap \in Heaps /\ heap' \in Heaps /\ heap'[o] = "live"
      /\ \A p \in Objects \ {o} : heap'[p] = heap[p]
  BY <1>1, <1>2 DEF Types, Heaps, States
<1>7. /\ fail_callbacks \in Seq(Callback) /\ c \in Callback /\ c[1] = "destroy" /\ c[2] = o
      /\ queue \in Seq(Callback) /\ D \in Seq(Callback) /\ Objs(queue) \subseteq Objs(D)
      /\ Objs(D) \subseteq NotFree(heap) /\ NotFree(heap) \subseteq Objects
  BY <1>1, WhereRegistered DEF Types, Callback, NotFree
<1>8. /\ section /\ o \notin Trivial => fail_callbacks' = Append(fail_callbacks, c)
      /\ (~section \/ o \in Trivial) => fail_callbacks' = fail_callbacks
  <2>1. fail_callbacks \o <<>> = fail_callbacks /\ fail_callbacks \o <<c>> = Append(fail_callbacks, c)
    BY <1>7, SetOfAppend, ConcatAppend
  <2> HIDE DEF c
  <2>2. fail_callbacks' = IF section THEN fail_callbacks \o (IF o \in Trivial THEN <<>> ELSE <<c>>)
                          ELSE fail_callbacks
    BY <1>2 DEF AfterFail, Registers
  <2> QED BY <2>1, <2>2
<1> HIDE DEF c, D
<1>9. Memory'
  <2>1. NotFree(heap') = NotFree(heap)
    BY <1>2, <1>6 DEF NotFree
  <2>2. /\ Written' = Written /\ Pending' = Pending /\ Replaced' = Replaced /\ Held' = Held
        /\ FreesIn(queue)' = FreesIn(queue) /\ NotFree(heap)' = NotFree(heap')
        /\ Objs(queue)' = Objs(queue) /\ Objs(working)' = Objs(working)
        /\ FreesIn(working)' = FreesIn(working)
    BY <1>4 DEF Written, Pending, Replaced, Held, NotFree, Objs
  <2>3. Owners'
    <3>1. o \notin Held \cup Pending
      BY <1>1, <1>2 DEF Memory, Owners
    <3>2. \A p \in Held \cup Pending : heap'[p] = "live" /\ p \notin Trivial
      <4>1. \A p \in Held \cup Pending : p \in Objects \ {o} /\ heap[p] = "live" /\ p \notin Trivial
        BY <1>1, <3>1 DEF Memory, Owners, NotFree
      <4> QED BY <1>6, <4>1
    <3>3. \A p \in Objects : heap'[p] # "broken"
      BY <1>1, <1>6 DEF Memory, Owners
    <3>4. /\ NotFree(heap') = roots \cup mine \cup FreesIn(queue) \cup Held \cup Pending
          /\ roots \cap mine = {} /\ FreesIn(queue) \cap (roots \cup mine) = {}
          /\ Held \cap (roots \cup mine \cup FreesIn(queue) \cup Pending) = {}
          /\ Pending \cap (roots \cup mine \cup FreesIn(queue)) = {}
      BY <1>1, <2>1 DEF Memory, Owners
    <3>5. /\ \A v, w \in Vars : storage'[v] = storage'[w] => v = w
          /\ \A v, w \in Written : written'[v] = written'[w] => v = w
      BY <1>1, <1>4 DEF Memory, Owners
    <3> QED BY <1>2, <2>2, <3>2, <3>3, <3>4, <3>5 DEF Owners
  <2>4. Registrations'
    BY <1>1, <1>2, <2>2 DEF Memory, Registrations
  <2>5. Cleans(queue, heap) /\ Cleans(D, heap)
    BY <1>1 DEF Memory, Reclaims, D
  <2>6. /\ \A p \in Objs(D) : heap[p] = heap'[p]
        /\ \A p \in Objs(queue) : heap[p] = heap'[p]
    BY <1>5, <1>6, <1>7
  <2>7. Cleans(queue, heap') /\ Cleans(D, heap')
    BY <1>6, <1>7, <2>5, <2>6, CleansElsewhere
  <2>8. Reclaims(queue)' /\ Reclaims(queue \o working)'
    BY <1>4, <2>7 DEF Reclaims, D
  <2> QED BY <2>3, <2>4, <2>8 DEF Memory
<1>10. Past'
  <2>1. CASE ~section
    BY <1>1, <1>3, <1>4, <1>8, <2>1, PastOver DEF Shape
  <2>2. CASE section /\ o \notin Trivial
    <3>1. After("destroy", o, "live") = "raw"
      BY DEF After, Destroyed
    <3>2. Apply(heap', c) = [heap' EXCEPT ![o] = "raw"]
      BY <1>6, <1>7, <3>1 DEF Apply, Heaps
    <3>3. [heap' EXCEPT ![o] = "raw"] = heap
      BY <1>2, <1>6 DEF Heaps
    <3>4. Apply(heap', c) = heap
      BY <3>2, <3>3
    <3> QED BY <1>1, <1>2, <1>4, <1>5, <1>6, <1>7, <1>8, <2>2, <3>4, PastGrows
  <2>3. CASE section /\ o \in Trivial
    <3> DEFINE cs == Reverse(fail_callbacks)
    <3>1. fail_callbacks' = fail_callbacks
      BY <1>8, <2>3
    <3>2. cs \in Seq(Callback) /\ ToSet(cs) = ToSet(fail_callbacks)
      BY <1>7, ReverseIs
    <3>3. \A i \in DOMAIN cs : cs[i][1] = "destroy" => cs[i][2] \notin Trivial
      <4>1. \A i \in DOMAIN cs : cs[i] \in ToSet(fail_callbacks)
        BY <3>2 DEF ToSet
      <4> QED BY <1>1, <4>1 DEF Past, Undoes
    <3>4. \A p \in Objects : Alike(p, heap'[p], heap[p])
      BY <1>2, <1>6, <2>3 DEF Alike
    <3> HIDE DEF cs
    <3>5. \A p \in Objects : Alike(p, Run(cs, heap')[p], Run(cs, heap)[p])
      BY <1>6, <3>2, <3>3, <3>4, RunAlike
    <3>6. \A p \in Objects : AsBefore(p, Run(cs, heap)[p])
      BY <1>1, <1>3, <2>3 DEF Past, Undoes, DoFailCallbacks, cs
    <3>7. \A p \in Objects : AsBefore(p, Run(cs, heap')[p])
      BY <3>5, <3>6 DEF AsBefore, Alike
    <3>8. Undoes'
      <4>1. DoFailCallbacks(heap)' = Run(cs, heap')
        BY <3>1 DEF DoFailCallbacks, cs
      <4>2. \A p \in Objects : AsBefore(p, DoFailCallbacks(heap)[p])'
        BY <1>4, <3>7, <4>1 DEF AsBefore
      <4>3. \A d \in ToSet(fail_callbacks') : d[1] = "destroy" => d[2] \notin Trivial
        BY <1>1, <3>1 DEF Past, Undoes
      <4>4. Objs(fail_callbacks)' \cap Objs(queue)' = {}
        BY <1>1, <1>4, <3>1 DEF Past, Undoes, Objs
      <4> QED BY <4>2, <4>3, <4>4 DEF Undoes
    <3>9. Began'
      BY <1>1, <1>2, <1>4 DEF Past, Began, NotFree, Held, FreesIn
    <3> QED BY <3>8, <3>9 DEF Past
  <2> QED BY <2>1, <2>2, <2>3
<1>11. /\ fail_callbacks' \in Seq(Callback) /\ roots' \subseteq Objects /\ mine' \subseteq Objects
       /\ tx_state # "read_write" => fail_callbacks' = <<>> /\ mine' = {}
  <2>1. fail_callbacks' \in Seq(Callback)
    <3>1. Append(fail_callbacks, c) \in Seq(Callback)
      BY <1>7, SetOfAppend
    <3> QED BY <1>7, <1>8, <3>1
  <2>2. roots' \subseteq Objects /\ mine' \subseteq Objects
    BY <1>1, <1>2 DEF Types
  <2>3. tx_state # "read_write" => fail_callbacks' = <<>> /\ mine' = {}
    BY <1>1, <1>2, <1>3, <1>8 DEF Shape
  <2> QED BY <2>1, <2>2, <2>3
<1>12. steps' \in Nat
  BY <1>1, <1>2 DEF Counts, Does, Types
<1> QED BY <1>2, <1>3, <1>6, <1>9, <1>10, <1>11, <1>12, TakesKeeps

(* An object is given away: a callback of the working epoch is registered. *)
LEMMA GiveAwayKeeps ==
    ASSUME MemoryInv, NEW o \in Objects,
           NEW what \in {"deallocate", "destroy", "destroy_deallocate"}, GiveAway(what, o)
    PROVE  MemoryInv'
<1> DEFINE c == <<what, o>>
           D == queue \o working
<1>1. Types /\ Shape /\ Writes /\ Reads /\ Memory /\ Past
  BY MemoryInvIs
<1>2. /\ MayWrite /\ steps' = steps + 1 /\ o \in roots \cup mine /\ working' = Append(working, c)
      /\ UNCHANGED <<stack, committing, tx_state, section, write_set, read_set, fail_callbacks,
                     queue, storage, calls>>
      /\ UNCHANGED <<heap, roots, mine>> /\ UNCHANGED <<before, written, tracked, seen>>
  BY DEF GiveAway, WithTransaction, Does, memory, history
<1>3. stack # <<>> /\ ~committing /\ tx_state = "read_write"
  BY <1>1, <1>2, MayWriteIs
<1>4. /\ c \in Callback /\ c[1] = what /\ c[2] = o
      /\ working \in Seq(Callback) /\ queue \in Seq(Callback) /\ heap \in Heaps
      /\ D \in Seq(Callback)
  BY <1>1, WhereRegistered DEF Types, Callback, Heaps
<1>5. /\ working' \in Seq(Callback) /\ queue \o working' = Append(D, c)
      /\ Objs(working') = Objs(working) \cup {o}
      /\ FreesIn(working') = FreesIn(working) \cup (IF what = "destroy" THEN {} ELSE {o})
  <2> HIDE DEF c
  <2>1. Append(working, c) \in Seq(Callback)
    BY <1>4, SetOfAppend
  <2>2. queue \o Append(working, c) = Append(D, c)
    BY <1>4, ConcatAppend
  <2>3. /\ Objs(Append(working, c)) = Objs(working) \cup {o}
        /\ FreesIn(Append(working, c)) = FreesIn(working) \cup (IF what = "destroy" THEN {} ELSE {o})
    BY <1>4, ObjsOfAppend
  <2> QED BY <1>2, <2>1, <2>2, <2>3
<1>6. Types'
  <2>1. steps' \in Nat
    BY <1>1, <1>2 DEF Types
  <2> QED BY <1>1, <1>2, <1>5, <2>1 DEF Types
<1>7. Shape'
  <2>1. SlotToSpare'
    BY <1>1, <1>2 DEF Shape, SlotToSpare
  <2> QED BY <1>1, <1>2, <1>3, <2>1 DEF Shape, KindIsTheOutermost
<1>8. Writes' /\ Reads'
  <2>1. Writes'
    BY <1>1, <1>2, WritesKept
  <2>2. Reads'
    BY <1>1, <1>2 DEF Reads, ReadsOwnWrites, ValidatesTheRest
  <2> QED BY <2>1, <2>2
<1>9. Past'
  BY <1>1, <1>2, <1>3, PastKept
<1>10. heap[o] \in {"raw", "live"}
  <2>1. heap[o] # "free" /\ heap[o] # "broken"
    BY <1>1, <1>2 DEF Memory, Owners, NotFree
  <2> QED BY <1>4, <2>1 DEF Heaps, States
<1>11. /\ o \notin FreesIn(D)
       /\ After(what, o, Run(D, heap)[o]) = IF what = "destroy" THEN "raw" ELSE "free"
  <2>1. Cleans(D, heap)
    BY <1>1 DEF Memory, Reclaims
  <2>2. CASE Registered(o) = {}
    <3>1. o \notin Objs(D) /\ o \notin FreesIn(D)
      BY <1>1, <1>2, <2>2, UsableIs
    <3> HIDE DEF D
    <3>2. Run(D, heap)[o] = heap[o]
      BY <1>4, <3>1, RunElsewhere
    <3>3. CASE what = "deallocate"
      <4>1. heap[o] = "raw" \/ o \in Trivial
        BY <2>2, <3>3 DEF GiveAway
      <4> QED BY <1>10, <3>1, <3>2, <3>3, <4>1 DEF After, Freed
    <3>4. CASE what = "destroy"
      <4>1. heap[o] = "live"
        BY <3>4 DEF GiveAway
      <4> QED BY <3>1, <3>2, <3>4, <4>1 DEF After, Destroyed
    <3>5. CASE what = "destroy_deallocate"
      <4>1. heap[o] = "live"
        BY <3>5 DEF GiveAway
      <4> QED BY <3>1, <3>2, <3>5, <4>1 DEF After, Destroyed, Freed
    <3> QED BY <3>3, <3>4, <3>5
  <2>3. CASE Registered(o) # {}
    <3>1. what = "deallocate" /\ Registered(o) = {<<"destroy", o>>}
      BY <2>3 DEF GiveAway
    <3>2. o \notin FreesIn(D)
      <4>1. \A d \in ToSet(D) : d[2] = o => d = <<"destroy", o>>
        BY <3>1 DEF Registered
      <4> QED BY <4>1 DEF FreesIn
    <3>3. o \in Objs(D)
      <4>1. <<"destroy", o>> \in ToSet(D)
        BY <3>1 DEF Registered
      <4> QED BY <4>1 DEF Objs
    <3> HIDE DEF D
    <3>4. Run(D, heap)[o] = "raw"
      BY <2>1, <3>2, <3>3 DEF Cleans
    <3> QED BY <3>1, <3>2, <3>4 DEF After, Freed
  <2> QED BY <2>2, <2>3
<1>12. Memory'
  <2>1. /\ FreesIn(queue)' = FreesIn(queue) /\ Objs(queue)' = Objs(queue)
        /\ Objs(working)' = Objs(working') /\ FreesIn(working)' = FreesIn(working')
        /\ Written' = Written /\ Pending' = Pending /\ Replaced' = Replaced /\ Held' = Held
        /\ NotFree(heap)' = NotFree(heap)
    BY <1>2 DEF Written, Pending, Replaced, Held, NotFree, Objs
  <2>2. Owners'
    BY <1>1, <1>2, <2>1 DEF Memory, Owners
  <2>3. Registrations'
    BY <1>1, <1>2, <1>5, <2>1 DEF Memory, Registrations
  <2>4. Cleans(queue, heap) /\ Cleans(D, heap)
    BY <1>1 DEF Memory, Reclaims
  <2> HIDE DEF c, D
  <2>5. Cleans(Append(D, c), heap)
    BY <1>4, <1>11, <2>4, CleansAppend
  <2>6. Reclaims(queue)' /\ Reclaims(queue \o working)'
    BY <1>2, <1>5, <2>4, <2>5 DEF Reclaims
  <2> QED BY <2>2, <2>3, <2>6 DEF Memory
<1> QED BY <1>6, <1>7, <1>8, <1>9, <1>12 DEF MemoryInv, Memory, Past

-----------------------------------------------------------------------------
(* The invariant holds at first, and every step keeps it. *)

LEMMA MemoryBegins ==
    ASSUME Init
    PROVE  MemoryInv
<1>1. /\ stack = <<>> /\ committing = FALSE /\ tx_state = "none" /\ section = FALSE
      /\ write_set = EmptyWriteSet /\ read_set = <<>> /\ fail_callbacks = <<>> /\ working = <<>>
      /\ queue = <<>> /\ storage = FirstValue /\ roots = {} /\ mine = {} /\ calls = 0 /\ steps = 0
      /\ heap = [o \in Objects |-> IF \E v \in Vars : FirstValue[v] = o THEN "live" ELSE "free"]
      /\ before = [o \in Objects |-> "free"] /\ written = [v \in Vars |-> Nothing]
      /\ tracked = {} /\ seen = {}
  BY DEF Init
<1>2. /\ FirstValue \in [Vars -> Objects \ Trivial] /\ start_size \in Nat \ {0}
      /\ \A v, w \in Vars : v # w => FirstValue[v] # FirstValue[w]
      /\ MaxLevel \in Nat \ {0}
  BY AttemptsAssumption, StartSizeAssumption
<1>3. /\ write_set \in WriteSets /\ write_set.data = <<>> /\ write_set.filter = {}
      /\ write_set.capacity = start_size
  <2>1. <<>> \in Seq(Entries) /\ {} \in SUBSET {Bit[v] : v \in Vars}
    OBVIOUS
  <2> QED BY <1>1, <1>2, <2>1 DEF EmptyWriteSet, WriteSets
<1>4. SlotToSpare
  <2>1. Len(<<>>) = 0
    OBVIOUS
  <2>2. Len(<<>>) < start_size
    BY <1>2, <2>1
  <2> QED BY <1>3, <2>2 DEF SlotToSpare
<1>5. Types
  <2>1. storage \in [Vars -> Objects] /\ heap \in [Objects -> States]
    BY <1>1, <1>2 DEF States
  <2>2. before \in [Objects -> States] /\ written \in [Vars -> Objects \cup {Nothing}]
    BY <1>1 DEF States
  <2>3. /\ stack \in Seq(Kinds) /\ read_set \in Seq(Vars) /\ fail_callbacks \in Seq(Callback)
        /\ working \in Seq(Callback) /\ queue \in Seq(Callback)
    BY <1>1
  <2> QED BY <1>1, <1>3, <2>1, <2>2, <2>3 DEF Types
<1>6. Shape
  <2>1. Len(<<>>) = 0 /\ DOMAIN <<>> = {} /\ 0 <= MaxLevel
    BY <1>2
  <2> QED BY <1>1, <1>3, <1>4, <2>1 DEF Shape, KindIsTheOutermost
<1>7. Writes /\ Reads
  <2>1. ToSet(<<>>) = {}
    BY ObjsOfEmpty
  <2> QED BY <1>1, <1>3, <2>1 DEF Writes, Reads, ReadsOwnWrites, ValidatesTheRest
<1>8. Memory
  <2>1. Written = {} /\ Pending = {} /\ Replaced = {}
    BY <1>1 DEF Written, Pending, Replaced
  <2>2. FreesIn(queue) = {} /\ Objs(queue) = {} /\ Objs(working) = {}
    BY <1>1, ObjsOfEmpty
  <2>3. \A o \in Objects : o \in Held <=> \E v \in Vars : FirstValue[v] = o
    BY <1>1 DEF Held
  <2>4. Held \subseteq Objects /\ \A o \in Held : o \notin Trivial
    BY <1>1, <1>2 DEF Held
  <2>5. NotFree(heap) = Held
    BY <1>1, <2>3, <2>4 DEF NotFree
  <2>6. Owners
    <3>1. \A o \in Objects : heap[o] # "broken"
      BY <1>1
    <3>2. \A o \in Held : heap[o] = "live"
      BY <1>1, <2>3, <2>4
    <3>3. \A v, w \in Vars : storage[v] = storage[w] => v = w
      BY <1>1, <1>2
    <3> QED BY <1>1, <2>1, <2>2, <2>4, <2>5, <3>1, <3>2, <3>3 DEF Owners
  <2>7. Registrations
    BY <2>1, <2>2 DEF Registrations
  <2>8. <<>> \o <<>> = <<>>
    OBVIOUS
  <2>9. Reclaims(queue) /\ Reclaims(queue \o working)
    BY <1>1, <2>8, CleansNothing DEF Reclaims
  <2> QED BY <2>6, <2>7, <2>9 DEF Memory
<1>9. Past
  <2>1. Objs(fail_callbacks) = {} /\ ToSet(fail_callbacks) = {}
    BY <1>1, ObjsOfEmpty
  <2> QED BY <1>1, <2>1 DEF Past, Undoes, Began
<1> QED BY <1>5, <1>6, <1>7, <1>8, <1>9, MemoryInvIs

LEMMA MemoryStutters ==
    ASSUME MemoryInv, UNCHANGED vars
    PROVE  MemoryInv'
<1>1. Types /\ Shape /\ Writes /\ Reads /\ Memory /\ Past
  BY MemoryInvIs
<1>2. /\ UNCHANGED <<stack, committing, tx_state, section, write_set, read_set, storage, calls, steps>>
      /\ UNCHANGED <<fail_callbacks, working, queue>> /\ UNCHANGED <<heap, roots, mine>>
      /\ UNCHANGED <<before, written, tracked, seen>>
  BY DEF vars, callbacks, memory, history
<1>3. Types'
  BY <1>1, <1>2 DEF Types
<1>4. Shape'
  BY <1>1, <1>2 DEF Shape, SlotToSpare, KindIsTheOutermost
<1>5. Writes' /\ Reads'
  BY <1>1, <1>2 DEF Writes, Reads, ReadsOwnWrites, ValidatesTheRest
<1>6. Memory' /\ Past'
  BY <1>1, <1>2, MemoryKept, PastKept
<1> QED BY <1>3, <1>4, <1>5, <1>6 DEF MemoryInv, Memory, Past

LEMMA MemorySteps ==
    ASSUME WhereUndone, MemoryInv, [Next]_vars
    PROVE  MemoryInv'
<1>1. ASSUME NEW f \in Kinds, Enter(f) \/ Nest(f)
      PROVE  MemoryInv'
  BY <1>1, EnterKeeps, NestKeeps
<1>2. ASSUME NEW v \in Vars, Write(v) \/ WriteAgain(v) \/ WriteThrows(v)
      PROVE  MemoryInv'
  BY <1>2, WriteKeeps, WriteAgainKeeps, WriteThrowsKeeps
<1>3. ASSUME NEW v \in Vars, NEW track \in BOOLEAN, Read(v, track)
      PROVE  MemoryInv'
  BY <1>3, ReadKeeps
<1>4. CASE Return \/ TryCommit
  BY <1>4, ReturnKeeps, TryCommitKeeps
<1>5. CASE Retry
  <2>1. stack # <<>> /\ tx_state # "none" /\ StartOver
    BY <1>5 DEF Retry, Running
  <2> QED BY <2>1, StartOverKeeps
<1>6. CASE CommitFails
  <2>1. stack # <<>> /\ tx_state # "none"
    BY <1>6 DEF CommitFails, MemoryInv, Shape
  <2> QED BY <1>6, <2>1, StartOverKeeps DEF CommitFails
<1>7. CASE CommitSucceeds \/ LeaveReadOnly \/ UserThrows
  BY <1>7, CommitSucceedsKeeps, LeaveReadOnlyKeeps, UserThrowsKeeps
<1>8. CASE Shrink \/ ShrinkInside
  BY <1>8, ShrinkKeeps, ShrinkInsideKeeps
<1>9. ASSUME NEW trivial \in BOOLEAN, Allocate(trivial) \/ AllocateConstruct(trivial)
      PROVE  MemoryInv'
  BY <1>9, AllocateKeeps, AllocateConstructKeeps
<1>10. ASSUME NEW o \in Objects, Construct(o)
       PROVE  MemoryInv'
  BY <1>10, ConstructKeeps
<1>11. ASSUME NEW o \in Objects, NEW what \in {"deallocate", "destroy", "destroy_deallocate"},
              GiveAway(what, o)
       PROVE  MemoryInv'
  BY <1>11, GiveAwayKeeps
<1>12. CASE UNCHANGED vars
  BY <1>12, MemoryStutters
<1> QED BY <1>1, <1>2, <1>3, <1>4, <1>5, <1>6, <1>7, <1>8, <1>9, <1>10, <1>11, <1>12
        DEF Next, Kinds

(* How an attempt of a read-write transaction ends that does not commit.   *)
Fails ==
    /\ stack # <<>>
    /\ heap' = DoFailCallbacks(heap) /\ storage' = storage /\ roots' = roots /\ queue' = queue

LEMMA ThrowsFail ==
    ASSUME MemoryInv, tx_state = "read_write", steps' < steps, NEW n \in Nat, Throw(n, heap), Running,
           UNCHANGED <<committing, queue, storage, roots, calls>>
    PROVE  Fails
<1>1. steps \in Nat /\ stack # <<>>
  BY DEF MemoryInv, Types, Running
<1>2. n = 0
  BY <1>1 DEF Throw
<1> QED BY <1>1, <1>2 DEF Throw, Fails

LEMMA FailsOrGoesOn ==
    ASSUME MemoryInv, Next, tx_state = "read_write", steps' < steps, ~(committing /\ stack' = <<>>)
    PROVE  Fails
<1>1. Types /\ Shape
  BY MemoryInvIs
<1>2. steps \in Nat /\ stack # <<>> /\ steps' # steps /\ steps' # steps + 1
  BY <1>1 DEF Types, Shape
<1>3. ASSUME NEW f \in Kinds, Enter(f) \/ Nest(f)
      PROVE  FALSE
  BY <1>2, <1>3 DEF Enter, Nest, Does
<1>4. ASSUME NEW v \in Vars, Write(v) \/ WriteAgain(v) \/ \E track \in BOOLEAN : Read(v, track)
      PROVE  FALSE
  BY <1>2, <1>4 DEF Write, WriteAgain, Read, Does
<1>5. ASSUME NEW v \in Vars, WriteThrows(v)
      PROVE  Fails
  <2> DEFINE new == Fresh(FALSE)
             h == GiveBack([heap EXCEPT ![new] = "raw"], new)
  <2>1. /\ Running /\ FreeObjects(FALSE) # {} /\ UNCHANGED <<committing, queue, storage, roots, calls>>
        /\ \E n \in 0 .. Len(stack) : Throw(n, h)
    BY <1>5 DEF WriteThrows, MayWrite
  <2>2. new \in Objects /\ heap[new] = "free"
    BY <2>1, FreshIs
  <2>3. h = heap
    BY <1>1, <2>2 DEF GiveBack, Types
  <2> HIDE DEF h
  <2>4. PICK n \in 0 .. Len(stack) : Throw(n, heap)
    BY <2>1, <2>3
  <2>5. n \in Nat
    OBVIOUS
  <2> QED BY <2>1, <2>4, <2>5, ThrowsFail
<1>6. CASE UserThrows
  <2>1. /\ Running /\ UNCHANGED <<committing, queue, storage, roots, calls>>
        /\ \E n \in Catchers : Throw(n, heap)
    BY <1>6 DEF UserThrows
  <2>2. PICK n \in Nat : Throw(n, heap)
    BY <2>1 DEF Catchers
  <2> QED BY <2>1, <2>2, ThrowsFail
<1>7. CASE Return \/ TryCommit \/ ShrinkInside \/ Shrink
  BY <1>2, <1>7 DEF Return, TryCommit, ShrinkInside, Shrink, Does
<1>8. CASE Retry \/ CommitFails
  <2>1. StartOver
    BY <1>8 DEF Retry, CommitFails
  <2> QED BY <1>2, <2>1 DEF StartOver, Fails
<1>9. CASE CommitSucceeds \/ LeaveReadOnly
  BY <1>9 DEF CommitSucceeds, LeaveReadOnly, Over
<1>10. ASSUME NEW trivial \in BOOLEAN, Allocate(trivial) \/ AllocateConstruct(trivial)
       PROVE  FALSE
  BY <1>2, <1>10 DEF Allocate, AllocateConstruct, Counts, Does
<1>11. ASSUME NEW o \in Objects,
              \/ Construct(o)
              \/ \E what \in {"deallocate", "destroy", "destroy_deallocate"} : GiveAway(what, o)
       PROVE  FALSE
  BY <1>2, <1>11 DEF Construct, GiveAway, Counts, Does
<1> QED BY <1>3, <1>4, <1>5, <1>6, <1>7, <1>8, <1>9, <1>10, <1>11 DEF Next, Kinds
-----------------------------------------------------------------------------
(* What holds.  In all of it the functions of memory.hpp that take a       *)
(* thread_data are used outside of sections or in read-write transactions. *)

(* The inductive invariant: who owns each object, what each callback that  *)
(* is registered will do to it, and what the failure callbacks undo.       *)
THEOREM AttemptsCorrect ==
    ASSUME WhereUndone
    PROVE  Spec => []MemoryInv
<1>1. Init => MemoryInv
  BY MemoryBegins
<1>2. MemoryInv /\ [Next]_vars => MemoryInv'
  BY MemorySteps
<1> QED BY <1>1, <1>2, PTL DEF Spec

(* Every variable keeps its type, and the vector of the write set a slot   *)
(* to spare for unchecked_push_back.                                       *)
THEOREM MemoryTypeCorrect ==
    ASSUME WhereUndone
    PROVE  Spec => []MemoryTypeOK
<1>1. MemoryInv => MemoryTypeOK
  BY DEF MemoryInv, Types, Shape, MemoryTypeOK, Kinds, States
<1> QED BY <1>1, AttemptsCorrect, PTL

(* valid_start_state: whatever way out was taken of however many levels,   *)
(* nothing of an attempt is left for the next.                             *)
THEOREM NothingLeftOverCorrect ==
    ASSUME WhereUndone
    PROVE  Spec => []NothingIsLeftOver
<1>1. MemoryInv => NothingIsLeftOver
  BY DEF MemoryInv, Shape, NothingIsLeftOver
<1> QED BY <1>1, AttemptsCorrect, PTL

(* A transaction keeps the kind it was entered with, in all of its levels  *)
(* and after each of them.                                                 *)
THEOREM KindCorrect ==
    ASSUME WhereUndone
    PROVE  Spec => []KindIsTheOutermost
<1>1. MemoryInv => KindIsTheOutermost
  BY DEF MemoryInv, Shape
<1> QED BY <1>1, AttemptsCorrect, PTL

(* Between transactions every object that is not free has one owner, and   *)
(* no callback has ever freed or destroyed what it should not.             *)
THEOREM NothingLostCorrect ==
    ASSUME WhereUndone
    PROVE  Spec => []NothingIsLost
<1>1. MemoryInv => NothingIsLost
  <2> SUFFICES ASSUME MemoryInv
               PROVE  NothingIsLost
    OBVIOUS
  <2>1. Types /\ Shape /\ Writes /\ Owners
    BY DEF MemoryInv
  <2>2. \A o \in Objects : heap[o] # "broken"
    BY <2>1 DEF Owners
  <2>3. CASE stack = <<>>
    <3>1. mine = {} /\ Pending = {}
      BY <2>1, <2>3, Idle DEF Shape
    <3>2. FreedLater = FreesIn(queue)
      BY DEF FreedLater, FreesIn
    <3>3. NotFree(heap) = roots \cup FreedLater \cup Held
      BY <2>1, <3>1, <3>2 DEF Owners
    <3>4. roots \cap FreedLater = {} /\ \A v, w \in Vars : v # w => storage[v] # storage[w]
      BY <2>1, <3>2 DEF Owners
    <3>5. \A v \in Vars : storage[v] \notin roots \cup FreedLater /\ heap[storage[v]] = "live"
      BY <2>1, <3>2 DEF Owners, Held
    <3> QED BY <2>2, <3>3, <3>4, <3>5 DEF NothingIsLost, NotFree, Held
  <2> QED BY <2>2, <2>3 DEF NothingIsLost
<1> QED BY <1>1, AttemptsCorrect, PTL

(* A read sees the transaction's own last write, through every handle and  *)
(* whoever shares the variable's bit of the filter.                        *)
THEOREM OwnWritesCorrect ==
    ASSUME WhereUndone
    PROVE  Spec => []ReadsOwnWrites
<1>1. MemoryInv => ReadsOwnWrites
  BY DEF MemoryInv, Reads
<1> QED BY <1>1, AttemptsCorrect, PTL

(* remove_writes_from_reads: a commit validates what was read and not      *)
(* written, all of it and nothing else, in whatever order it was read.     *)
THEOREM ValidationCorrect ==
    ASSUME WhereUndone
    PROVE  Spec => []ValidatesTheRest
<1>1. MemoryInv => ValidatesTheRest
  BY DEF MemoryInv, Reads
<1> QED BY <1>1, AttemptsCorrect, PTL

(* An attempt that fails, by an exception, a retry or its commit, has not  *)
(* been: the failure callbacks undo it.                                    *)
THEOREM FailuresUndoCorrect ==
    ASSUME WhereUndone
    PROVE  Spec => FailuresUndo
<1>1. MemoryInv /\ [Next]_vars =>
          [tx_state = "read_write" /\ steps' < steps /\ ~(committing /\ stack' = <<>>)
             => /\ \A o \in Objects : AsBefore(o, heap'[o])
                /\ storage' = storage /\ roots' = roots /\ queue' = queue]_vars
  <2> SUFFICES ASSUME MemoryInv, Next, tx_state = "read_write", steps' < steps,
                      ~(committing /\ stack' = <<>>)
               PROVE  /\ \A o \in Objects : AsBefore(o, heap'[o])
                      /\ storage' = storage /\ roots' = roots /\ queue' = queue
    OBVIOUS
  <2>1. Fails
    BY FailsOrGoesOn
  <2> QED BY <2>1 DEF Fails, MemoryInv, Undoes
<1> QED BY <1>1, AttemptsCorrect, PTL DEF Spec, FailuresUndo
=============================================================================
