------------------------ MODULE QuiescenceBufferProofs ------------------------
(***************************************************************************)
(* The quiescence buffer is a queue of epochs, whatever its limit and      *)
(* however many callbacks are pushed, if no callback runs a transaction.   *)
(***************************************************************************)
EXTENDS QuiescenceBuffer, FiniteSetTheorems, TLAPS

(* Induction: a set of numbers that has 0 and the successor of each of its *)
(* members has all of them.                                                *)
LEMMA Induction ==
    ASSUME NEW S \in SUBSET Nat, 0 \in S, \A n \in S : n + 1 \in S
    PROVE  S = Nat
<1> SUFFICES ASSUME NEW n \in Nat, n \notin S
             PROVE  FALSE
  OBVIOUS
<1> DEFINE U == S \cap (0 .. n)
           f == [i \in U |-> i + 1]
<1>1. IsFiniteSet(U)
  <2>1. IsFiniteSet(0 .. n)
    BY FS_Interval
  <2> QED BY <2>1, FS_Subset
<1>2. f \in Injection(U, U \ {0})
  <2>1. \A i \in U : i < n /\ i + 1 \in U /\ i + 1 # 0
    OBVIOUS
  <2> QED BY <2>1 DEF Injection, IsInjective
<1>3. IsFiniteSet(U \ {0}) /\ Cardinality(U \ {0}) = Cardinality(U) - 1
  BY <1>1, FS_RemoveElement
<1>4. Cardinality(U) <= Cardinality(U \ {0})
  BY <1>2, <1>3, FS_Injection
<1>5. Cardinality(U) \in Nat
  BY <1>1, FS_CardinalityType
<1> QED BY <1>3, <1>4, <1>5
-----------------------------------------------------------------------------
(* Remainders *)

Positive == Nat \ {0}

LEMMA Remainder ==
    ASSUME NEW c \in Positive, NEW x \in Int
    PROVE  x % c \in 0 .. c - 1
BY DEF Positive

(* What the remainder is, if the quotient is known. *)
LEMMA RemainderIs ==
    ASSUME NEW c \in Positive, NEW x \in Int, NEW q \in Int, NEW m \in 0 .. c - 1, x = c * q + m
    PROVE  x % c = m
BY DEF Positive

LEMMA RemainderSmall ==
    ASSUME NEW c \in Positive, NEW x \in 0 .. c - 1
    PROVE  x % c = x
BY DEF Positive

LEMMA Quotient ==
    ASSUME NEW c \in Positive, NEW x \in Nat
    PROVE  \E q \in Nat, m \in 0 .. c - 1 : x = c * q + m
<1> DEFINE S == {y \in Nat : \E q \in Nat, m \in 0 .. c - 1 : y = c * q + m}
<1>1. 0 \in S
  <2>1. 0 = c * 0 + 0 /\ 0 \in 0 .. c - 1
    BY DEF Positive
  <2> QED BY <2>1
<1>2. ASSUME NEW y \in S
      PROVE  y + 1 \in S
  <2>1. PICK q \in Nat, m \in 0 .. c - 1 : y = c * q + m
    OBVIOUS
  <2>2. CASE m = c - 1
    <3>1. c * (q + 1) = c * q + c
      BY DEF Positive
    <3>2. c * q \in Nat
      BY DEF Positive
    <3>3. y + 1 = c * (q + 1) + 0 /\ q + 1 \in Nat /\ 0 \in 0 .. c - 1
      BY <2>1, <2>2, <3>1, <3>2 DEF Positive
    <3> QED BY <3>3
  <2>3. CASE m # c - 1
    <3>1. c * q \in Nat
      BY DEF Positive
    <3>2. y + 1 = c * q + (m + 1) /\ m + 1 \in 0 .. c - 1
      BY <2>1, <2>3, <3>1 DEF Positive
    <3> QED BY <3>2
  <2> QED BY <2>2, <2>3
<1>3. S = Nat
  <2> HIDE DEF S
  <2>1. S \in SUBSET Nat
    BY DEF S
  <2> QED BY <1>1, <1>2, <2>1, Induction
<1> QED BY <1>3

(* Adding to a number, and subtracting from it, is adding to its remainder *)
(* and subtracting from it, once around at most.                           *)
LEMMA RemainderPlus ==
    ASSUME NEW c \in Positive, NEW x \in Nat, NEW i \in 0 .. c
    PROVE  (x + i) % c = IF (x % c) + i < c THEN (x % c) + i ELSE (x % c) + i - c
<1>1. PICK q \in Nat, m \in 0 .. c - 1 : x = c * q + m
  BY Quotient
<1>2. x % c = m /\ c * q \in Int
  BY <1>1, RemainderIs DEF Positive
<1>3. CASE m + i < c
  <2>1. x + i = c * q + (m + i) /\ m + i \in 0 .. c - 1 /\ x + i \in Int
    BY <1>1, <1>2, <1>3 DEF Positive
  <2> QED BY <1>2, <1>3, <2>1, RemainderIs
<1>4. CASE ~(m + i < c)
  <2>1. c * (q + 1) = c * q + c
    BY DEF Positive
  <2>2. x + i = c * (q + 1) + (m + i - c) /\ m + i - c \in 0 .. c - 1 /\ x + i \in Int
    BY <1>1, <1>2, <1>4, <2>1 DEF Positive
  <2> QED BY <1>2, <1>4, <2>2, RemainderIs
<1> QED BY <1>3, <1>4

LEMMA RemainderMinus ==
    ASSUME NEW c \in Positive, NEW x \in Nat, NEW i \in 0 .. c
    PROVE  (x - i) % c = IF x % c >= i THEN (x % c) - i ELSE (x % c) - i + c
<1>1. PICK q \in Nat, m \in 0 .. c - 1 : x = c * q + m
  BY Quotient
<1>2. x % c = m /\ c * q \in Int
  BY <1>1, RemainderIs DEF Positive
<1>3. CASE m >= i
  <2>1. x - i = c * q + (m - i) /\ m - i \in 0 .. c - 1 /\ x - i \in Int
    BY <1>1, <1>2, <1>3 DEF Positive
  <2> QED BY <1>2, <1>3, <2>1, RemainderIs
<1>4. CASE ~(m >= i)
  <2>1. c * (q - 1) = c * q - c
    BY DEF Positive
  <2>2. x - i = c * (q - 1) + (m - i + c) /\ m - i + c \in 0 .. c - 1 /\ x - i \in Int
    BY <1>1, <1>2, <1>4, <2>1 DEF Positive
  <2> QED BY <1>2, <1>4, <2>2, RemainderIs
<1> QED BY <1>3, <1>4
-----------------------------------------------------------------------------
(* The ring *)

Elements == [callback : Nat, epoch : Nat, size : Nat, prev_size : Nat]

Rings ==
    {r \in [buffer : UNION {[0 .. n -> Elements] : n \in Nat}, last_valid_index : Nat,
            write_pos : Nat, epoch_begin : Nat, ring_begin : Nat] :
        /\ r.buffer \in [0 .. r.last_valid_index -> Elements]
        /\ r.ring_begin <= r.last_valid_index
        /\ r.epoch_begin <= r.last_valid_index}

(* The elements from the first one on. *)
At(r, i) == r.buffer[Wrap(r, r.ring_begin + i)]

LEMMA RingHas ==
    ASSUME NEW r \in Rings
    PROVE  /\ Capacity(r) \in Positive /\ Capacity(r) = r.last_valid_index + 1
           /\ r.last_valid_index \in Nat /\ r.write_pos \in Nat
           /\ r.epoch_begin \in 0 .. Capacity(r) - 1 /\ r.ring_begin \in 0 .. Capacity(r) - 1
           /\ r.buffer \in [0 .. Capacity(r) - 1 -> Elements]
           /\ \A x \in Int : Wrap(r, x) \in 0 .. Capacity(r) - 1
<1>1. r.last_valid_index \in Nat /\ r.write_pos \in Nat /\ r.epoch_begin \in Nat /\ r.ring_begin \in Nat
  BY DEF Rings
<1>2. r.buffer \in [0 .. r.last_valid_index -> Elements]
      /\ r.ring_begin <= r.last_valid_index /\ r.epoch_begin <= r.last_valid_index
  BY DEF Rings
<1>3. Capacity(r) = r.last_valid_index + 1 /\ Capacity(r) - 1 = r.last_valid_index
      /\ Capacity(r) \in Positive
  BY <1>1 DEF Capacity, Positive
<1>4. \A x \in Int : Wrap(r, x) \in 0 .. Capacity(r) - 1
  BY <1>3, Remainder DEF Wrap
<1>5. r.buffer \in [0 .. Capacity(r) - 1 -> Elements]
  BY <1>2, <1>3
<1>6. r.epoch_begin \in 0 .. Capacity(r) - 1 /\ r.ring_begin \in 0 .. Capacity(r) - 1
  BY <1>1, <1>2, <1>3
<1>7. Capacity(r) \in Positive /\ Capacity(r) = r.last_valid_index + 1
  BY <1>3
<1> QED BY <1>1, <1>4, <1>5, <1>6, <1>7

(* Where the element i of the ring is. *)
LEMMA Place ==
    ASSUME NEW r \in Rings, NEW i \in 0 .. Capacity(r)
    PROVE  Wrap(r, r.ring_begin + i) =
               IF r.ring_begin + i < Capacity(r) THEN r.ring_begin + i
               ELSE r.ring_begin + i - Capacity(r)
<1>1. PICK c \in Positive : c = Capacity(r)
  BY RingHas
<1>2. PICK b \in 0 .. c - 1 : b = r.ring_begin
  BY <1>1, RingHas
<1>3. b % c = b
  BY RemainderSmall
<1>4. b \in Nat /\ i \in 0 .. c
  BY <1>1, <1>2
<1>5. (b + i) % c = IF b + i < c THEN b + i ELSE b + i - c
  BY <1>3, <1>4, RemainderPlus
<1> QED BY <1>1, <1>2, <1>5 DEF Wrap

LEMMA PlacesDiffer ==
    ASSUME NEW r \in Rings, NEW i \in 0 .. Capacity(r) - 1, NEW j \in 0 .. Capacity(r) - 1,
           Wrap(r, r.ring_begin + i) = Wrap(r, r.ring_begin + j)
    PROVE  i = j
<1>1. PICK c \in Positive : c = Capacity(r)
  BY RingHas
<1>2. PICK b \in 0 .. c - 1 : b = r.ring_begin
  BY <1>1, RingHas
<1>3. i \in 0 .. c /\ j \in 0 .. c /\ i \in 0 .. c - 1 /\ j \in 0 .. c - 1
  BY <1>1 DEF Positive
<1>4. /\ Wrap(r, r.ring_begin + i) = IF b + i < c THEN b + i ELSE b + i - c
      /\ Wrap(r, r.ring_begin + j) = IF b + j < c THEN b + j ELSE b + j - c
  BY <1>1, <1>2, <1>3, Place
<1> QED BY <1>3, <1>4 DEF Positive

(* A position p that is so many elements from the first one is its place. *)
LEMMA PlaceOf ==
    ASSUME NEW r \in Rings, NEW p \in Nat
    PROVE  /\ Wrap(r, p - r.ring_begin) \in 0 .. Capacity(r) - 1
           /\ Wrap(r, r.ring_begin + Wrap(r, p - r.ring_begin)) = Wrap(r, p)
           /\ \A i \in 0 .. Capacity(r) - 1 :
                  Wrap(r, r.ring_begin + i) = Wrap(r, p) => Wrap(r, p - r.ring_begin) = i
<1>1. PICK c \in Positive : c = Capacity(r)
  BY RingHas
<1>2. PICK b \in 0 .. c - 1 : b = r.ring_begin
  BY <1>1, RingHas
<1>3. (p - b) % c = IF p % c >= b THEN (p % c) - b ELSE (p % c) - b + c
  <2>1. b \in 0 .. c
    BY DEF Positive
  <2> QED BY <2>1, RemainderMinus
<1>4. p % c \in 0 .. c - 1
  BY Remainder DEF Positive
<1>5. (p - b) % c \in 0 .. c - 1
  BY <1>3, <1>4 DEF Positive
<1>6. \A i \in 0 .. c - 1 : Wrap(r, r.ring_begin + i) = IF b + i < c THEN b + i ELSE b + i - c
  <2>1. ASSUME NEW i \in 0 .. c - 1
        PROVE  Wrap(r, r.ring_begin + i) = IF b + i < c THEN b + i ELSE b + i - c
    <3>1. i \in 0 .. Capacity(r)
      BY <1>1 DEF Positive
    <3> QED BY <1>1, <1>2, <3>1, Place
  <2> QED BY <2>1
<1>7. Wrap(r, p - r.ring_begin) = (p - b) % c /\ Wrap(r, p) = p % c
  BY <1>1, <1>2 DEF Wrap
<1>8. Wrap(r, r.ring_begin + Wrap(r, p - r.ring_begin)) = Wrap(r, p)
  BY <1>3, <1>4, <1>5, <1>6, <1>7 DEF Positive
<1>9. \A i \in 0 .. c - 1 : Wrap(r, r.ring_begin + i) = Wrap(r, p) => Wrap(r, p - r.ring_begin) = i
  BY <1>3, <1>4, <1>6, <1>7 DEF Positive
<1> QED BY <1>1, <1>5, <1>7, <1>8, <1>9

(* A ring whose working epoch is inside of it, or about to begin behind    *)
(* its last element.                                                       *)
Fits(r) == r \in Rings /\ Finalized(r) <= Size(r)

LEMMA Sizes ==
    ASSUME NEW r, Fits(r)
    PROVE  /\ Size(r) \in 0 .. Capacity(r) - 1 /\ Finalized(r) \in 0 .. Capacity(r) - 1
           /\ Finalized(r) <= Size(r)
           /\ WorkingEpochSize(r) = Size(r) - Finalized(r)
           /\ Wrap(r, r.ring_begin + Size(r)) = Wrap(r, r.write_pos)
           /\ Wrap(r, r.ring_begin + Finalized(r)) = r.epoch_begin
<1>1. r \in Rings /\ Finalized(r) <= Size(r)
  BY DEF Fits
<1>2. PICK c \in Positive : c = Capacity(r)
  BY <1>1, RingHas
<1>3. r.write_pos \in Nat /\ r.epoch_begin \in 0 .. c - 1 /\ r.ring_begin \in 0 .. c - 1
  BY <1>1, <1>2, RingHas
<1>4. /\ Size(r) \in 0 .. c - 1
      /\ Wrap(r, r.ring_begin + Size(r)) = Wrap(r, r.write_pos)
  BY <1>1, <1>2, <1>3, PlaceOf DEF Size
<1>5. /\ Finalized(r) \in 0 .. c - 1
      /\ Wrap(r, r.ring_begin + Finalized(r)) = Wrap(r, r.epoch_begin)
  BY <1>1, <1>2, <1>3, PlaceOf DEF Finalized
<1>6. Wrap(r, r.epoch_begin) = r.epoch_begin
  BY <1>2, <1>3, RemainderSmall DEF Wrap
<1>7. WorkingEpochSize(r) = IF Wrap(r, r.write_pos) >= r.epoch_begin
                            THEN Wrap(r, r.write_pos) - r.epoch_begin
                            ELSE Wrap(r, r.write_pos) - r.epoch_begin + c
  <2>1. r.epoch_begin \in 0 .. c
    BY <1>3 DEF Positive
  <2>2. (r.write_pos - r.epoch_begin) % c = IF r.write_pos % c >= r.epoch_begin
                                            THEN (r.write_pos % c) - r.epoch_begin
                                            ELSE (r.write_pos % c) - r.epoch_begin + c
    BY <1>3, <2>1, RemainderMinus
  <2> QED BY <1>2, <2>2 DEF WorkingEpochSize, Wrap
<1>8. \A i \in 0 .. c - 1 : Wrap(r, r.ring_begin + i) =
          IF r.ring_begin + i < c THEN r.ring_begin + i ELSE r.ring_begin + i - c
  <2>1. ASSUME NEW i \in 0 .. c - 1
        PROVE  Wrap(r, r.ring_begin + i) =
                   IF r.ring_begin + i < c THEN r.ring_begin + i ELSE r.ring_begin + i - c
    <3>1. i \in 0 .. Capacity(r)
      BY <1>2 DEF Positive
    <3> QED BY <1>1, <1>2, <3>1, Place
  <2> QED BY <2>1
<1>9. PICK s \in 0 .. c - 1 : s = Size(r)
  BY <1>4
<1>10. PICK d \in 0 .. c - 1 : d = Finalized(r)
  BY <1>5
<1>11. PICK b \in 0 .. c - 1 : b = r.ring_begin
  BY <1>3
<1>12. Wrap(r, r.write_pos) = IF b + s < c THEN b + s ELSE b + s - c
  BY <1>4, <1>8, <1>9, <1>11
<1>13. r.epoch_begin = IF b + d < c THEN b + d ELSE b + d - c
  BY <1>5, <1>6, <1>8, <1>10, <1>11
<1>14. WorkingEpochSize(r) = s - d
  BY <1>1, <1>7, <1>9, <1>10, <1>12, <1>13 DEF Positive
<1> QED BY <1>1, <1>2, <1>4, <1>5, <1>6, <1>9, <1>10, <1>14

(* The working epoch is behind the finalized ones, and so many elements    *)
(* before it are so many elements before its header.                       *)
LEMMA FromHeader ==
    ASSUME NEW r, Fits(r)
    PROVE  /\ \A j \in 0 .. Capacity(r) - 1 - Finalized(r) :
                  Wrap(r, r.epoch_begin + j) = Wrap(r, r.ring_begin + (Finalized(r) + j))
           /\ \A j \in 0 .. Finalized(r) :
                  r.buffer[Wrap(r, r.epoch_begin - j)] = At(r, Finalized(r) - j)
           /\ r.buffer[r.epoch_begin] = At(r, Finalized(r))
           /\ r.buffer[r.ring_begin] = At(r, 0)
<1>1. r \in Rings
  BY DEF Fits
<1>2. PICK c \in Positive : c = Capacity(r)
  BY <1>1, RingHas
<1>3. PICK d \in 0 .. c - 1 : d = Finalized(r)
  BY <1>2, Sizes
<1>4. PICK b \in 0 .. c - 1 : b = r.ring_begin
  BY <1>1, <1>2, RingHas
<1>5. PICK e \in 0 .. c - 1 : e = r.epoch_begin
  BY <1>1, <1>2, RingHas
<1>6. \A i \in 0 .. c - 1 : Wrap(r, b + i) = IF b + i < c THEN b + i ELSE b + i - c
  <2>1. ASSUME NEW i \in 0 .. c - 1
        PROVE  Wrap(r, b + i) = IF b + i < c THEN b + i ELSE b + i - c
    <3>1. i \in 0 .. Capacity(r)
      BY <1>2 DEF Positive
    <3> QED BY <1>1, <1>2, <1>4, <3>1, Place
  <2> QED BY <2>1
<1>7. e = IF b + d < c THEN b + d ELSE b + d - c
  <2>1. Wrap(r, b + d) = e
    BY <1>3, <1>4, <1>5, Sizes
  <2> QED BY <1>6, <2>1
<1>8. e % c = e /\ e \in Nat
  BY RemainderSmall
<1>9. ASSUME NEW j \in 0 .. c - 1 - d
      PROVE  Wrap(r, r.epoch_begin + j) = Wrap(r, r.ring_begin + (Finalized(r) + j))
  <2>1. j \in 0 .. c /\ d + j \in 0 .. c - 1
    BY DEF Positive
  <2>2. (e + j) % c = IF e + j < c THEN e + j ELSE e + j - c
    BY <1>8, <2>1, RemainderPlus
  <2>3. Wrap(r, b + (d + j)) = IF b + (d + j) < c THEN b + (d + j) ELSE b + (d + j) - c
    BY <1>6, <2>1
  <2>4. Wrap(r, e + j) = Wrap(r, b + (d + j))
    <3>1. (e + j) % c = Wrap(r, b + (d + j))
      BY <1>7, <2>1, <2>2, <2>3 DEF Positive
    <3> QED BY <1>2, <3>1 DEF Wrap
  <2> QED BY <1>3, <1>4, <1>5, <2>4
<1>10. ASSUME NEW j \in 0 .. d
       PROVE  r.buffer[Wrap(r, r.epoch_begin - j)] = At(r, Finalized(r) - j)
  <2>1. j \in 0 .. c /\ d - j \in 0 .. c - 1
    BY DEF Positive
  <2>2. (e - j) % c = IF e >= j THEN e - j ELSE e - j + c
    BY <1>8, <2>1, RemainderMinus
  <2>3. Wrap(r, b + (d - j)) = IF b + (d - j) < c THEN b + (d - j) ELSE b + (d - j) - c
    BY <1>6, <2>1
  <2>4. Wrap(r, e - j) = Wrap(r, b + (d - j))
    <3>1. (e - j) % c = Wrap(r, b + (d - j))
      BY <1>7, <2>1, <2>2, <2>3 DEF Positive
    <3> QED BY <1>2, <3>1 DEF Wrap
  <2> QED BY <1>3, <1>4, <1>5, <2>4 DEF At
<1>11. r.buffer[r.epoch_begin] = At(r, Finalized(r))
  BY Sizes DEF At
<1>12. r.buffer[r.ring_begin] = At(r, 0)
  <2>1. Wrap(r, b + 0) = b
    BY <1>4, <1>6 DEF Positive
  <2> QED BY <1>4, <2>1 DEF At
<1>13. 0 .. Capacity(r) - 1 - Finalized(r) = 0 .. c - 1 - d /\ 0 .. Finalized(r) = 0 .. d
  BY <1>2, <1>3
<1> QED BY <1>9, <1>10, <1>11, <1>12, <1>13

LEMMA AtType ==
    ASSUME NEW r \in Rings, NEW i \in Int
    PROVE  At(r, i) \in Elements
<1>1. r.ring_begin + i \in Int
  BY RingHas
<1>2. Wrap(r, r.ring_begin + i) \in 0 .. Capacity(r) - 1
  BY <1>1, RingHas
<1> QED BY <1>2, RingHas DEF At
-----------------------------------------------------------------------------
(* What the operations do to the elements *)

(* The element is written behind the others, ... *)
Written(r, element) == [r EXCEPT !.buffer[Wrap(r, r.write_pos)] = element, !.write_pos = @ + 1]

LEMMA WrittenIs ==
    ASSUME NEW r, Fits(r), NEW e \in Elements
    PROVE  /\ Written(r, e) \in Rings /\ Capacity(Written(r, e)) = Capacity(r)
           /\ Finalized(Written(r, e)) = Finalized(r)
           /\ \A i \in 0 .. Size(r) - 1 : At(Written(r, e), i) = At(r, i)
           /\ At(Written(r, e), Size(r)) = e
           /\ Wrap(Written(r, e), Written(r, e).write_pos) = Written(r, e).ring_begin
                <=> Size(r) = Capacity(r) - 1
           /\ Size(r) # Capacity(r) - 1 => Size(Written(r, e)) = Size(r) + 1
<1>1. r \in Rings
  BY DEF Fits
<1>2. PICK c \in Positive : c = Capacity(r)
  BY <1>1, RingHas
<1>3. PICK n \in 0 .. c - 1 : n = Size(r)
  BY <1>2, Sizes
<1>4. PICK b \in 0 .. c - 1 : b = r.ring_begin
  BY <1>1, <1>2, RingHas
<1>5. PICK p \in 0 .. c - 1 : p = Wrap(r, r.write_pos)
  BY <1>1, <1>2, RingHas
<1>6. PICK s : s = Written(r, e)
  OBVIOUS
<1>7. r.buffer \in [0 .. c - 1 -> Elements] /\ r.write_pos \in Nat /\ r.last_valid_index \in Nat
      /\ r.epoch_begin \in 0 .. c - 1 /\ c = r.last_valid_index + 1
  BY <1>1, <1>2, RingHas
<1>8. /\ s.buffer = [r.buffer EXCEPT ![p] = e] /\ s.write_pos = r.write_pos + 1
      /\ s.last_valid_index = r.last_valid_index /\ s.epoch_begin = r.epoch_begin
      /\ s.ring_begin = b
  <2>1. r \in [buffer : UNION {[0 .. m -> Elements] : m \in Nat}, last_valid_index : Nat,
               write_pos : Nat, epoch_begin : Nat, ring_begin : Nat]
    BY <1>1 DEF Rings
  <2> QED BY <1>4, <1>5, <1>6, <2>1 DEF Written
<1>9. s \in Rings
  <2>1. s.buffer \in [0 .. c - 1 -> Elements]
    BY <1>7, <1>8
  <2>2. s.buffer \in [0 .. r.last_valid_index -> Elements]
    <3>1. c - 1 = r.last_valid_index
      BY <1>7
    <3> QED BY <2>1, <3>1
  <2>3. s = [buffer |-> s.buffer, last_valid_index |-> s.last_valid_index,
             write_pos |-> s.write_pos, epoch_begin |-> s.epoch_begin,
             ring_begin |-> s.ring_begin]
    <3>1. r \in [buffer : UNION {[0 .. m -> Elements] : m \in Nat}, last_valid_index : Nat,
                 write_pos : Nat, epoch_begin : Nat, ring_begin : Nat]
      BY <1>1 DEF Rings
    <3> QED BY <1>6, <3>1 DEF Written
  <2>4. s.write_pos \in Nat /\ s.last_valid_index \in Nat /\ s.epoch_begin \in Nat
        /\ s.ring_begin \in Nat /\ s.ring_begin <= s.last_valid_index
        /\ s.epoch_begin <= s.last_valid_index
    BY <1>7, <1>8
  <2>5. s.buffer \in UNION {[0 .. m -> Elements] : m \in Nat}
    BY <1>7, <2>2
  <2>6. s.buffer \in [0 .. s.last_valid_index -> Elements]
    BY <1>8, <2>2
  <2> QED BY <2>3, <2>4, <2>5, <2>6 DEF Rings
<1>10. Capacity(s) = c /\ \A x : Wrap(s, x) = Wrap(r, x)
  BY <1>2, <1>8 DEF Capacity, Wrap
<1>11. Finalized(s) = Finalized(r)
  BY <1>4, <1>8, <1>10 DEF Finalized
<1>12. p = Wrap(r, b + n)
  BY <1>3, <1>4, <1>5, Sizes
<1>13. ASSUME NEW i \in 0 .. n - 1
       PROVE  At(s, i) = At(r, i)
  <2>1. i \in 0 .. c - 1 /\ n \in 0 .. c - 1 /\ i # n
    BY DEF Positive
  <2>2. Wrap(r, b + i) # p
    BY <1>1, <1>2, <1>4, <1>12, <2>1, PlacesDiffer
  <2>3. s.buffer[Wrap(r, b + i)] = r.buffer[Wrap(r, b + i)]
    BY <1>7, <1>8, <2>2
  <2> QED BY <1>4, <1>8, <1>10, <2>3 DEF At
<1>14. At(s, n) = e
  <2>1. s.buffer[p] = e
    BY <1>7, <1>8
  <2> QED BY <1>8, <1>10, <1>12, <2>1 DEF At
<1>15. Wrap(s, s.write_pos) = IF p + 1 < c THEN p + 1 ELSE p + 1 - c
  <2>1. 1 \in 0 .. c
    BY DEF Positive
  <2>2. r.write_pos % c = p
    BY <1>2, <1>5 DEF Wrap
  <2>3. (r.write_pos + 1) % c = IF p + 1 < c THEN p + 1 ELSE p + 1 - c
    BY <1>7, <2>1, <2>2, RemainderPlus
  <2> QED BY <1>8, <1>10, <2>3 DEF Wrap
<1>16. \A i \in 0 .. c - 1 : Wrap(r, b + i) = IF b + i < c THEN b + i ELSE b + i - c
  <2>1. ASSUME NEW i \in 0 .. c - 1
        PROVE  Wrap(r, b + i) = IF b + i < c THEN b + i ELSE b + i - c
    <3>1. i \in 0 .. Capacity(r)
      BY <1>2 DEF Positive
    <3> QED BY <1>1, <1>2, <1>4, <3>1, Place
  <2> QED BY <2>1
<1>17. p = IF b + n < c THEN b + n ELSE b + n - c
  BY <1>12, <1>16
<1>18. Wrap(s, s.write_pos) = s.ring_begin <=> n = c - 1
  BY <1>8, <1>15, <1>17 DEF Positive
<1>19. ASSUME n # c - 1
       PROVE  Size(s) = n + 1
  <2>1. n + 1 \in 0 .. c - 1
    BY <1>19 DEF Positive
  <2>2. Wrap(r, b + (n + 1)) = IF b + (n + 1) < c THEN b + (n + 1) ELSE b + (n + 1) - c
    BY <1>16, <2>1
  <2>3. Wrap(r, b + (n + 1)) = Wrap(s, s.write_pos)
    BY <1>15, <1>17, <2>2 DEF Positive
  <2>4. s.write_pos \in Nat /\ n + 1 \in 0 .. Capacity(s) - 1
        /\ Wrap(s, s.ring_begin + (n + 1)) = Wrap(s, s.write_pos)
    BY <1>7, <1>8, <1>10, <2>1, <2>3
  <2> QED BY <1>9, <2>4, PlaceOf DEF Size
<1> QED BY <1>2, <1>3, <1>6, <1>9, <1>10, <1>11, <1>13, <1>14, <1>18, <1>19

(* ... and if that fills the ring it doubles, with the same elements.      *)
LEMMA ReserveMoreIs ==
    ASSUME NEW s \in Rings
    PROVE  /\ ReserveMore(s) \in Rings
           /\ Size(ReserveMore(s)) = Capacity(s)
           /\ Finalized(ReserveMore(s)) = Finalized(s)
           /\ \A i \in 0 .. Capacity(s) - 1 : At(ReserveMore(s), i) = At(s, i)
<1>1. PICK c \in Positive : c = Capacity(s)
  BY RingHas
<1>2. PICK d \in 0 .. c - 1 : d = Finalized(s)
  <2>1. s.epoch_begin - s.ring_begin \in Int
    BY RingHas
  <2> QED BY <1>1, <2>1, RingHas DEF Finalized
<1>3. PICK t : t = ReserveMore(s)
  OBVIOUS
<1>4. PICK B : B = [i \in 0 .. 2 * c - 1 |-> IF i < c THEN s.buffer[Wrap(s, s.ring_begin + i)]
                                             ELSE Header(0)]
  OBVIOUS
<1>5. s \in [buffer : UNION {[0 .. m -> Elements] : m \in Nat}, last_valid_index : Nat,
             write_pos : Nat, epoch_begin : Nat, ring_begin : Nat]
  BY DEF Rings
<1>6. t = [s EXCEPT !.buffer = B, !.epoch_begin = d, !.write_pos = c,
                    !.last_valid_index = 2 * c - 1, !.ring_begin = 0]
  BY <1>1, <1>2, <1>3, <1>4 DEF ReserveMore, Finalized
<1>7. t = [buffer |-> B, last_valid_index |-> 2 * c - 1, write_pos |-> c, epoch_begin |-> d,
           ring_begin |-> 0]
  BY <1>5, <1>6
<1>8. B \in [0 .. 2 * c - 1 -> Elements]
  <2>1. ASSUME NEW i \in 0 .. 2 * c - 1
        PROVE  (IF i < c THEN s.buffer[Wrap(s, s.ring_begin + i)] ELSE Header(0)) \in Elements
    <3>1. s.buffer[Wrap(s, s.ring_begin + i)] \in Elements
      BY AtType DEF At, Positive
    <3>2. Header(0) \in Elements
      BY DEF Header, Elements
    <3> QED BY <3>1, <3>2
  <2> QED BY <1>4, <2>1
<1>9. t \in Rings
  <2>1. 2 * c - 1 \in Nat /\ c \in Nat /\ d \in Nat /\ 0 \in Nat /\ 0 <= 2 * c - 1
        /\ d <= 2 * c - 1
    BY DEF Positive
  <2>2. B \in UNION {[0 .. m -> Elements] : m \in Nat}
    BY <1>8, <2>1
  <2> QED BY <1>7, <1>8, <2>1, <2>2 DEF Rings
<1>10. PICK e \in Positive : e = Capacity(t) /\ e = 2 * c
  BY <1>7 DEF Capacity, Positive
<1>11. \A x \in 0 .. e - 1 : Wrap(t, x) = x
  BY <1>10, RemainderSmall DEF Wrap
<1>12. c \in 0 .. e - 1 /\ d \in 0 .. e - 1 /\ c - 0 = c /\ d - 0 = d
  BY <1>10 DEF Positive
<1>13. Size(t) = c
  BY <1>7, <1>11, <1>12 DEF Size
<1>14. Finalized(t) = d
  BY <1>7, <1>11, <1>12 DEF Finalized
<1>15. ASSUME NEW i \in 0 .. c - 1
       PROVE  At(t, i) = At(s, i)
  <2>1. i \in 0 .. e - 1 /\ 0 + i = i /\ i \in 0 .. 2 * c - 1 /\ i < c
    BY <1>10 DEF Positive
  <2>2. At(t, i) = B[i]
    BY <1>7, <1>11, <2>1 DEF At
  <2> QED BY <1>4, <2>1, <2>2 DEF At
<1> QED BY <1>1, <1>2, <1>3, <1>9, <1>13, <1>14, <1>15

LEMMA EmplaceIs ==
    ASSUME NEW r, Fits(r), NEW e \in Elements
    PROVE  /\ Fits(EmplaceBack(r, e))
           /\ Size(EmplaceBack(r, e)) = Size(r) + 1
           /\ Finalized(EmplaceBack(r, e)) = Finalized(r)
           /\ \A i \in 0 .. Size(r) - 1 : At(EmplaceBack(r, e), i) = At(r, i)
           /\ At(EmplaceBack(r, e), Size(r)) = e
<1>1. PICK s : s = Written(r, e)
  OBVIOUS
<1>2. EmplaceBack(r, e) = IF Wrap(s, s.write_pos) = s.ring_begin THEN ReserveMore(s) ELSE s
  BY <1>1 DEF EmplaceBack, Written
<1>3. /\ s \in Rings /\ Capacity(s) = Capacity(r) /\ Finalized(s) = Finalized(r)
      /\ \A i \in 0 .. Size(r) - 1 : At(s, i) = At(r, i)
      /\ At(s, Size(r)) = e
      /\ Wrap(s, s.write_pos) = s.ring_begin <=> Size(r) = Capacity(r) - 1
      /\ Size(r) # Capacity(r) - 1 => Size(s) = Size(r) + 1
  BY <1>1, WrittenIs
<1>4. PICK n \in Nat : n = Size(r)
  BY Sizes
<1>5. PICK d \in Nat : d = Finalized(r) /\ d <= n
  BY <1>4, Sizes
<1>6. CASE Size(r) = Capacity(r) - 1
  <2>1. EmplaceBack(r, e) = ReserveMore(s)
    BY <1>2, <1>3, <1>6
  <2>2. Capacity(s) = n + 1
    <3>1. r \in Rings
      BY DEF Fits
    <3>2. Capacity(r) \in Nat
      BY <3>1, RingHas DEF Positive
    <3> QED BY <1>3, <1>4, <1>6, <3>2
  <2>3. /\ ReserveMore(s) \in Rings /\ Size(ReserveMore(s)) = n + 1
        /\ Finalized(ReserveMore(s)) = d
        /\ \A i \in 0 .. n : At(ReserveMore(s), i) = At(s, i)
    <3>1. (n + 1) - 1 = n
      OBVIOUS
    <3> QED BY <1>3, <1>5, <2>2, <3>1, ReserveMoreIs
  <2>4. Fits(ReserveMore(s))
    BY <1>5, <2>3 DEF Fits
  <2>5. \A i \in 0 .. n - 1 : At(ReserveMore(s), i) = At(r, i)
    BY <1>3, <1>4, <2>3
  <2>6. At(ReserveMore(s), n) = e
    BY <1>3, <1>4, <2>3
  <2> QED BY <1>4, <1>5, <2>1, <2>3, <2>4, <2>5, <2>6
<1>7. CASE Size(r) # Capacity(r) - 1
  <2>1. EmplaceBack(r, e) = s /\ Size(s) = n + 1
    BY <1>2, <1>3, <1>4, <1>7
  <2>2. Fits(s)
    BY <1>3, <1>5, <2>1 DEF Fits
  <2> QED BY <1>3, <1>4, <2>1, <2>2
<1> QED BY <1>6, <1>7

(* The attempt's elements are dropped.                                     *)
LEMMA ClearIs ==
    ASSUME NEW r, Fits(r), Finalized(r) < Size(r)
    PROVE  /\ Fits(ClearWorkingEpoch(r))
           /\ Size(ClearWorkingEpoch(r)) = Finalized(r) + 1
           /\ Finalized(ClearWorkingEpoch(r)) = Finalized(r)
           /\ \A i \in Int : At(ClearWorkingEpoch(r), i) = At(r, i)
<1>1. r \in Rings
  BY DEF Fits
<1>2. PICK c \in Positive : c = Capacity(r)
  BY <1>1, RingHas
<1>3. PICK d \in 0 .. c - 1 : d = Finalized(r) /\ d + 1 \in 0 .. c - 1 /\ 1 \in 0 .. c - 1 - d
  BY <1>2, Sizes DEF Positive
<1>4. PICK s : s = ClearWorkingEpoch(r)
  OBVIOUS
<1>5. r \in [buffer : UNION {[0 .. m -> Elements] : m \in Nat}, last_valid_index : Nat,
             write_pos : Nat, epoch_begin : Nat, ring_begin : Nat]
  BY <1>1 DEF Rings
<1>6. /\ s.buffer = r.buffer /\ s.write_pos = r.epoch_begin + 1
      /\ s.last_valid_index = r.last_valid_index /\ s.epoch_begin = r.epoch_begin
      /\ s.ring_begin = r.ring_begin
  BY <1>4, <1>5 DEF ClearWorkingEpoch
<1>7. s.write_pos \in Nat
  BY <1>5, <1>6
<1>8. s \in Rings
  BY <1>1, <1>4, <1>5, <1>6, <1>7 DEF ClearWorkingEpoch, Rings
<1>9. Capacity(s) = c /\ \A x : Wrap(s, x) = Wrap(r, x)
  BY <1>2, <1>6 DEF Capacity, Wrap
<1>10. Finalized(s) = d
  BY <1>3, <1>6, <1>9 DEF Finalized
<1>11. \A i \in Int : At(s, i) = At(r, i)
  BY <1>6, <1>9 DEF At
<1>12. Size(s) = d + 1
  <2>1. Wrap(r, r.epoch_begin + 1) = Wrap(r, r.ring_begin + (d + 1))
    BY <1>2, <1>3, FromHeader
  <2>2. Wrap(s, s.ring_begin + (d + 1)) = Wrap(s, s.write_pos)
    BY <1>6, <1>9, <2>1
  <2> QED BY <1>3, <1>7, <1>8, <1>9, <2>2, PlaceOf DEF Size
<1>13. Fits(s)
  BY <1>3, <1>8, <1>10, <1>12 DEF Fits
<1> QED BY <1>3, <1>4, <1>10, <1>11, <1>12, <1>13

(* The working epoch is finalized, and another one begins behind it.       *)
LEMMA FinalizeIs ==
    ASSUME NEW r, Fits(r), Finalized(r) < Size(r), NEW epoch \in Nat
    PROVE  /\ Fits(FinalizeEpoch(r, epoch))
           /\ Size(FinalizeEpoch(r, epoch)) = Size(r) + 1
           /\ Finalized(FinalizeEpoch(r, epoch)) = Size(r)
           /\ \A i \in 0 .. Size(r) - 1 : i # Finalized(r) => At(FinalizeEpoch(r, epoch), i) = At(r, i)
           /\ At(FinalizeEpoch(r, epoch), Finalized(r)) =
                  [At(r, Finalized(r)) EXCEPT !.epoch = epoch, !.size = Size(r) - Finalized(r)]
           /\ At(FinalizeEpoch(r, epoch), Size(r)) = Header(Size(r) - Finalized(r))
<1>1. r \in Rings
  BY DEF Fits
<1>2. PICK c \in Positive : c = Capacity(r)
  BY <1>1, RingHas
<1>3. PICK n \in 0 .. c - 1 : n = Size(r)
  BY <1>2, Sizes
<1>4. PICK d \in 0 .. n - 1 : d = Finalized(r)
  BY <1>3, Sizes
<1>5. PICK b \in 0 .. c - 1 : b = r.ring_begin
  BY <1>1, <1>2, RingHas
<1>6. PICK h \in 0 .. c - 1 : h = r.epoch_begin /\ h = Wrap(r, b + d)
  BY <1>1, <1>2, <1>4, <1>5, RingHas, Sizes
<1>7. WorkingEpochSize(r) = n - d
  BY <1>3, <1>4, Sizes
<1>8. PICK p \in 0 .. c - 1 : p = Wrap(r, r.write_pos) /\ p = Wrap(r, b + n)
  <2>1. Wrap(r, r.write_pos) = Wrap(r, b + n)
    BY <1>3, <1>5, Sizes
  <2>2. r.write_pos \in Int
    BY <1>1, RingHas
  <2>3. Wrap(r, r.write_pos) \in 0 .. c - 1
    BY <1>1, <1>2, <2>2, RingHas
  <2> QED BY <2>1, <2>3
<1>9. PICK g : g = [At(r, d) EXCEPT !.epoch = epoch, !.size = n - d]
  OBVIOUS
<1>10. PICK s : s = [r EXCEPT !.buffer[r.epoch_begin].epoch = epoch,
                              !.buffer[r.epoch_begin].size = WorkingEpochSize(r),
                              !.epoch_begin = Wrap(r, r.write_pos)]
  OBVIOUS
<1>11. FinalizeEpoch(r, epoch) = EmplaceBack(s, Header(n - d))
  BY <1>7, <1>10 DEF FinalizeEpoch
<1>12. r \in [buffer : UNION {[0 .. m -> Elements] : m \in Nat}, last_valid_index : Nat,
              write_pos : Nat, epoch_begin : Nat, ring_begin : Nat]
  BY <1>1 DEF Rings
<1>13. r.buffer \in [0 .. c - 1 -> Elements] /\ r.write_pos \in Nat /\ r.last_valid_index \in Nat
       /\ c = r.last_valid_index + 1
  BY <1>1, <1>2, RingHas
<1>14. At(r, d) = r.buffer[h] /\ At(r, d) \in Elements
  BY <1>1, <1>5, <1>6, AtType DEF At
<1>15. g \in Elements
  <2>1. n - d \in Nat
    BY DEF Positive
  <2> QED BY <1>9, <1>14, <2>1 DEF Elements
<1>16. s = [buffer |-> [r.buffer EXCEPT ![h] = g], last_valid_index |-> r.last_valid_index,
            write_pos |-> r.write_pos, epoch_begin |-> p, ring_begin |-> b]
  <2>1. [[r.buffer EXCEPT ![h].epoch = epoch] EXCEPT ![h].size = n - d] = [r.buffer EXCEPT ![h] = g]
    <3>1. g = [[r.buffer[h] EXCEPT !.epoch = epoch] EXCEPT !.size = n - d]
      BY <1>9, <1>14
    <3>2. h \in DOMAIN r.buffer
      BY <1>6, <1>13
    <3>3. PICK f : f = [r.buffer EXCEPT ![h].epoch = epoch]
      OBVIOUS
    <3>4. f[h] = [r.buffer[h] EXCEPT !.epoch = epoch] /\ DOMAIN f = DOMAIN r.buffer
      BY <3>2, <3>3
    <3>5. [f EXCEPT ![h].size = n - d] = [f EXCEPT ![h] = g]
      BY <3>1, <3>4
    <3>6. [f EXCEPT ![h] = g] = [r.buffer EXCEPT ![h] = g]
      BY <3>2, <3>3, <3>4
    <3> QED BY <3>3, <3>5, <3>6
  <2> QED BY <1>5, <1>6, <1>7, <1>8, <1>10, <1>12, <2>1
<1>17. s \in Rings
  <2>1. s.buffer \in [0 .. c - 1 -> Elements] /\ c - 1 = r.last_valid_index
    BY <1>13, <1>15, <1>16
  <2>2. s.buffer \in [0 .. s.last_valid_index -> Elements]
    BY <1>16, <2>1
  <2>3. s.buffer \in UNION {[0 .. m -> Elements] : m \in Nat}
    BY <1>13, <1>16, <2>2
  <2>4. p \in Nat /\ b \in Nat /\ p <= r.last_valid_index /\ b <= r.last_valid_index
    BY <1>13
  <2> QED BY <1>13, <1>16, <2>2, <2>3, <2>4 DEF Rings
<1>18. Capacity(s) = c /\ \A x : Wrap(s, x) = Wrap(r, x)
  BY <1>2, <1>16 DEF Capacity, Wrap
<1>19. Size(s) = n
  BY <1>3, <1>5, <1>16, <1>18 DEF Size
<1>20. Finalized(s) = n
  <2>1. p % c = p
    BY RemainderSmall
  <2>2. Wrap(s, s.ring_begin + n) = Wrap(s, p) /\ p \in Nat /\ n \in 0 .. Capacity(s) - 1
    BY <1>8, <1>16, <1>18, <2>1 DEF Wrap
  <2>3. Wrap(s, p - s.ring_begin) = n
    BY <1>17, <2>2, PlaceOf
  <2> QED BY <1>16, <2>3 DEF Finalized
<1>21. Fits(s)
  BY <1>17, <1>19, <1>20 DEF Fits
<1>22. At(s, d) = g
  <2>1. s.buffer[h] = g
    BY <1>13, <1>16
  <2> QED BY <1>6, <1>16, <1>18, <2>1 DEF At
<1>23. ASSUME NEW i \in 0 .. n - 1, i # d
       PROVE  At(s, i) = At(r, i)
  <2>1. i \in 0 .. c - 1 /\ d \in 0 .. c - 1
    BY DEF Positive
  <2>2. Wrap(r, b + i) # h
    BY <1>1, <1>2, <1>5, <1>6, <1>23, <2>1, PlacesDiffer
  <2>3. s.buffer[Wrap(r, b + i)] = r.buffer[Wrap(r, b + i)]
    BY <1>13, <1>16, <2>2
  <2> QED BY <1>5, <1>16, <1>18, <2>3 DEF At
<1>24. PICK t : t = EmplaceBack(s, Header(n - d))
  OBVIOUS
<1>25. Header(n - d) \in Elements
  <2>1. n - d \in Nat
    BY DEF Positive
  <2> QED BY <2>1 DEF Header, Elements
<1>26. /\ Fits(t) /\ Size(t) = n + 1 /\ Finalized(t) = n
       /\ \A i \in 0 .. n - 1 : At(t, i) = At(s, i)
       /\ At(t, n) = Header(n - d)
  BY <1>19, <1>20, <1>21, <1>24, <1>25, EmplaceIs
<1>27. At(t, d) = g
  BY <1>22, <1>26
<1>28. \A i \in 0 .. n - 1 : i # d => At(t, i) = At(r, i)
  BY <1>23, <1>26
<1> QED BY <1>3, <1>4, <1>9, <1>11, <1>24, <1>26, <1>27, <1>28

(* The first k elements are removed.                                       *)
Removed(r, k) == [r EXCEPT !.ring_begin = Wrap(r, r.ring_begin + k)]

LEMMA RemovedIs ==
    ASSUME NEW r, Fits(r), NEW k \in 0 .. Finalized(r)
    PROVE  /\ Fits(Removed(r, k))
           /\ Size(Removed(r, k)) = Size(r) - k
           /\ Finalized(Removed(r, k)) = Finalized(r) - k
           /\ \A i \in 0 .. Size(r) - k : At(Removed(r, k), i) = At(r, k + i)
<1>1. r \in Rings
  BY DEF Fits
<1>2. PICK c \in Positive : c = Capacity(r)
  BY <1>1, RingHas
<1>3. PICK n \in 0 .. c - 1 : n = Size(r)
  BY <1>2, Sizes
<1>4. PICK d \in 0 .. n : d = Finalized(r) /\ k \in 0 .. d
  BY <1>3, Sizes
<1>5. PICK b \in 0 .. c - 1 : b = r.ring_begin
  BY <1>1, <1>2, RingHas
<1>6. PICK a \in 0 .. c - 1 : a = Wrap(r, b + k)
  <2>1. b + k \in Int
    BY <1>4 DEF Positive
  <2> QED BY <1>1, <1>2, <2>1, RingHas
<1>7. \A i \in 0 .. c - 1 : Wrap(r, b + i) = IF b + i < c THEN b + i ELSE b + i - c
  <2>1. ASSUME NEW i \in 0 .. c - 1
        PROVE  Wrap(r, b + i) = IF b + i < c THEN b + i ELSE b + i - c
    <3>1. i \in 0 .. Capacity(r)
      BY <1>2 DEF Positive
    <3> QED BY <1>1, <1>2, <1>5, <3>1, Place
  <2> QED BY <2>1
<1>8. PICK s : s = Removed(r, k)
  OBVIOUS
<1>9. r \in [buffer : UNION {[0 .. m -> Elements] : m \in Nat}, last_valid_index : Nat,
             write_pos : Nat, epoch_begin : Nat, ring_begin : Nat]
  BY <1>1 DEF Rings
<1>10. s = [buffer |-> r.buffer, last_valid_index |-> r.last_valid_index,
            write_pos |-> r.write_pos, epoch_begin |-> r.epoch_begin, ring_begin |-> a]
  BY <1>5, <1>6, <1>8, <1>9 DEF Removed
<1>11. s \in Rings
  <2>1. c = r.last_valid_index + 1 /\ r.last_valid_index \in Nat
    BY <1>1, <1>2, RingHas
  <2>2. a \in Nat /\ a <= r.last_valid_index
    BY <2>1
  <2> QED BY <1>1, <1>9, <1>10, <2>2 DEF Rings
<1>12. Capacity(s) = c /\ \A x : Wrap(s, x) = Wrap(r, x)
  BY <1>2, <1>10 DEF Capacity, Wrap
<1>13. ASSUME NEW i \in 0 .. n - k
       PROVE  Wrap(r, a + i) = Wrap(r, b + (k + i)) /\ i \in 0 .. c - 1
  <2>1. i \in 0 .. c /\ i \in 0 .. c - 1 /\ k \in 0 .. c - 1 /\ k + i \in 0 .. c - 1 /\ a \in Nat
    BY <1>4 DEF Positive
  <2>2. a % c = a
    BY RemainderSmall
  <2>3. (a + i) % c = IF a + i < c THEN a + i ELSE a + i - c
    BY <2>1, <2>2, RemainderPlus
  <2>4. a = IF b + k < c THEN b + k ELSE b + k - c
    BY <1>6, <1>7, <2>1
  <2>5. Wrap(r, b + (k + i)) = IF b + (k + i) < c THEN b + (k + i) ELSE b + (k + i) - c
    BY <1>7, <2>1
  <2>6. (a + i) % c = Wrap(r, b + (k + i))
    BY <2>1, <2>3, <2>4, <2>5 DEF Positive
  <2> QED BY <1>2, <2>1, <2>6 DEF Wrap
<1>14. \A i \in 0 .. n - k : At(s, i) = At(r, k + i)
  BY <1>5, <1>10, <1>12, <1>13 DEF At
<1>15. n - k \in 0 .. n - k /\ d - k \in 0 .. n - k /\ k + (n - k) = n /\ k + (d - k) = d
       /\ d - k <= n - k
  BY <1>4 DEF Positive
<1>16. Size(s) = n - k
  <2>1. r.write_pos \in Nat
    BY <1>1, RingHas
  <2>2. Wrap(r, b + n) = Wrap(r, r.write_pos)
    BY <1>3, <1>5, Sizes
  <2>3. Wrap(s, s.ring_begin + (n - k)) = Wrap(s, r.write_pos) /\ n - k \in 0 .. Capacity(s) - 1
    BY <1>10, <1>12, <1>13, <1>15, <2>2
  <2>4. Wrap(s, r.write_pos - s.ring_begin) = n - k
    BY <1>11, <2>1, <2>3, PlaceOf
  <2> QED BY <1>10, <2>4 DEF Size
<1>17. Finalized(s) = d - k
  <2>1. r.epoch_begin \in Nat /\ r.epoch_begin \in 0 .. c - 1
    BY <1>1, <1>2, <1>9, RingHas
  <2>2. Wrap(r, b + d) = r.epoch_begin /\ r.epoch_begin % c = r.epoch_begin
    BY <1>4, <1>5, <2>1, RemainderSmall, Sizes
  <2>3. Wrap(r, r.epoch_begin) = r.epoch_begin
    BY <1>2, <2>2 DEF Wrap
  <2>4. Wrap(s, s.ring_begin + (d - k)) = Wrap(s, r.epoch_begin) /\ d - k \in 0 .. Capacity(s) - 1
    BY <1>10, <1>12, <1>13, <1>15, <2>2, <2>3
  <2>5. Wrap(s, r.epoch_begin - s.ring_begin) = d - k
    BY <1>11, <2>1, <2>4, PlaceOf
  <2> QED BY <1>10, <2>5 DEF Finalized
<1>18. Fits(s)
  BY <1>11, <1>15, <1>16, <1>17 DEF Fits
<1> QED BY <1>3, <1>4, <1>8, <1>14, <1>16, <1>17, <1>18
-----------------------------------------------------------------------------
(* The epochs *)

(* The headers of the n epochs that are finalized, and of the working one: *)
(* each knows its own size and that of the epoch before it.                *)
Linked(r, o, n) ==
    /\ o \in [0 .. n -> Nat] /\ o[0] = 0 /\ o[n] = Finalized(r)
    /\ \A k \in 1 .. n : /\ At(r, o[k - 1]).size = o[k] - o[k - 1]
                         /\ At(r, o[k]).prev_size = o[k] - o[k - 1]
                         /\ o[k] - o[k - 1] >= 2

(* The callbacks of the elements behind i, and the epoch k.                *)
CallbacksFrom(r, i, count) == [j \in 1 .. count |-> At(r, i + j - 1).callback]

EpochAt(r, i) ==
    [epoch |-> At(r, i).epoch, callbacks |-> CallbacksFrom(r, i + 1, At(r, i).size - 1)]

LEMMA CallbacksOfIs ==
    ASSUME NEW r \in Rings, NEW i \in Int, NEW count \in Int
    PROVE  CallbacksOf(r, r.ring_begin + i, count) = CallbacksFrom(r, i, count)
<1>1. \A j \in 1 .. count : r.ring_begin + i + j - 1 = r.ring_begin + (i + j - 1)
  BY RingHas
<1> QED BY <1>1 DEF CallbacksOf, CallbacksFrom, At

LEMMA WorkingIs ==
    ASSUME NEW r, Fits(r)
    PROVE  CallbacksOf(r, r.epoch_begin + 1, WorkingEpochSize(r) - 1) =
               CallbacksFrom(r, Finalized(r) + 1, Size(r) - Finalized(r) - 1)
<1>1. PICK d \in Nat, n \in Nat : d = Finalized(r) /\ n = Size(r) /\ n <= Capacity(r) - 1 /\ d <= n
  BY Sizes
<1>2. Capacity(r) \in Nat /\ r.epoch_begin \in Nat /\ r.ring_begin \in Nat
  BY RingHas DEF Fits, Positive
<1>3. ASSUME NEW j \in 1 .. n - d - 1
      PROVE  r.buffer[Wrap(r, r.epoch_begin + 1 + j - 1)] = At(r, d + 1 + j - 1)
  <2>1. j \in 0 .. Capacity(r) - 1 - d /\ r.epoch_begin + 1 + j - 1 = r.epoch_begin + j
        /\ r.ring_begin + (d + 1 + j - 1) = r.ring_begin + (d + j)
    BY <1>1, <1>2
  <2>2. Wrap(r, r.epoch_begin + j) = Wrap(r, r.ring_begin + (d + j))
    BY <1>1, <2>1, FromHeader
  <2> QED BY <2>1, <2>2 DEF At
<1>4. WorkingEpochSize(r) = n - d
  BY <1>1, Sizes
<1> QED BY <1>1, <1>3, <1>4 DEF CallbacksOf, CallbacksFrom

LEMMA ConcatIs ==
    ASSUME NEW T, NEW m \in Nat, NEW s \in [1 .. m -> T], NEW a \in T
    PROVE  /\ <<a>> \o s \in [1 .. m + 1 -> T]
           /\ (<<a>> \o s)[1] = a
           /\ \A j \in 1 .. m : (<<a>> \o s)[j + 1] = s[j]
<1>1. s \in Seq(T) /\ Len(s) = m
  OBVIOUS
<1>2. <<a>> \in Seq(T) /\ Len(<<a>>) = 1 /\ <<a>>[1] = a
  OBVIOUS
<1>3. <<a>> \o s \in Seq(T) /\ Len(<<a>> \o s) = m + 1
  BY <1>1, <1>2
<1>4. (<<a>> \o s)[1] = a
  BY <1>1, <1>2
<1>5. ASSUME NEW j \in 1 .. m
      PROVE  (<<a>> \o s)[j + 1] = s[j]
  <2>1. j + 1 \in 1 .. Len(<<a>>) + Len(s) /\ j + 1 > Len(<<a>>) /\ (j + 1) - Len(<<a>>) = j
    BY <1>1, <1>2
  <2>2. PICK p \in Seq(T) : p = <<a>> /\ Len(p) = 1
    BY <1>2
  <2>3. \A i \in Len(p) + 1 .. Len(p) + Len(s) : (p \o s)[i] = s[i - Len(p)]
    BY <1>1
  <2> QED BY <1>1, <2>1, <2>2, <2>3
<1>6. <<a>> \o s \in [1 .. m + 1 -> T]
  <2>1. \A p \in Seq(T) : Len(p) = m + 1 => p \in [1 .. m + 1 -> T]
    OBVIOUS
  <2> QED BY <1>3, <2>1
<1> QED BY <1>4, <1>5, <1>6

LEMMA Prepend ==
    ASSUME NEW m \in Nat, NEW e, e = [j \in 1 .. m + 1 |-> e[j]]
    PROVE  <<e[1]>> \o [j \in 1 .. m |-> e[j + 1]] = e
<1>1. PICK T : \A j \in 1 .. m + 1 : e[j] \in T
  <2>1. \A j \in 1 .. m + 1 : e[j] \in {e[i] : i \in 1 .. m + 1}
    OBVIOUS
  <2> QED BY <2>1
<1>2. PICK s : s = [j \in 1 .. m |-> e[j + 1]]
  OBVIOUS
<1>3. PICK a : a = e[1]
  OBVIOUS
<1>4. s \in [1 .. m -> T] /\ a \in T
  BY <1>1, <1>2, <1>3
<1>5. PICK q : q = <<a>> \o s
  OBVIOUS
<1>6. q \in [1 .. m + 1 -> T] /\ q[1] = a /\ \A j \in 1 .. m : q[j + 1] = s[j]
  BY <1>4, <1>5, ConcatIs
<1>7. ASSUME NEW j \in 1 .. m + 1
      PROVE  q[j] = e[j]
  <2>1. CASE j = 1
    BY <1>3, <1>6, <2>1
  <2>2. CASE j # 1
    <3>1. j - 1 \in 1 .. m /\ (j - 1) + 1 = j
      BY <2>2
    <3> QED BY <1>2, <1>6, <3>1
  <2> QED BY <2>1, <2>2
<1>8. q = e
  BY <1>6, <1>7
<1> QED BY <1>2, <1>3, <1>5, <1>8

(* An epoch begins behind the ones before it.                              *)
LEMMA LinkedRises ==
    ASSUME NEW r, NEW n \in Nat, NEW o, Linked(r, o, n)
    PROVE  \A i \in 0 .. n : \A j \in i .. n : o[i] + 2 * (j - i) <= o[j]
<1> DEFINE P(m) == \A i \in 0 .. n : i + m <= n => o[i] + 2 * m <= o[i + m]
           S == {m \in Nat : P(m)}
<1>1. o \in [0 .. n -> Nat] /\ \A k \in 1 .. n : o[k] - o[k - 1] >= 2
  BY DEF Linked
<1>2. P(0)
  BY <1>1
<1>3. ASSUME NEW m \in Nat, P(m)
      PROVE  P(m + 1)
  <2> SUFFICES ASSUME NEW i \in 0 .. n, i + (m + 1) <= n
               PROVE  o[i] + 2 * (m + 1) <= o[i + (m + 1)]
    OBVIOUS
  <2>1. o[i] + 2 * m <= o[i + m]
    BY <1>3
  <2>2. i + m + 1 \in 1 .. n /\ (i + m + 1) - 1 = i + m /\ i + m + 1 = i + (m + 1)
    OBVIOUS
  <2>3. o[i + m + 1] - o[i + m] >= 2
    BY <1>1, <2>2
  <2>4. o[i] \in Nat /\ o[i + m] \in Nat /\ o[i + m + 1] \in Nat
    BY <1>1, <2>2
  <2> QED BY <2>1, <2>2, <2>3, <2>4
<1> HIDE DEF P
<1>4. S = Nat
  <2>1. S \in SUBSET Nat /\ 0 \in S /\ \A m \in S : m + 1 \in S
    BY <1>2, <1>3
  <2> QED BY <2>1, Induction
<1>5. ASSUME NEW i \in 0 .. n, NEW j \in i .. n
      PROVE  o[i] + 2 * (j - i) <= o[j]
  <2>1. j - i \in Nat /\ i + (j - i) = j /\ i + (j - i) <= n
    OBVIOUS
  <2>2. P(j - i)
    BY <1>4, <2>1
  <2> QED BY <2>1, <2>2 DEF P
<1> QED BY <1>5

LEMMA LinkedInOrder ==
    ASSUME NEW r, NEW n \in Nat, NEW o, Linked(r, o, n)
    PROVE  \A i \in 0 .. n : \A j \in i .. n : o[i] <= o[j]
<1> SUFFICES ASSUME NEW i \in 0 .. n, NEW j \in i .. n
             PROVE  o[i] <= o[j]
  OBVIOUS
<1>1. PICK x \in Nat, y \in Nat, z \in Nat : x = o[i] /\ y = o[j] /\ z = j - i
  BY DEF Linked
<1>2. o[i] + 2 * (j - i) <= o[j]
  BY LinkedRises
<1>3. x + 2 * z <= y
  BY <1>1, <1>2
<1>4. x <= y
  BY <1>3
<1> QED BY <1>1, <1>4

(* The function that Epochs defines exists, ...                            *)
EpochsBody(r, from, i) ==
    IF At(r, i).size \in 1 .. Finalized(r) - i
    THEN <<EpochAt(r, i)>> \o from[i + At(r, i).size]
    ELSE <<>>

LEMMA EpochsExist ==
    ASSUME NEW r, Fits(r)
    PROVE  \E from : from = [i \in 0 .. Finalized(r) |-> EpochsBody(r, from, i)]
<1>1. PICK d \in Nat : d = Finalized(r)
  BY Sizes
<1> DEFINE P(m) == m <= d => \E g : g = [i \in d - m .. d |-> EpochsBody(r, g, i)]
           S == {m \in Nat : P(m)}
<1>2. P(0)
  <2> DEFINE g == [i \in d - 0 .. d |-> <<>>]
  <2>1. ASSUME NEW i \in d - 0 .. d
        PROVE  EpochsBody(r, g, i) = <<>>
    <3>1. 1 .. d - i = {}
      OBVIOUS
    <3> QED BY <1>1, <3>1 DEF EpochsBody
  <2>2. g = [i \in d - 0 .. d |-> EpochsBody(r, g, i)]
    BY <2>1
  <2> HIDE DEF g
  <2> QED BY <2>2
<1>3. ASSUME NEW m \in Nat, P(m)
      PROVE  P(m + 1)
  <2> SUFFICES ASSUME m + 1 <= d
               PROVE  \E g : g = [i \in d - (m + 1) .. d |-> EpochsBody(r, g, i)]
    OBVIOUS
  <2>1. PICK f : f = [i \in d - m .. d |-> EpochsBody(r, f, i)]
    BY <1>3
  <2>2. PICK l \in Nat : l = d - (m + 1) /\ l + 1 = d - m /\ l < d
    OBVIOUS
  <2> DEFINE g == [i \in l .. d |-> IF i = l THEN EpochsBody(r, f, i) ELSE f[i]]
  <2>3. ASSUME NEW i \in l .. d
        PROVE  EpochsBody(r, g, i) = EpochsBody(r, f, i)
    <3>1. CASE At(r, i).size \in 1 .. d - i
      <4>1. i + At(r, i).size \in l .. d /\ i + At(r, i).size # l
        BY <3>1
      <4>2. g[i + At(r, i).size] = f[i + At(r, i).size]
        BY <4>1
      <4> HIDE DEF g
      <4> QED BY <4>2 DEF EpochsBody
    <3>2. CASE At(r, i).size \notin 1 .. d - i
      <4> HIDE DEF g
      <4> QED BY <1>1, <3>2 DEF EpochsBody
    <3> QED BY <3>1, <3>2
  <2>4. ASSUME NEW i \in l .. d
        PROVE  g[i] = EpochsBody(r, g, i)
    <3>1. CASE i = l
      <4>1. g[i] = EpochsBody(r, f, i)
        BY <3>1
      <4> HIDE DEF g
      <4> QED BY <2>3, <4>1
    <3>2. CASE i # l
      <4>1. g[i] = f[i] /\ i \in d - m .. d
        BY <2>2, <3>2
      <4>2. f[i] = EpochsBody(r, f, i)
        BY <2>1, <4>1
      <4> HIDE DEF g
      <4> QED BY <2>3, <4>1, <4>2
    <3> QED BY <3>1, <3>2
  <2>5. g = [i \in l .. d |-> g[i]]
    OBVIOUS
  <2> HIDE DEF g
  <2>6. g = [i \in l .. d |-> EpochsBody(r, g, i)]
    BY <2>4, <2>5
  <2> QED BY <2>2, <2>6
<1> HIDE DEF P
<1>4. S = Nat
  <2>1. S \in SUBSET Nat /\ 0 \in S /\ \A m \in S : m + 1 \in S
    BY <1>2, <1>3
  <2> QED BY <2>1, Induction
<1>5. P(d) /\ d - d = 0
  BY <1>4
<1> QED BY <1>1, <1>5 DEF P

LEMMA EpochsFrom ==
    ASSUME NEW r, Fits(r)
    PROVE  \E from : /\ Epochs(r) = from[0]
                     /\ from = [i \in 0 .. Finalized(r) |-> EpochsBody(r, from, i)]
<1> DEFINE Def(g) == [i \in 0 .. Finalized(r) |->
                         LET first == r.ring_begin + i
                             h == r.buffer[Wrap(r, first)]
                         IN  IF h.size \in 1 .. Finalized(r) - i
                             THEN <<[epoch |-> h.epoch,
                                     callbacks |-> CallbacksOf(r, first + 1, h.size - 1)]>>
                                  \o g[i + h.size]
                             ELSE <<>>]
           from == CHOOSE g : g = Def(g)
<1>1. Epochs(r) = from[0]
  BY DEF Epochs
<1>2. ASSUME NEW g
      PROVE  Def(g) = [i \in 0 .. Finalized(r) |-> EpochsBody(r, g, i)]
  <2>1. ASSUME NEW i \in 0 .. Finalized(r)
        PROVE  Def(g)[i] = EpochsBody(r, g, i)
    <3>1. r.buffer[Wrap(r, r.ring_begin + i)] = At(r, i) /\ r \in Rings
      BY DEF At, Fits
    <3>4. At(r, i) \in Elements /\ r.ring_begin \in Nat /\ Finalized(r) \in Nat
      BY <3>1, AtType, RingHas, Sizes
    <3>2. i + 1 \in Int /\ At(r, i).size - 1 \in Int /\ r.ring_begin + i + 1 = r.ring_begin + (i + 1)
      BY <3>4 DEF Elements
    <3>3. CallbacksOf(r, r.ring_begin + i + 1, At(r, i).size - 1) =
              CallbacksFrom(r, i + 1, At(r, i).size - 1)
      BY <3>1, <3>2, CallbacksOfIs
    <3> QED BY <3>1, <3>3 DEF EpochsBody, EpochAt
  <2> QED BY <2>1
<1> HIDE DEF Def
<1>3. from = Def(from)
  BY <1>2, EpochsExist
<1> HIDE DEF from
<1> QED BY <1>1, <1>2, <1>3

(* ... and has the epochs of the headers.                                  *)
LEMMA EpochsAre ==
    ASSUME NEW r, Fits(r), NEW n \in Nat, NEW o, Linked(r, o, n)
    PROVE  Epochs(r) = [k \in 1 .. n |-> EpochAt(r, o[k - 1])]
<1>1. PICK from : /\ Epochs(r) = from[0]
                  /\ from = [i \in 0 .. Finalized(r) |-> EpochsBody(r, from, i)]
  BY EpochsFrom
<1>2. PICK d \in Nat : d = Finalized(r)
  BY Sizes
<1>3. \A i \in 0 .. d : from[i] = EpochsBody(r, from, i)
  BY <1>1, <1>2
<1> DEFINE P(m) == m <= n => from[o[n - m]] = [j \in 1 .. m |-> EpochAt(r, o[n - m + j - 1])]
           S == {m \in Nat : P(m)}
<1>4. o \in [0 .. n -> Nat] /\ o[0] = 0 /\ o[n] = d
  BY <1>2 DEF Linked
<1>5. P(0)
  <2>1. o[n - 0] = d /\ d \in 0 .. d /\ 1 .. d - d = {}
    BY <1>4
  <2>2. from[d] = <<>>
    BY <1>2, <1>3, <2>1 DEF EpochsBody
  <2> QED BY <2>1, <2>2
<1>6. ASSUME NEW m \in Nat, P(m)
      PROVE  P(m + 1)
  <2> SUFFICES ASSUME m + 1 <= n
               PROVE  from[o[n - (m + 1)]] = [j \in 1 .. m + 1 |-> EpochAt(r, o[n - (m + 1) + j - 1])]
    OBVIOUS
  <2>1. PICK k \in 1 .. n : k = n - m /\ k - 1 = n - (m + 1) /\ k - 1 \in 0 .. n
    OBVIOUS
  <2>2. from[o[k]] = [j \in 1 .. m |-> EpochAt(r, o[k + j - 1])]
    BY <1>6, <2>1
  <2>3. At(r, o[k - 1]).size = o[k] - o[k - 1] /\ o[k] - o[k - 1] >= 2
    BY DEF Linked
  <2>4. o[k] + 2 * (n - k) <= o[n] /\ o[k] \in Nat /\ o[k - 1] \in Nat
    <3>1. k \in 0 .. n /\ n \in k .. n
      OBVIOUS
    <3> QED BY <1>4, <2>1, <3>1, LinkedRises
  <2>5. o[k] <= d /\ o[k - 1] \in 0 .. d
    BY <1>4, <2>3, <2>4
  <2>6. At(r, o[k - 1]).size \in 1 .. d - o[k - 1] /\ o[k - 1] + At(r, o[k - 1]).size = o[k]
    BY <2>3, <2>4, <2>5
  <2>7. from[o[k - 1]] = <<EpochAt(r, o[k - 1])>> \o from[o[k]]
    <3>1. from[o[k - 1]] = EpochsBody(r, from, o[k - 1])
      BY <1>3, <2>5
    <3> QED BY <1>2, <2>6, <3>1 DEF EpochsBody
  <2>8. PICK e : e = [j \in 1 .. m + 1 |-> EpochAt(r, o[n - (m + 1) + j - 1])]
    OBVIOUS
  <2>9. e = [j \in 1 .. m + 1 |-> e[j]]
    BY <2>8
  <2>10. <<e[1]>> \o [j \in 1 .. m |-> e[j + 1]] = e
    BY <2>9, Prepend
  <2>11. e[1] = EpochAt(r, o[k - 1])
    <3>1. 1 \in 1 .. m + 1 /\ n - (m + 1) + 1 - 1 = k - 1
      BY <2>1
    <3> QED BY <2>8, <3>1
  <2>12. ASSUME NEW j \in 1 .. m
         PROVE  e[j + 1] = EpochAt(r, o[k + j - 1])
    <3>1. j + 1 \in 1 .. m + 1 /\ n - (m + 1) + (j + 1) - 1 = k + j - 1
      BY <2>1
    <3> QED BY <2>8, <3>1
  <2>13. [j \in 1 .. m |-> e[j + 1]] = from[o[k]]
    BY <2>2, <2>12
  <2> QED BY <2>1, <2>7, <2>8, <2>10, <2>11, <2>13
<1> HIDE DEF P
<1>7. S = Nat
  <2>1. S \in SUBSET Nat /\ 0 \in S /\ \A m \in S : m + 1 \in S
    BY <1>5, <1>6
  <2> QED BY <2>1, Induction
<1>8. P(n) /\ n - n = 0 /\ n <= n
  BY <1>7
<1>9. from[0] = [j \in 1 .. n |-> EpochAt(r, o[0 + j - 1])]
  BY <1>4, <1>8 DEF P
<1>10. \A j \in 1 .. n : 0 + j - 1 = j - 1
  OBVIOUS
<1> QED BY <1>1, <1>9, <1>10

LEMMA AppendIs ==
    ASSUME NEW n \in Nat, NEW s, s = [k \in 1 .. n |-> s[k]], NEW a
    PROVE  Append(s, a) = [k \in 1 .. n + 1 |-> IF k = n + 1 THEN a ELSE s[k]]
<1>1. PICK T : a \in T /\ \A k \in 1 .. n : s[k] \in T
  <2>1. a \in {a} \cup {s[i] : i \in 1 .. n} /\ \A k \in 1 .. n : s[k] \in {a} \cup {s[i] : i \in 1 .. n}
    OBVIOUS
  <2> QED BY <2>1
<1>2. s \in Seq(T) /\ Len(s) = n
  BY <1>1
<1>3. PICK q : q = Append(s, a)
  OBVIOUS
<1>4. q \in Seq(T) /\ Len(q) = n + 1 /\ \A k \in 1 .. n + 1 : q[k] = IF k = n + 1 THEN a ELSE s[k]
  BY <1>1, <1>2, <1>3
<1>5. q = [k \in 1 .. n + 1 |-> q[k]]
  BY <1>4
<1> QED BY <1>3, <1>4, <1>5

LEMMA TailIs ==
    ASSUME NEW n \in Nat, n > 0, NEW s, s = [k \in 1 .. n |-> s[k]]
    PROVE  Tail(s) = [k \in 1 .. n - 1 |-> s[k + 1]]
<1>1. PICK T : \A k \in 1 .. n : s[k] \in T
  <2>1. \A k \in 1 .. n : s[k] \in {s[i] : i \in 1 .. n}
    OBVIOUS
  <2> QED BY <2>1
<1>2. s \in Seq(T) /\ Len(s) = n
  BY <1>1
<1>3. PICK q : q = Tail(s)
  OBVIOUS
<1>4. q \in Seq(T) /\ Len(q) = n - 1 /\ \A k \in 1 .. n - 1 : q[k] = s[k + 1]
  <2>1. s # <<>>
    BY <1>2
  <2> QED BY <1>2, <1>3, <2>1
<1>5. q = [k \in 1 .. n - 1 |-> q[k]]
  BY <1>4
<1> QED BY <1>3, <1>4, <1>5
-----------------------------------------------------------------------------
(* What the operations do to the epochs *)

LEMMA EpochAtIs ==
    ASSUME NEW r, NEW s, NEW i \in Nat, NEW j \in Nat, At(s, j) \in Elements,
           At(s, j).epoch = At(r, i).epoch, At(s, j).size = At(r, i).size,
           \A k \in 1 .. At(s, j).size - 1 : At(s, j + k).callback = At(r, i + k).callback
    PROVE  EpochAt(s, j) = EpochAt(r, i)
<1>1. PICK c \in Int : c = At(s, j).size - 1
  BY DEF Elements
<1>2. \A k \in 1 .. c : At(s, j + 1 + k - 1).callback = At(r, i + 1 + k - 1).callback
  <2>1. ASSUME NEW k \in 1 .. c
        PROVE  At(s, j + 1 + k - 1).callback = At(r, i + 1 + k - 1).callback
    <3>1. j + 1 + k - 1 = j + k /\ i + 1 + k - 1 = i + k
      OBVIOUS
    <3> QED BY <1>1, <3>1
  <2> QED BY <2>1
<1>3. CallbacksFrom(s, j + 1, c) = CallbacksFrom(r, i + 1, c)
  BY <1>2 DEF CallbacksFrom
<1> QED BY <1>1, <1>3 DEF EpochAt

(* Nothing changes in front of the working epoch.                          *)
LEMMA EpochsStay ==
    ASSUME NEW r, Fits(r), NEW s, Fits(s), Finalized(s) = Finalized(r),
           \A i \in 0 .. Finalized(r) : At(s, i) = At(r, i),
           NEW n \in Nat, NEW o, Linked(r, o, n)
    PROVE  Linked(s, o, n) /\ Epochs(s) = Epochs(r)
<1>1. PICK d \in Nat : d = Finalized(r)
  BY Sizes
<1>2. /\ o \in [0 .. n -> Nat] /\ o[0] = 0 /\ o[n] = d
      /\ \A k \in 1 .. n : /\ At(r, o[k - 1]).size = o[k] - o[k - 1]
                           /\ At(r, o[k]).prev_size = o[k] - o[k - 1]
                           /\ o[k] - o[k - 1] >= 2
  BY <1>1 DEF Linked
<1>3. ASSUME NEW k \in 1 .. n
      PROVE  o[k] \in 0 .. d /\ o[k - 1] \in 0 .. d /\ k - 1 \in 0 .. n
  <2>1. k \in 0 .. n /\ k - 1 \in 0 .. n /\ n \in k .. n /\ n \in k - 1 .. n
    OBVIOUS
  <2>2. o[k] + 2 * (n - k) <= o[n] /\ o[k - 1] + 2 * (n - (k - 1)) <= o[n]
    BY <2>1, LinkedRises
  <2>3. o[k] \in Nat /\ o[k - 1] \in Nat
    BY <1>2, <2>1
  <2> QED BY <1>2, <2>1, <2>2, <2>3
<1>4. Linked(s, o, n)
  <2>1. \A k \in 1 .. n : At(s, o[k - 1]) = At(r, o[k - 1]) /\ At(s, o[k]) = At(r, o[k])
    BY <1>1, <1>3
  <2> QED BY <1>1, <1>2, <2>1 DEF Linked
<1>5. ASSUME NEW k \in 1 .. n
      PROVE  EpochAt(s, o[k - 1]) = EpochAt(r, o[k - 1])
  <2>1. PICK i \in Nat : i = o[k - 1]
    BY <1>3
  <2>2. At(s, i) = At(r, i) /\ At(s, i) \in Elements /\ At(s, i).size = o[k] - i
    BY <1>1, <1>2, <1>3, <2>1, AtType DEF Fits
  <2>3. ASSUME NEW l \in 1 .. At(s, i).size - 1
        PROVE  At(s, i + l).callback = At(r, i + l).callback
    <3>1. i + l \in 0 .. d
      BY <1>3, <2>1, <2>2
    <3> QED BY <1>1, <3>1
  <2>4. EpochAt(s, i) = EpochAt(r, i)
    BY <2>2, <2>3, EpochAtIs
  <2> QED BY <2>1, <2>4
<1>6. Epochs(s) = [k \in 1 .. n |-> EpochAt(s, o[k - 1])]
  BY <1>4, EpochsAre
<1>7. Epochs(r) = [k \in 1 .. n |-> EpochAt(r, o[k - 1])]
  BY EpochsAre
<1>8. Epochs(s) = Epochs(r)
  BY <1>5, <1>6, <1>7
<1> QED BY <1>4, <1>8

(* The working epoch becomes the last one.                                 *)
LEMMA EpochsGrow ==
    ASSUME NEW r, Fits(r), Finalized(r) + 2 <= Size(r), NEW e \in Nat,
           NEW n \in Nat, NEW o, Linked(r, o, n)
    PROVE  /\ \E p : Linked(FinalizeEpoch(r, e), p, n + 1)
           /\ Epochs(FinalizeEpoch(r, e)) =
                  Append(Epochs(r),
                         [epoch |-> e,
                          callbacks |-> CallbacksFrom(r, Finalized(r) + 1, Size(r) - Finalized(r) - 1)])
<1>1. PICK d \in Nat, m \in Nat : d = Finalized(r) /\ m = Size(r) /\ d + 2 <= m
  BY Sizes
<1>2. PICK s : s = FinalizeEpoch(r, e)
  OBVIOUS
<1>3. /\ Fits(s) /\ Size(s) = m + 1 /\ Finalized(s) = m
      /\ \A i \in 0 .. m - 1 : i # d => At(s, i) = At(r, i)
      /\ At(s, d) = [At(r, d) EXCEPT !.epoch = e, !.size = m - d]
      /\ At(s, m) = Header(m - d)
  <2>1. Finalized(r) < Size(r)
    BY <1>1
  <2>2. /\ Fits(s) /\ Size(s) = Size(r) + 1 /\ Finalized(s) = Size(r)
        /\ \A i \in 0 .. Size(r) - 1 : i # Finalized(r) => At(s, i) = At(r, i)
        /\ At(s, Finalized(r)) = [At(r, Finalized(r)) EXCEPT !.epoch = e, !.size = Size(r) - Finalized(r)]
        /\ At(s, Size(r)) = Header(Size(r) - Finalized(r))
    BY <1>2, <2>1, FinalizeIs
  <2> QED BY <1>1, <2>2
<1>4. At(r, d) \in Elements
  BY AtType DEF Fits
<1>5. /\ At(s, d).epoch = e /\ At(s, d).size = m - d
      /\ At(s, d).callback = At(r, d).callback /\ At(s, d).prev_size = At(r, d).prev_size
  BY <1>3, <1>4 DEF Elements
<1>6. /\ o \in [0 .. n -> Nat] /\ o[0] = 0 /\ o[n] = d
      /\ \A k \in 1 .. n : /\ At(r, o[k - 1]).size = o[k] - o[k - 1]
                           /\ At(r, o[k]).prev_size = o[k] - o[k - 1]
                           /\ o[k] - o[k - 1] >= 2
  BY <1>1 DEF Linked
<1>7. ASSUME NEW k \in 1 .. n
      PROVE  o[k] \in 0 .. d /\ o[k - 1] \in 0 .. d - 2 /\ k - 1 \in 0 .. n
  <2>1. k \in 0 .. n /\ k - 1 \in 0 .. n /\ n \in k .. n /\ n \in k - 1 .. n
    OBVIOUS
  <2>2. o[k] + 2 * (n - k) <= o[n] /\ o[k - 1] + 2 * (n - (k - 1)) <= o[n]
    BY <2>1, LinkedRises
  <2>3. o[k] \in Nat /\ o[k - 1] \in Nat
    BY <1>6, <2>1
  <2> QED BY <1>6, <2>1, <2>2, <2>3
<1>8. PICK p : p = [k \in 0 .. n + 1 |-> IF k = n + 1 THEN m ELSE o[k]]
  OBVIOUS
<1>9. /\ p \in [0 .. n + 1 -> Nat] /\ p[n + 1] = m
      /\ \A k \in 0 .. n : p[k] = o[k]
  BY <1>6, <1>8
<1>10. Linked(s, p, n + 1)
  <2>1. ASSUME NEW k \in 1 .. n + 1
        PROVE  /\ At(s, p[k - 1]).size = p[k] - p[k - 1]
               /\ At(s, p[k]).prev_size = p[k] - p[k - 1]
               /\ p[k] - p[k - 1] >= 2
    <3>1. CASE k = n + 1
      <4>1. p[k] = m /\ k - 1 = n /\ n \in 0 .. n
        BY <1>9, <3>1
      <4>2. p[k - 1] = d
        BY <1>6, <1>9, <4>1
      <4>3. At(s, m).prev_size = m - d
        BY <1>3 DEF Header
      <4> QED BY <1>1, <1>5, <4>1, <4>2, <4>3
    <3>2. CASE k # n + 1
      <4>1. k \in 1 .. n /\ k \in 0 .. n /\ k - 1 \in 0 .. n
        BY <3>2
      <4>2. p[k] = o[k] /\ p[k - 1] = o[k - 1]
        BY <1>9, <4>1
      <4>3. o[k - 1] \in 0 .. m - 1 /\ o[k - 1] # d /\ o[k] \in 0 .. m - 1
        BY <1>1, <1>7, <4>1
      <4>4. At(s, o[k - 1]).size = At(r, o[k - 1]).size /\ At(s, o[k]).prev_size = At(r, o[k]).prev_size
        BY <1>3, <1>5, <4>3
      <4> QED BY <1>6, <4>1, <4>2, <4>4
    <3> QED BY <3>1, <3>2
  <2>2. 0 \in 0 .. n
    OBVIOUS
  <2>3. p[0] = 0
    BY <1>6, <1>9, <2>2
  <2> QED BY <1>3, <1>9, <2>1, <2>3 DEF Linked
<1>11. PICK E : E = Epochs(r)
  OBVIOUS
<1>12. E = [k \in 1 .. n |-> EpochAt(r, o[k - 1])]
  BY <1>11, EpochsAre
<1>13. Epochs(s) = [k \in 1 .. n + 1 |-> EpochAt(s, p[k - 1])]
  BY <1>3, <1>10, EpochsAre
<1>14. ASSUME NEW k \in 1 .. n
       PROVE  EpochAt(s, p[k - 1]) = E[k]
  <2>1. PICK i \in Nat : i = o[k - 1] /\ i <= d - 2
    BY <1>7
  <2>2. p[k - 1] = i
    BY <1>7, <1>9, <2>1
  <2>3. At(s, i) = At(r, i) /\ At(s, i).size = o[k] - i /\ o[k] \in 0 .. d /\ At(s, i) \in Elements
    <3>1. i \in 0 .. m - 1 /\ i # d
      BY <1>1, <2>1
    <3>2. At(s, i) = At(r, i)
      BY <1>3, <3>1
    <3>3. At(r, i) \in Elements
      BY <2>1, AtType DEF Fits
    <3> QED BY <1>6, <1>7, <2>1, <3>2, <3>3
  <2>4. ASSUME NEW l \in 1 .. At(s, i).size - 1
        PROVE  At(s, i + l).callback = At(r, i + l).callback
    <3>1. i + l \in 0 .. m - 1 /\ i + l # d
      BY <1>1, <2>1, <2>3
    <3> QED BY <1>3, <3>1
  <2>5. EpochAt(s, i) = EpochAt(r, i)
    BY <2>3, <2>4, EpochAtIs
  <2> QED BY <1>12, <2>1, <2>2, <2>5
<1>15. EpochAt(s, p[(n + 1) - 1]) =
          [epoch |-> e, callbacks |-> CallbacksFrom(r, d + 1, m - d - 1)]
  <2>1. p[(n + 1) - 1] = d
    BY <1>6, <1>9
  <2>2. ASSUME NEW k \in 1 .. m - d - 1
        PROVE  At(s, d + 1 + k - 1).callback = At(r, d + 1 + k - 1).callback
    <3>1. d + 1 + k - 1 \in 0 .. m - 1 /\ d + 1 + k - 1 # d
      BY <1>1
    <3> QED BY <1>3, <3>1
  <2>3. CallbacksFrom(s, d + 1, m - d - 1) = CallbacksFrom(r, d + 1, m - d - 1)
    BY <2>2 DEF CallbacksFrom
  <2> QED BY <1>5, <2>1, <2>3 DEF EpochAt
<1>16. PICK a : a = [epoch |-> e, callbacks |-> CallbacksFrom(r, d + 1, m - d - 1)]
  OBVIOUS
<1>17. Epochs(s) = Append(E, a)
  <2>1. PICK F : F = Epochs(s)
    OBVIOUS
  <2>2. F = [k \in 1 .. n + 1 |-> IF k = n + 1 THEN a ELSE E[k]]
    <3>1. ASSUME NEW k \in 1 .. n + 1
          PROVE  EpochAt(s, p[k - 1]) = IF k = n + 1 THEN a ELSE E[k]
      <4>1. CASE k = n + 1
        BY <1>15, <1>16, <4>1
      <4>2. CASE k # n + 1
        <5>1. k \in 1 .. n
          BY <4>2
        <5> QED BY <1>14, <4>2, <5>1
      <4> QED BY <4>1, <4>2
    <3> QED BY <1>13, <2>1, <3>1
  <2>3. E = [k \in 1 .. n |-> E[k]]
    BY <1>12
  <2>4. F = Append(E, a)
    BY <2>2, <2>3, AppendIs
  <2> QED BY <2>1, <2>4
<1> QED BY <1>1, <1>2, <1>10, <1>11, <1>16, <1>17

(* The first epoch is removed.                                             *)
LEMMA EpochsShrink ==
    ASSUME NEW r, Fits(r), NEW n \in Nat, n > 0, NEW o, Linked(r, o, n)
    PROVE  /\ o[1] \in 2 .. Finalized(r) /\ At(r, 0).size = o[1]
           /\ \E p : Linked(Removed(r, o[1]), p, n - 1)
           /\ Epochs(Removed(r, o[1])) = Tail(Epochs(r))
<1>1. PICK d \in Nat, m \in Nat : d = Finalized(r) /\ m = Size(r) /\ d <= m
  BY Sizes
<1>2. /\ o \in [0 .. n -> Nat] /\ o[0] = 0 /\ o[n] = d
      /\ \A k \in 1 .. n : /\ At(r, o[k - 1]).size = o[k] - o[k - 1]
                           /\ At(r, o[k]).prev_size = o[k] - o[k - 1]
                           /\ o[k] - o[k - 1] >= 2
  BY <1>1 DEF Linked
<1>3. ASSUME NEW k \in 1 .. n
      PROVE  o[k] \in 0 .. d /\ o[k - 1] \in 0 .. d /\ o[1] <= o[k] /\ k - 1 \in 0 .. n
  <2>1. k \in 0 .. n /\ k - 1 \in 0 .. n /\ n \in k .. n /\ n \in k - 1 .. n
        /\ 1 \in 0 .. n /\ k \in 1 .. n
    OBVIOUS
  <2>2. o[k] \in Nat /\ o[k - 1] \in Nat /\ o[1] \in Nat /\ o[n] = d
    BY <1>2, <2>1
  <2>3. o[k] <= o[n] /\ o[k - 1] <= o[n] /\ o[1] <= o[k]
    BY <1>2, <2>1, LinkedInOrder
  <2> QED BY <2>1, <2>2, <2>3
<1>4. PICK c \in 2 .. d : c = o[1]
  <2>1. 1 \in 1 .. n /\ 1 - 1 = 0
    OBVIOUS
  <2>2. o[1] - 0 >= 2 /\ o[1] \in 0 .. d
    BY <1>2, <1>3, <2>1
  <2> QED BY <2>2
<1>5. At(r, 0).size = c
  <2>1. 1 \in 1 .. n /\ 1 - 1 = 0
    OBVIOUS
  <2>2. At(r, o[0]).size = o[1] - o[0]
    BY <1>2, <2>1
  <2> QED BY <1>2, <1>4, <2>2
<1>6. PICK s : s = Removed(r, c)
  OBVIOUS
<1>7. /\ Fits(s) /\ Size(s) = m - c /\ Finalized(s) = d - c
      /\ \A i \in 0 .. m - c : At(s, i) = At(r, c + i)
  BY <1>1, <1>4, <1>6, RemovedIs
<1>8. PICK p : p = [k \in 0 .. n - 1 |-> o[k + 1] - c]
  OBVIOUS
<1>9. ASSUME NEW k \in 0 .. n - 1
      PROVE  p[k] = o[k + 1] - c /\ p[k] \in Nat /\ p[k] \in 0 .. d - c /\ c + p[k] = o[k + 1]
             /\ At(s, p[k]) = At(r, o[k + 1])
  <2>1. k + 1 \in 1 .. n
    OBVIOUS
  <2>2. o[k + 1] \in 0 .. d /\ c <= o[k + 1]
    BY <1>3, <1>4, <2>1
  <2>3. p[k] = o[k + 1] - c
    BY <1>8
  <2>4. p[k] \in 0 .. d - c /\ p[k] \in Nat /\ c + p[k] = o[k + 1] /\ p[k] \in 0 .. m - c
    BY <1>1, <2>2, <2>3
  <2> QED BY <1>7, <2>3, <2>4
<1>10. Linked(s, p, n - 1)
  <2>1. p \in [0 .. n - 1 -> Nat]
    BY <1>8, <1>9
  <2>2. p[0] = 0
    BY <1>4, <1>9
  <2>3. p[n - 1] = d - c
    BY <1>2, <1>9
  <2>4. ASSUME NEW k \in 1 .. n - 1
        PROVE  /\ At(s, p[k - 1]).size = p[k] - p[k - 1]
               /\ At(s, p[k]).prev_size = p[k] - p[k - 1]
               /\ p[k] - p[k - 1] >= 2
    <3>1. k \in 0 .. n - 1 /\ k - 1 \in 0 .. n - 1 /\ (k - 1) + 1 = k /\ k + 1 \in 1 .. n
          /\ (k + 1) - 1 = k /\ k \in 1 .. n
      OBVIOUS
    <3>2. p[k] = o[k + 1] - c /\ p[k - 1] = o[k] - c
          /\ At(s, p[k]) = At(r, o[k + 1]) /\ At(s, p[k - 1]) = At(r, o[k])
      BY <1>9, <3>1
    <3>3. o[k + 1] \in Int /\ o[k] \in Int
      BY <1>3, <3>1
    <3>4. p[k] - p[k - 1] = o[k + 1] - o[k]
      BY <3>2, <3>3
    <3> QED BY <1>2, <3>1, <3>2, <3>4
  <2> QED BY <1>7, <2>1, <2>2, <2>3, <2>4 DEF Linked
<1>11. PICK E : E = Epochs(r)
  OBVIOUS
<1>12. E = [k \in 1 .. n |-> EpochAt(r, o[k - 1])]
  BY <1>11, EpochsAre
<1>13. Epochs(s) = [k \in 1 .. n - 1 |-> EpochAt(s, p[k - 1])]
  BY <1>7, <1>10, EpochsAre
<1>14. ASSUME NEW k \in 1 .. n - 1
       PROVE  EpochAt(s, p[k - 1]) = E[k + 1]
  <2>1. k - 1 \in 0 .. n - 1 /\ (k - 1) + 1 = k /\ k + 1 \in 1 .. n /\ (k + 1) - 1 = k /\ k \in 1 .. n
    OBVIOUS
  <2>2. PICK i \in Nat, j \in Nat : i = o[k] /\ j = p[k - 1] /\ c + j = i /\ j \in 0 .. d - c
    BY <1>3, <1>9, <2>1
  <2>3. At(s, j) = At(r, i) /\ At(s, j).size = o[k + 1] - i /\ o[k + 1] \in 0 .. d /\ At(s, j) \in Elements
    <3>1. At(s, j) = At(r, i)
      BY <1>9, <2>1, <2>2
    <3>2. At(r, i) \in Elements
      BY <2>2, AtType DEF Fits
    <3> QED BY <1>2, <1>3, <2>1, <2>2, <3>1, <3>2
  <2>4. ASSUME NEW l \in 1 .. At(s, j).size - 1
        PROVE  At(s, j + l).callback = At(r, i + l).callback
    <3>1. j + l \in 0 .. m - c /\ c + (j + l) = i + l
      BY <1>1, <2>2, <2>3
    <3> QED BY <1>7, <3>1
  <2>5. EpochAt(s, j) = EpochAt(r, i)
    BY <2>3, <2>4, EpochAtIs
  <2>6. E[k + 1] = EpochAt(r, o[k])
    BY <1>12, <2>1
  <2> QED BY <2>2, <2>5, <2>6
<1>15. Epochs(s) = Tail(E)
  <2>1. PICK F : F = Epochs(s)
    OBVIOUS
  <2>2. F = [k \in 1 .. n - 1 |-> E[k + 1]]
    BY <1>13, <1>14, <2>1
  <2>3. E = [k \in 1 .. n |-> E[k]]
    BY <1>12
  <2>4. F = Tail(E)
    BY <2>2, <2>3, TailIs
  <2> QED BY <2>1, <2>4
<1> QED BY <1>1, <1>4, <1>5, <1>6, <1>10, <1>11, <1>15
-----------------------------------------------------------------------------
(* A ring between two operations, and what a queue of epochs sees of it.   *)

Chain(r) == Fits(r) /\ Finalized(r) < Size(r) /\ \E n \in Nat : \E o : Linked(r, o, n)

WorkingOf(r) == CallbacksOf(r, r.epoch_begin + 1, WorkingEpochSize(r) - 1)

LEMMA EmptyWorking ==
    ASSUME NEW r, Fits(r), Size(r) = Finalized(r) + 1
    PROVE  WorkingOf(r) = <<>>
<1>1. PICK d \in Nat : d = Finalized(r) /\ d + 1 = Size(r)
  BY Sizes
<1>2. WorkingOf(r) = CallbacksFrom(r, d + 1, (d + 1) - d - 1)
  BY <1>1, WorkingIs DEF WorkingOf
<1>3. (d + 1) - d - 1 = 0
  OBVIOUS
<1> QED BY <1>2, <1>3 DEF CallbacksFrom

LEMMA PushChain ==
    ASSUME NEW r, Chain(r), NEW e \in Elements, NEW s, s = EmplaceBack(r, e)
    PROVE  /\ Chain(s) /\ Size(s) = Size(r) + 1 /\ Finalized(s) = Finalized(r)
           /\ Epochs(s) = Epochs(r)
           /\ WorkingOf(s) = Append(WorkingOf(r), e.callback)
<1>0. PICK n \in Nat : \E o : Linked(r, o, n)
  BY DEF Chain
<1>1. Fits(r) /\ Finalized(r) < Size(r)
  BY DEF Chain
<1>2. PICK o : Linked(r, o, n)
  BY <1>0
<1>3. PICK d \in Nat, m \in Nat : d = Finalized(r) /\ m = Size(r) /\ d < m
  BY <1>1, Sizes
<1>4. /\ Fits(s) /\ Size(s) = m + 1 /\ Finalized(s) = d
      /\ \A i \in 0 .. m - 1 : At(s, i) = At(r, i)
      /\ At(s, m) = e
  BY <1>1, <1>3, EmplaceIs
<1>5. \A i \in 0 .. d : At(s, i) = At(r, i)
  BY <1>3, <1>4
<1>6. Linked(s, o, n) /\ Epochs(s) = Epochs(r)
  BY <1>1, <1>2, <1>3, <1>4, <1>5, EpochsStay
<1>7. Chain(s)
  BY <1>2, <1>3, <1>4, <1>6 DEF Chain
<1>8. PICK w : w = WorkingOf(r)
  OBVIOUS
<1>9. PICK l \in Nat : l = m - d - 1
  BY <1>3
<1>10. w = [j \in 1 .. l |-> At(r, d + 1 + j - 1).callback]
  BY <1>1, <1>3, <1>8, <1>9, WorkingIs DEF WorkingOf, CallbacksFrom
<1>11. WorkingOf(s) = [j \in 1 .. l + 1 |-> At(s, d + 1 + j - 1).callback]
  <2>1. (m + 1) - d - 1 = l + 1
    BY <1>3, <1>9
  <2>2. WorkingOf(s) = CallbacksFrom(s, d + 1, (m + 1) - d - 1)
    BY <1>4, WorkingIs DEF WorkingOf
  <2> QED BY <2>1, <2>2 DEF CallbacksFrom
<1>12. WorkingOf(s) = [j \in 1 .. l + 1 |-> IF j = l + 1 THEN e.callback ELSE w[j]]
  <2>1. ASSUME NEW j \in 1 .. l + 1
        PROVE  At(s, d + 1 + j - 1).callback = IF j = l + 1 THEN e.callback ELSE w[j]
    <3>1. CASE j = l + 1
      <4>1. d + 1 + j - 1 = m
        BY <1>3, <1>9, <3>1
      <4>2. At(s, d + 1 + j - 1) = e
        BY <1>4, <4>1
      <4> QED BY <3>1, <4>2
    <3>2. CASE j # l + 1
      <4>1. d + 1 + j - 1 \in 0 .. m - 1 /\ j \in 1 .. l
        BY <1>3, <1>9, <3>2
      <4> QED BY <1>4, <1>10, <3>2, <4>1
    <3> QED BY <3>1, <3>2
  <2> QED BY <1>11, <2>1
<1>13. w = [j \in 1 .. l |-> w[j]]
  BY <1>10
<1>14. WorkingOf(s) = Append(w, e.callback)
  BY <1>12, <1>13, AppendIs
<1> QED BY <1>3, <1>4, <1>6, <1>7, <1>8, <1>14

LEMMA ClearChain ==
    ASSUME NEW r, Chain(r), NEW s, s = ClearWorkingEpoch(r)
    PROVE  /\ Chain(s) /\ Size(s) = Finalized(s) + 1 /\ Finalized(s) = Finalized(r)
           /\ Epochs(s) = Epochs(r)
           /\ WorkingOf(s) = <<>>
<1>0. PICK n \in Nat : \E o : Linked(r, o, n)
  BY DEF Chain
<1>1. Fits(r) /\ Finalized(r) < Size(r)
  BY DEF Chain
<1>2. PICK o : Linked(r, o, n)
  BY <1>0
<1>3. PICK d \in Nat : d = Finalized(r)
  BY <1>1, Sizes
<1>4. /\ Fits(s) /\ Size(s) = d + 1 /\ Finalized(s) = d
      /\ \A i \in Int : At(s, i) = At(r, i)
  BY <1>1, <1>3, ClearIs
<1>5. \A i \in 0 .. d : At(s, i) = At(r, i)
  BY <1>4
<1>6. Linked(s, o, n) /\ Epochs(s) = Epochs(r)
  BY <1>1, <1>2, <1>3, <1>4, <1>5, EpochsStay
<1>7. Chain(s)
  BY <1>2, <1>3, <1>4, <1>6 DEF Chain
<1> QED BY <1>3, <1>4, <1>6, <1>7, EmptyWorking

LEMMA FinalizeChain ==
    ASSUME NEW r, Chain(r), Finalized(r) + 2 <= Size(r), NEW epoch \in Nat,
           NEW s, s = FinalizeEpoch(r, epoch)
    PROVE  /\ Chain(s) /\ Size(s) = Finalized(s) + 1 /\ Finalized(s) = Size(r)
           /\ Epochs(s) = Append(Epochs(r), [epoch |-> epoch, callbacks |-> WorkingOf(r)])
           /\ WorkingOf(s) = <<>>
<1>0. PICK n \in Nat : \E o : Linked(r, o, n)
  BY DEF Chain
<1>1. Fits(r) /\ Finalized(r) < Size(r)
  BY DEF Chain
<1>2. PICK o : Linked(r, o, n)
  BY <1>0
<1>3. PICK m \in Nat : m = Size(r)
  BY <1>1, Sizes
<1>4. Fits(s) /\ Size(s) = m + 1 /\ Finalized(s) = m
  BY <1>1, <1>3, FinalizeIs
<1>5. /\ \E p : Linked(s, p, n + 1)
      /\ Epochs(s) = Append(Epochs(r),
                            [epoch |-> epoch,
                             callbacks |-> CallbacksFrom(r, Finalized(r) + 1, Size(r) - Finalized(r) - 1)])
  BY <1>1, <1>2, EpochsGrow
<1>6. Chain(s)
  <2>1. n + 1 \in Nat /\ m < m + 1
    OBVIOUS
  <2> QED BY <1>4, <1>5, <2>1 DEF Chain
<1>7. WorkingOf(r) = CallbacksFrom(r, Finalized(r) + 1, Size(r) - Finalized(r) - 1)
  BY <1>1, WorkingIs DEF WorkingOf
<1>8. WorkingOf(s) = <<>>
  BY <1>4, EmptyWorking
<1> QED BY <1>3, <1>4, <1>5, <1>6, <1>7, <1>8

LEMMA RetireChain ==
    ASSUME NEW r, Chain(r), Finalized(r) > 0, Size(r) = Finalized(r) + 1,
           NEW s, s = Removed(r, At(r, 0).size)
    PROVE  /\ Chain(s) /\ Size(s) = Finalized(s) + 1
           /\ Epochs(s) = Tail(Epochs(r))
           /\ WorkingOf(s) = WorkingOf(r)
<1>0. PICK n \in Nat : \E o : Linked(r, o, n)
  BY DEF Chain
<1>1. Fits(r) /\ Finalized(r) < Size(r)
  BY DEF Chain
<1>2. PICK o : Linked(r, o, n)
  BY <1>0
<1>3. n > 0
  BY <1>2 DEF Linked
<1>4. /\ o[1] \in 2 .. Finalized(r) /\ At(r, 0).size = o[1]
      /\ \E p : Linked(Removed(r, o[1]), p, n - 1)
      /\ Epochs(Removed(r, o[1])) = Tail(Epochs(r))
  BY <1>1, <1>2, <1>3, EpochsShrink
<1>5. s = Removed(r, o[1])
  BY <1>4
<1>6. PICK k \in Nat, d \in Nat : k = o[1] /\ d = Finalized(r) /\ k <= d /\ k \in 0 .. Finalized(r)
  BY <1>1, <1>4, Sizes
<1>7. Fits(s) /\ Size(s) = Size(r) - k /\ Finalized(s) = Finalized(r) - k
  BY <1>1, <1>5, <1>6, RemovedIs
<1>8. Size(s) = Finalized(s) + 1 /\ Finalized(s) \in Nat
  BY <1>6, <1>7
<1>9. Chain(s)
  <2>1. n - 1 \in Nat
    BY <1>3
  <2> QED BY <1>4, <1>5, <1>7, <1>8, <2>1 DEF Chain
<1>10. WorkingOf(s) = <<>> /\ WorkingOf(r) = <<>>
  BY <1>1, <1>7, <1>8, EmptyWorking
<1> QED BY <1>4, <1>5, <1>8, <1>9, <1>10

(* What is found at the first header, and from the working one.            *)
LEMMA FirstOfChain ==
    ASSUME NEW r, Chain(r), Finalized(r) > 0
    PROVE  /\ At(r, 0).size \in Nat /\ At(r, 0).size >= 2
           /\ At(r, 0).size \in 0 .. Finalized(r)
           /\ Epochs(r) # <<>>
           /\ Head(Epochs(r)).callbacks = CallbacksFrom(r, 1, At(r, 0).size - 1)
<1>0. PICK n \in Nat : \E o : Linked(r, o, n)
  BY DEF Chain
<1>1. Fits(r)
  BY DEF Chain
<1>2. PICK o : Linked(r, o, n)
  BY <1>0
<1>3. n > 0 /\ o[0] = 0
  BY <1>2 DEF Linked
<1>4. o[1] \in 2 .. Finalized(r) /\ At(r, 0).size = o[1]
  BY <1>1, <1>2, <1>3, EpochsShrink
<1>5. Epochs(r) = [k \in 1 .. n |-> EpochAt(r, o[k - 1])]
  BY <1>1, <1>2, EpochsAre
<1>6. 1 \in 1 .. n /\ 1 - 1 = 0
  BY <1>3
<1>7. Epochs(r)[1] = EpochAt(r, 0) /\ Head(Epochs(r)) = EpochAt(r, 0) /\ Epochs(r) # <<>>
  <2>1. PICK E : E = Epochs(r)
    OBVIOUS
  <2>2. E[1] = EpochAt(r, 0)
    BY <1>3, <1>5, <1>6, <2>1
  <2>3. PICK T : \A k \in 1 .. n : EpochAt(r, o[k - 1]) \in T
    <3>1. \A k \in 1 .. n : EpochAt(r, o[k - 1]) \in {EpochAt(r, o[i - 1]) : i \in 1 .. n}
      OBVIOUS
    <3> QED BY <3>1
  <2>4. E \in Seq(T) /\ Len(E) = n
    BY <1>5, <2>1, <2>3
  <2>5. E # <<>> /\ Head(E) = E[1]
    BY <1>3, <2>4
  <2> QED BY <2>1, <2>2, <2>5
<1>8. EpochAt(r, 0).callbacks = CallbacksFrom(r, 1, At(r, 0).size - 1)
  <2>1. 0 + 1 = 1
    OBVIOUS
  <2> QED BY <2>1 DEF EpochAt
<1>9. At(r, 0).size \in Nat /\ At(r, 0).size >= 2 /\ At(r, 0).size \in 0 .. Finalized(r)
  <2>1. PICK m : m = At(r, 0).size
    OBVIOUS
  <2>2. Finalized(r) \in Nat
    BY <1>1, Sizes
  <2>3. m \in 2 .. Finalized(r)
    BY <1>4, <2>1
  <2>4. m \in Nat /\ m >= 2 /\ m \in 0 .. Finalized(r)
    BY <2>2, <2>3
  <2> QED BY <2>1, <2>4
<1> QED BY <1>7, <1>8, <1>9

LEMMA LinksOfChain ==
    ASSUME NEW r, Chain(r), NEW E, E = Epochs(r), E # <<>>
    PROVE  /\ BackEpoch(r) = E[Len(E)].epoch
           /\ r.buffer[Wrap(r, r.ring_begin + r.buffer[r.ring_begin].size)].prev_size =
                  r.buffer[r.ring_begin].size
<1>0. PICK n \in Nat : \E o : Linked(r, o, n)
  BY DEF Chain
<1>1. Fits(r)
  BY DEF Chain
<1>2. PICK o : Linked(r, o, n)
  BY <1>0
<1>3. E = [k \in 1 .. n |-> EpochAt(r, o[k - 1])]
  BY <1>1, <1>2, EpochsAre
<1>4. n > 0
  <2>1. ASSUME n = 0
        PROVE  FALSE
    <3>1. 1 .. n = {}
      BY <2>1
    <3>2. E = <<>>
      BY <1>3, <3>1
    <3> QED BY <3>2
  <2> QED BY <2>1
<1>5. Len(E) = n
  <2>1. PICK T : \A k \in 1 .. n : EpochAt(r, o[k - 1]) \in T
    <3>1. \A k \in 1 .. n : EpochAt(r, o[k - 1]) \in {EpochAt(r, o[i - 1]) : i \in 1 .. n}
      OBVIOUS
    <3> QED BY <3>1
  <2> QED BY <1>3, <2>1
<1>6. PICK d \in Nat : d = Finalized(r)
  BY <1>1, Sizes
<1>7. /\ o \in [0 .. n -> Nat] /\ o[0] = 0 /\ o[n] = d
      /\ \A k \in 1 .. n : /\ At(r, o[k - 1]).size = o[k] - o[k - 1]
                           /\ At(r, o[k]).prev_size = o[k] - o[k - 1]
                           /\ o[k] - o[k - 1] >= 2
  BY <1>2, <1>6 DEF Linked
<1>8. n \in 1 .. n /\ n \in 0 .. n /\ n - 1 \in 0 .. n /\ 1 \in 1 .. n /\ 1 - 1 = 0 /\ 1 \in 0 .. n
  BY <1>4
<1>9. PICK b \in Nat, c \in Nat : b = o[n - 1] /\ c = o[1]
  BY <1>7, <1>8
<1>10. BackEpoch(r) = E[n].epoch
  <2>1. r.buffer[r.epoch_begin] = At(r, d) /\ At(r, d).prev_size = d - b /\ d - b \in 0 .. d
        /\ d - (d - b) = b
    <3>1. r.buffer[r.epoch_begin] = At(r, d)
      BY <1>1, <1>6, FromHeader
    <3>2. At(r, o[n]).prev_size = o[n] - o[n - 1] /\ o[n] - o[n - 1] >= 2
      BY <1>7, <1>8
    <3>3. At(r, d).prev_size = d - b /\ d - b >= 2
      BY <1>7, <1>9, <3>2
    <3> QED BY <3>1, <3>3
  <2>2. r.buffer[Wrap(r, r.epoch_begin - (d - b))] = At(r, d - (d - b))
    BY <1>1, <1>6, <2>1, FromHeader
  <2>3. BackEpoch(r) = At(r, b).epoch
    BY <2>1, <2>2 DEF BackEpoch
  <2>4. E[n].epoch = At(r, b).epoch
    BY <1>3, <1>8, <1>9 DEF EpochAt
  <2> QED BY <2>3, <2>4
<1>11. r.buffer[r.ring_begin] = At(r, 0) /\ At(r, 0).size = c /\ At(r, c).prev_size = c
  <2>1. At(r, o[1 - 1]).size = o[1] - o[1 - 1] /\ At(r, o[1]).prev_size = o[1] - o[1 - 1]
    BY <1>7, <1>8
  <2>2. At(r, 0).size = c - 0 /\ At(r, c).prev_size = c - 0
    BY <1>7, <1>8, <1>9, <2>1
  <2> QED BY <1>1, <2>2, FromHeader
<1>12. r.buffer[Wrap(r, r.ring_begin + r.buffer[r.ring_begin].size)] = At(r, c)
  BY <1>11 DEF At
<1> QED BY <1>5, <1>10, <1>11, <1>12
-----------------------------------------------------------------------------
(* The invariant: the headers are linked, a callback was pushed for every  *)
(* epoch that is or may be finalized, and a loop, of which there is one at *)
(* most, is somewhere in the first epoch.                                  *)

Loops ==
    [pc : {"front", "loop", "called", "decide"}, cur_idx : Nat, end : Nat, min_epoch : Nat]

Loop(r, f) ==
    /\ f \in Loops
    /\ Size(r) = Finalized(r) + 1
    /\ f.pc # "decide" => Finalized(r) > 0
    /\ f.pc \in {"loop", "called"} =>
           /\ f.end = r.ring_begin + At(r, 0).size
           /\ f.cur_idx \in r.ring_begin + 1 .. f.end
    /\ f.pc = "called" => f.cur_idx # f.end

RingInv ==
    /\ Chain(ring)
    /\ pushed \in 0 .. MaxCallbacks /\ clock \in Nat
    /\ clock + (Size(ring) - Finalized(ring) - 1) <= pushed
    /\ frames = <<>> \/ \E f : frames = <<f>> /\ Loop(ring, f)

Running ==
    IF ~Busy THEN <<>>
    ELSE LET called == IF frames[1].pc = "called" THEN 1 ELSE 0
             from == frames[1].cur_idx + called
         IN  CallbacksOf(ring, from, frames[1].end - from)

(* What the refinement has to keep, for steps that are none of the queue's. *)
Unseen ==
    /\ WorkingOf(ring)' = WorkingOf(ring) /\ Epochs(ring)' = Epochs(ring)
    /\ Busy' = Busy /\ Running' = Running

LEMMA InitInv == Init => RingInv
<1> SUFFICES ASSUME Init
             PROVE  RingInv
  OBVIOUS
<1>1. PICK c \in Positive : c = 2 * ReclaimLimit
  BY LimitAssumption DEF Positive
<1>2. PICK r : r = ring
  OBVIOUS
<1>3. r = [buffer |-> [i \in 0 .. c - 1 |-> Header(0)], last_valid_index |-> c - 1,
           write_pos |-> 1, epoch_begin |-> 0, ring_begin |-> 0]
  BY <1>1, <1>2 DEF Init
<1>4. r \in Rings
  <2>1. Header(0) \in Elements
    BY DEF Header, Elements
  <2>2. c - 1 \in Nat
    BY DEF Positive
  <2>3. [i \in 0 .. c - 1 |-> Header(0)] \in [0 .. c - 1 -> Elements]
    BY <2>1
  <2>4. [i \in 0 .. c - 1 |-> Header(0)] \in UNION {[0 .. n -> Elements] : n \in Nat}
    BY <2>2, <2>3
  <2> QED BY <1>3, <2>2, <2>3, <2>4 DEF Rings
<1>5. Capacity(r) = c /\ 1 \in 0 .. c - 1 /\ 0 \in 0 .. c - 1
  BY <1>1, <1>3, LimitAssumption DEF Capacity, Positive
<1>6. Size(r) = 1
  <2>1. Wrap(r, 1) = 1
    BY <1>5, RemainderSmall DEF Wrap
  <2>2. 1 - 0 = 1
    OBVIOUS
  <2> QED BY <1>3, <2>1, <2>2 DEF Size
<1>7. Finalized(r) = 0
  <2>1. Wrap(r, 0) = 0
    BY <1>5, RemainderSmall DEF Wrap
  <2>2. 0 - 0 = 0
    OBVIOUS
  <2> QED BY <1>3, <2>1, <2>2 DEF Finalized
<1>8. PICK o : o = [k \in 0 .. 0 |-> 0]
  OBVIOUS
<1>9. Linked(r, o, 0)
  <2>1. o \in [0 .. 0 -> Nat] /\ o[0] = 0 /\ 1 .. 0 = {}
    BY <1>8
  <2> QED BY <1>7, <2>1 DEF Linked
<1>10. Chain(r)
  <2>1. 0 \in Nat
    OBVIOUS
  <2> QED BY <1>4, <1>6, <1>7, <1>9, <2>1 DEF Chain, Fits
<1>11. pushed \in 0 .. MaxCallbacks /\ clock \in Nat /\ clock + (1 - 0 - 1) <= pushed /\ frames = <<>>
  BY BoundsAssumption DEF Init
<1> QED BY <1>2, <1>6, <1>7, <1>10, <1>11 DEF RingInv

(* No callback runs a transaction.                                         *)
LEMMA Outside ==
    ASSUME Reentrant = {}, MayTransact
    PROVE  frames = <<>>
BY DEF MayTransact

LEMMA PushStep ==
    ASSUME Reentrant = {}, RingInv, Push
    PROVE  RingInv' /\ pushed + 1 \in Callbacks /\ Queue!Push(pushed + 1)
<1>1. frames = <<>> /\ frames' = frames
  BY Outside DEF Push
<1>2. /\ pushed < MaxCallbacks /\ ring' = EmplaceBack(ring, Callback(pushed + 1))
      /\ pushed' = pushed + 1 /\ clock' = clock
  BY DEF Push
<1>3. Chain(ring) /\ pushed \in 0 .. MaxCallbacks /\ clock \in Nat
      /\ clock + (Size(ring) - Finalized(ring) - 1) <= pushed
  BY DEF RingInv
<1>4. Callback(pushed + 1) \in Elements /\ Callback(pushed + 1).callback = pushed + 1
  BY <1>3 DEF Callback, Elements
<1>5. PICK s : s = ring'
  OBVIOUS
<1>6. /\ Chain(s) /\ Size(s) = Size(ring) + 1 /\ Finalized(s) = Finalized(ring)
      /\ Epochs(s) = Epochs(ring)
      /\ WorkingOf(s) = Append(WorkingOf(ring), pushed + 1)
  BY <1>2, <1>3, <1>4, <1>5, PushChain
<1>7. Size(ring) \in Nat /\ Finalized(ring) \in Nat
  BY <1>3, Sizes DEF Chain
<1>8. pushed' \in 0 .. MaxCallbacks /\ clock' + (Size(s) - Finalized(s) - 1) <= pushed'
  BY <1>2, <1>3, <1>6, <1>7, BoundsAssumption
<1>9. RingInv'
  BY <1>1, <1>2, <1>3, <1>5, <1>6, <1>8 DEF RingInv
<1>10. pushed + 1 \in Callbacks
  BY <1>2, <1>3, BoundsAssumption DEF Callbacks
<1>11. ~Busy /\ ~Busy' /\ Busy' = Busy
  BY <1>1 DEF Busy
<1>12. Queue!Push(pushed + 1)
  BY <1>5, <1>6, <1>11 DEF Queue!Push, WorkingOf
<1> QED BY <1>9, <1>10, <1>12

LEMMA ClearStep ==
    ASSUME Reentrant = {}, RingInv, Clear
    PROVE  RingInv' /\ Queue!Clear
<1>1. frames = <<>> /\ frames' = frames
  BY Outside DEF Clear
<1>2. ring' = ClearWorkingEpoch(ring) /\ pushed' = pushed /\ clock' = clock
  BY DEF Clear
<1>3. Chain(ring) /\ pushed \in 0 .. MaxCallbacks /\ clock \in Nat
      /\ clock + (Size(ring) - Finalized(ring) - 1) <= pushed
  BY DEF RingInv
<1>4. PICK s : s = ring'
  OBVIOUS
<1>5. /\ Chain(s) /\ Size(s) = Finalized(s) + 1 /\ Finalized(s) = Finalized(ring)
      /\ Epochs(s) = Epochs(ring)
      /\ WorkingOf(s) = <<>>
  BY <1>2, <1>3, <1>4, ClearChain
<1>6. Size(ring) \in Nat /\ Finalized(ring) \in Nat /\ Finalized(ring) < Size(ring)
  BY <1>3, Sizes DEF Chain
<1>7. clock' + (Size(s) - Finalized(s) - 1) <= pushed'
  BY <1>2, <1>3, <1>5, <1>6, BoundsAssumption
<1>8. RingInv'
  BY <1>1, <1>2, <1>3, <1>4, <1>5, <1>7 DEF RingInv
<1>9. ~Busy /\ ~Busy' /\ Busy' = Busy
  BY <1>1 DEF Busy
<1>10. Queue!Clear
  BY <1>4, <1>5, <1>9 DEF Queue!Clear, WorkingOf
<1> QED BY <1>8, <1>10

LEMMA FinalizeStep ==
    ASSUME Reentrant = {}, RingInv, Finalize
    PROVE  RingInv' /\ \E e \in Callbacks \cup {0} : Queue!Finalize(e)
<1>1. frames = <<>>
  BY Outside DEF Finalize
<1>2. PICK e \in {0, clock + 1} :
          /\ WorkingEpochSize(ring) > 1 /\ ring' = FinalizeEpoch(ring, e)
          /\ clock' = IF e = 0 THEN clock ELSE e
          /\ pushed' = pushed
  BY DEF Finalize
<1>3. Chain(ring) /\ pushed \in 0 .. MaxCallbacks /\ clock \in Nat
      /\ clock + (Size(ring) - Finalized(ring) - 1) <= pushed
  BY DEF RingInv
<1>4. PICK m \in Nat, d \in Nat : m = Size(ring) /\ d = Finalized(ring)
  BY <1>3, Sizes DEF Chain
<1>5. d + 2 <= m /\ WorkingEpochSize(ring) = m - d
  BY <1>2, <1>3, <1>4, Sizes DEF Chain
<1>6. /\ clock + 1 \in Nat /\ clock + 1 <= pushed
      /\ e \in Nat /\ (e = 0 \/ e \in 1 .. pushed) /\ clock' \in Nat /\ clock' <= pushed
  BY <1>2, <1>3, <1>4, <1>5
<1>7. PICK s : s = ring'
  OBVIOUS
<1>8. /\ Chain(s) /\ Size(s) = Finalized(s) + 1 /\ Finalized(s) = m
      /\ Epochs(s) = Append(Epochs(ring), [epoch |-> e, callbacks |-> WorkingOf(ring)])
      /\ WorkingOf(s) = <<>>
  <2>1. Finalized(ring) + 2 <= Size(ring)
    BY <1>4, <1>5
  <2>2. e \in Nat /\ Chain(ring) /\ s = FinalizeEpoch(ring, e)
    BY <1>2, <1>3, <1>6, <1>7
  <2> QED BY <1>4, <2>1, <2>2, FinalizeChain
<1>9. clock' + (Size(s) - Finalized(s) - 1) <= pushed'
  BY <1>2, <1>3, <1>6, <1>8
<1>10. frames' = <<>> \/ \E f : frames' = <<f>> /\ Loop(s, f) /\ f.pc = "front"
  <2>1. CASE UNCHANGED frames
    BY <1>1, <2>1
  <2>2. ASSUME NEW n \in (FrontEpoch(ring') + 1 .. clock' + 1) \cup {OffState}, Reclaim(n)
        PROVE  \E f : frames' = <<f>> /\ Loop(s, f) /\ f.pc = "front"
    <3>1. PICK f : f = [pc |-> "front", cur_idx |-> 0, end |-> 0, min_epoch |-> n]
      OBVIOUS
    <3>2. frames' = <<f>> \o frames
      BY <2>2, <3>1 DEF Reclaim
    <3>3. frames' = <<f>>
      BY <1>1, <3>2
    <3>4. FrontEpoch(s) \in Nat
      <4>1. s \in Rings
        BY <1>8 DEF Chain, Fits
      <4>2. s.buffer[s.ring_begin] \in Elements
        BY <4>1, RingHas
      <4> QED BY <4>2 DEF FrontEpoch, Elements
    <3>5. n \in Nat
      <4>1. PICK a \in Nat : a = FrontEpoch(ring')
        BY <1>7, <3>4
      <4>2. PICK k \in Nat : k = clock'
        BY <1>6
      <4>3. n \in a + 1 .. k + 1 \/ n = OffState
        BY <2>2, <4>1, <4>2
      <4>4. OffState \in Nat
        BY BoundsAssumption DEF OffState
      <4>5. CASE n \in a + 1 .. k + 1
        <5>1. n \in Int /\ a + 1 <= n
          BY <4>5
        <5> QED BY <5>1
      <4> QED BY <4>3, <4>4, <4>5
    <3>6. f \in Loops /\ f.pc = "front"
      BY <3>1, <3>5 DEF Loops
    <3>7. m > 0
      BY <1>5
    <3> QED BY <1>8, <3>3, <3>6, <3>7 DEF Loop
  <2> QED BY <2>1, <2>2 DEF Finalize
<1>11. RingInv'
  BY <1>2, <1>3, <1>6, <1>7, <1>8, <1>9, <1>10 DEF RingInv
<1>12. e \in Callbacks \cup {0}
  BY <1>3, <1>6, BoundsAssumption DEF Callbacks
<1>13. ~Busy /\ ~Busy' /\ Busy' = Busy
  BY <1>1, <1>10 DEF Busy
<1>14. WorkingOf(ring) # <<>>
  <2>1. PICK l \in Nat : l = m - d - 1 /\ l > 0
    BY <1>5
  <2>2. WorkingOf(ring) = CallbacksFrom(ring, d + 1, l)
    BY <1>3, <1>4, <2>1, WorkingIs DEF WorkingOf, Chain
  <2>3. DOMAIN CallbacksFrom(ring, d + 1, l) = 1 .. l /\ 1 \in 1 .. l
    BY <2>1 DEF CallbacksFrom
  <2> QED BY <2>2, <2>3
<1>15. Queue!Finalize(e)
  BY <1>2, <1>7, <1>8, <1>13, <1>14 DEF Queue!Finalize, WorkingOf
<1> QED BY <1>11, <1>12, <1>15

LEMMA ExitStep ==
    ASSUME RingInv, Exit
    PROVE  RingInv' /\ Unseen
<1>1. frames = <<>> /\ ring' = ring /\ pushed' = pushed /\ clock' = clock
  BY DEF Exit
<1>2. Chain(ring) /\ pushed \in 0 .. MaxCallbacks /\ clock \in Nat
      /\ clock + (Size(ring) - Finalized(ring) - 1) <= pushed
  BY DEF RingInv
<1>3. PICK m \in Nat, d \in Nat : m = Size(ring) /\ d = Finalized(ring)
  BY <1>2, Sizes DEF Chain
<1>4. m = d + 1
  BY <1>2, <1>3, Sizes DEF Chain, Exit
<1>5. frames' = <<>> \/ \E f : frames' = <<f>> /\ Loop(ring, f) /\ f.pc = "front"
  <2>1. CASE UNCHANGED frames
    BY <1>1, <2>1
  <2>2. CASE ~Empty(ring) /\ Reclaim(OffState)
    <3>1. PICK f : f = [pc |-> "front", cur_idx |-> 0, end |-> 0, min_epoch |-> OffState]
      OBVIOUS
    <3>2. frames' = <<f>> \o frames
      BY <2>2, <3>1 DEF Reclaim
    <3>3. frames' = <<f>>
      BY <1>1, <3>2
    <3>4. f \in Loops /\ f.pc = "front"
      BY <3>1, BoundsAssumption DEF Loops, OffState
    <3>5. d > 0
      BY <1>3, <1>4, <2>2 DEF Empty
    <3> QED BY <1>3, <1>4, <3>3, <3>4, <3>5 DEF Loop
  <2> QED BY <2>1, <2>2 DEF Exit
<1>6. RingInv'
  BY <1>1, <1>2, <1>5 DEF RingInv
<1>7. ~Busy /\ ~Busy' /\ Busy' = Busy
  BY <1>1, <1>5 DEF Busy
<1>8. Unseen
  BY <1>1, <1>7 DEF Unseen, Running
<1> QED BY <1>6, <1>8

(* A reclaiming loop is in progress.                                       *)
LEMMA InLoop ==
    ASSUME RingInv, NEW pc, Frame(pc)
    PROVE  \E f : frames = <<f>> /\ Loop(ring, f) /\ f.pc = pc
BY DEF RingInv, Frame

LEMMA FrontStep ==
    ASSUME RingInv, Front
    PROVE  RingInv' /\ Queue!Front
<1>1. PICK f : frames = <<f>> /\ Loop(ring, f) /\ f.pc = "front"
  BY InLoop DEF Front
<1>2. ring' = ring /\ pushed' = pushed /\ clock' = clock
  BY DEF Front
<1>3. Chain(ring) /\ pushed \in 0 .. MaxCallbacks /\ clock \in Nat
      /\ clock + (Size(ring) - Finalized(ring) - 1) <= pushed
  BY DEF RingInv
<1>4. Finalized(ring) > 0 /\ Size(ring) = Finalized(ring) + 1 /\ f \in Loops
  BY <1>1 DEF Loop
<1>5. PICK c \in Nat : c = At(ring, 0).size /\ c >= 2
  BY <1>3, <1>4, FirstOfChain
<1>6. PICK b \in Nat : b = ring.ring_begin
  <2>1. ring \in Rings
    BY <1>3 DEF Chain, Fits
  <2>2. ring.ring_begin \in Nat
    BY <2>1, RingHas
  <2> QED BY <2>2
<1>7. ring.buffer[ring.ring_begin].size = c
  BY <1>3, <1>5, FromHeader DEF Chain
<1>8. PICK g : g = [f EXCEPT !.pc = "loop", !.cur_idx = b + 1, !.end = b + c]
  OBVIOUS
<1>9. frames' = <<g>>
  <2>1. frames' = [frames EXCEPT ![1].pc = "loop", ![1].cur_idx = b + 1, ![1].end = b + c]
    BY <1>6, <1>7 DEF Front
  <2> QED BY <1>1, <1>8, <2>1
<1>10. g \in Loops /\ g.pc = "loop" /\ g.cur_idx = b + 1 /\ g.end = b + c
  <2>1. f = [pc |-> f.pc, cur_idx |-> f.cur_idx, end |-> f.end, min_epoch |-> f.min_epoch]
        /\ f.min_epoch \in Nat
    BY <1>4 DEF Loops
  <2>2. g = [pc |-> "loop", cur_idx |-> b + 1, end |-> b + c, min_epoch |-> f.min_epoch]
    BY <1>8, <2>1
  <2>3. b + 1 \in Nat /\ b + c \in Nat
    OBVIOUS
  <2> QED BY <2>1, <2>2, <2>3 DEF Loops
<1>11. Loop(ring, g)
  <2>1. b + 1 \in b + 1 .. b + c
    BY <1>5
  <2> QED BY <1>4, <1>5, <1>6, <1>10, <2>1 DEF Loop
<1>12. RingInv'
  BY <1>2, <1>3, <1>9, <1>11 DEF RingInv
<1>13. ~Busy /\ Busy'
  BY <1>1, <1>9, <1>10 DEF Busy
<1>14. /\ Epochs(ring) # <<>>
       /\ Head(Epochs(ring)).callbacks = CallbacksFrom(ring, 1, c - 1)
  BY <1>3, <1>4, <1>5, FirstOfChain
<1>15. Running' = CallbacksFrom(ring, 1, c - 1)
  <2>1. Running' = CallbacksOf(ring, b + 1 + 0, (b + c) - (b + 1 + 0))
    BY <1>2, <1>9, <1>10, <1>13 DEF Running
  <2>2. b + 1 + 0 = b + 1 /\ (b + c) - (b + 1 + 0) = c - 1 /\ c - 1 \in Int /\ 1 \in Int
    OBVIOUS
  <2>3. CallbacksOf(ring, b + 1, c - 1) = CallbacksFrom(ring, 1, c - 1)
    BY <1>3, <1>6, <2>2, CallbacksOfIs DEF Chain, Fits
  <2> QED BY <2>1, <2>2, <2>3
<1>16. Queue!Front
  BY <1>2, <1>13, <1>14, <1>15 DEF Queue!Front, Running
<1> QED BY <1>12, <1>16

LEMMA TailOfCallbacks ==
    ASSUME NEW r, NEW from \in Int, NEW count \in Nat, count > 0
    PROVE  /\ CallbacksOf(r, from, count) # <<>>
           /\ Tail(CallbacksOf(r, from, count)) = CallbacksOf(r, from + 1, count - 1)
<1>1. PICK q : q = CallbacksOf(r, from, count)
  OBVIOUS
<1>2. q = [k \in 1 .. count |-> r.buffer[Wrap(r, from + k - 1)].callback]
  BY <1>1 DEF CallbacksOf
<1>3. q = [k \in 1 .. count |-> q[k]]
  BY <1>2
<1>4. Tail(q) = [k \in 1 .. count - 1 |-> q[k + 1]]
  BY <1>3, TailIs
<1>5. ASSUME NEW k \in 1 .. count - 1
      PROVE  q[k + 1] = r.buffer[Wrap(r, from + 1 + k - 1)].callback
  <2>1. k + 1 \in 1 .. count /\ from + (k + 1) - 1 = from + 1 + k - 1
    OBVIOUS
  <2> QED BY <1>2, <2>1
<1>6. Tail(q) = CallbacksOf(r, from + 1, count - 1)
  BY <1>4, <1>5 DEF CallbacksOf
<1>7. q # <<>>
  <2>1. DOMAIN q = 1 .. count /\ 1 \in 1 .. count
    BY <1>2
  <2> QED BY <2>1
<1> QED BY <1>1, <1>6, <1>7

(* A loop that does not touch the ring or begin another epoch.             *)
LEMMA LoopGoesOn ==
    ASSUME RingInv, NEW f, frames = <<f>>, NEW g, frames' = <<g>>, Loop(ring, g),
           UNCHANGED <<ring, pushed, clock>>
    PROVE  RingInv'
BY DEF RingInv

LEMMA CallStep ==
    ASSUME RingInv, Call
    PROVE  RingInv' /\ Queue!Run
<1>1. PICK f : frames = <<f>> /\ Loop(ring, f) /\ f.pc = "loop"
  BY InLoop DEF Call
<1>2. ring' = ring /\ pushed' = pushed /\ clock' = clock /\ f.cur_idx # f.end
  BY <1>1 DEF Call
<1>3. PICK c \in Nat, e \in Nat : c = f.cur_idx /\ e = f.end /\ c < e
  <2>1. f.cur_idx \in Nat /\ f.end \in Nat /\ ring.ring_begin \in Nat
    BY <1>1, RingHas DEF Loop, Loops, RingInv, Chain, Fits
  <2>2. f.cur_idx <= f.end
    BY <1>1, <2>1 DEF Loop
  <2> QED BY <1>2, <2>1, <2>2
<1>4. PICK g : g = [f EXCEPT !.pc = "called"]
  OBVIOUS
<1>5. frames' = <<g>>
  BY <1>1, <1>4 DEF Call
<1>6. f \in Loops
  BY <1>1 DEF Loop
<1>7. g \in Loops /\ g.pc = "called" /\ g.cur_idx = c /\ g.end = e
  BY <1>3, <1>4, <1>6 DEF Loops
<1>8. Loop(ring, g)
  BY <1>1, <1>3, <1>7 DEF Loop
<1>9. RingInv'
  BY <1>1, <1>2, <1>5, <1>8, LoopGoesOn
<1>10. Busy /\ Busy' /\ Busy' = Busy
  BY <1>1, <1>5, <1>7 DEF Busy
<1>11. Running = CallbacksOf(ring, c, e - c)
  <2>1. Running = CallbacksOf(ring, c + 0, e - (c + 0))
    BY <1>1, <1>3, <1>10 DEF Running
  <2>2. c + 0 = c
    OBVIOUS
  <2> QED BY <2>1, <2>2
<1>12. Running' = CallbacksOf(ring, c + 1, e - (c + 1))
  BY <1>2, <1>5, <1>7, <1>10 DEF Running
<1>13. Running # <<>> /\ Running' = Tail(Running)
  <2>1. e - c \in Nat /\ e - c > 0 /\ c \in Int /\ (e - c) - 1 = e - (c + 1)
    BY <1>3
  <2>2. /\ CallbacksOf(ring, c, e - c) # <<>>
        /\ Tail(CallbacksOf(ring, c, e - c)) = CallbacksOf(ring, c + 1, (e - c) - 1)
    BY <2>1, TailOfCallbacks
  <2> QED BY <1>11, <1>12, <2>1, <2>2
<1>14. Queue!Run
  BY <1>2, <1>10, <1>13 DEF Queue!Run, Running
<1> QED BY <1>9, <1>14

LEMMA ReturnStep ==
    ASSUME RingInv, Return
    PROVE  RingInv' /\ Unseen
<1>1. PICK f : frames = <<f>> /\ Loop(ring, f) /\ f.pc = "called"
  BY InLoop DEF Return
<1>2. ring' = ring /\ pushed' = pushed /\ clock' = clock
  BY DEF Return
<1>3. PICK b \in Nat, c \in Nat, e \in Nat :
          b = ring.ring_begin /\ c = f.cur_idx /\ e = f.end /\ c \in b + 1 .. e /\ c # e
  <2>1. f.cur_idx \in Nat /\ f.end \in Nat /\ ring.ring_begin \in Nat
    BY <1>1, RingHas DEF Loop, Loops, RingInv, Chain, Fits
  <2>2. f.cur_idx \in ring.ring_begin + 1 .. f.end /\ f.cur_idx # f.end
    BY <1>1 DEF Loop
  <2> QED BY <2>1, <2>2
<1>4. PICK g : g = [f EXCEPT !.pc = "loop", !.cur_idx = c + 1]
  OBVIOUS
<1>5. frames' = <<g>>
  BY <1>1, <1>3, <1>4 DEF Return
<1>6. f \in Loops
  BY <1>1 DEF Loop
<1>7. g \in Loops /\ g.pc = "loop" /\ g.cur_idx = c + 1 /\ g.end = e
  <2>1. f = [pc |-> f.pc, cur_idx |-> f.cur_idx, end |-> f.end, min_epoch |-> f.min_epoch]
        /\ f.min_epoch \in Nat
    BY <1>6 DEF Loops
  <2>2. g = [pc |-> "loop", cur_idx |-> c + 1, end |-> e, min_epoch |-> f.min_epoch]
    BY <1>3, <1>4, <2>1
  <2>3. c + 1 \in Nat
    OBVIOUS
  <2> QED BY <2>1, <2>2, <2>3 DEF Loops
<1>8. c + 1 \in b + 1 .. e
  BY <1>3
<1>9. Loop(ring, g)
  BY <1>1, <1>3, <1>7, <1>8 DEF Loop
<1>10. RingInv'
  BY <1>1, <1>2, <1>5, <1>9, LoopGoesOn
<1>11. Busy /\ Busy' /\ Busy' = Busy
  BY <1>1, <1>5, <1>7 DEF Busy
<1>12. Running = CallbacksOf(ring, c + 1, e - (c + 1))
  BY <1>1, <1>3, <1>11 DEF Running
<1>13. Running' = CallbacksOf(ring, c + 1 + 0, e - (c + 1 + 0))
  BY <1>2, <1>5, <1>7, <1>11 DEF Running
<1>14. c + 1 + 0 = c + 1
  OBVIOUS
<1>15. Unseen
  BY <1>2, <1>11, <1>12, <1>13, <1>14 DEF Unseen
<1> QED BY <1>10, <1>15

LEMMA RetireStep ==
    ASSUME RingInv, Retire
    PROVE  RingInv' /\ Queue!Retire
<1>1. PICK f : frames = <<f>> /\ Loop(ring, f) /\ f.pc = "loop"
  BY InLoop DEF Retire
<1>2. pushed' = pushed /\ clock' = clock /\ f.cur_idx = f.end
  BY <1>1 DEF Retire
<1>3. Chain(ring) /\ pushed \in 0 .. MaxCallbacks /\ clock \in Nat
      /\ clock + (Size(ring) - Finalized(ring) - 1) <= pushed
  BY DEF RingInv
<1>4. /\ Finalized(ring) > 0 /\ Size(ring) = Finalized(ring) + 1 /\ f \in Loops
      /\ f.end = ring.ring_begin + At(ring, 0).size
  BY <1>1 DEF Loop
<1>5. PICK s : s = ring'
  OBVIOUS
<1>6. s = Removed(ring, At(ring, 0).size)
  BY <1>1, <1>2, <1>4, <1>5 DEF Retire, Removed
<1>7. /\ Chain(s) /\ Size(s) = Finalized(s) + 1
      /\ Epochs(s) = Tail(Epochs(ring))
      /\ WorkingOf(s) = WorkingOf(ring)
  BY <1>3, <1>4, <1>6, RetireChain
<1>8. PICK g : g = [f EXCEPT !.pc = "decide"]
  OBVIOUS
<1>9. frames' = <<g>>
  BY <1>1, <1>8 DEF Retire
<1>10. g \in Loops /\ g.pc = "decide"
  BY <1>4, <1>8 DEF Loops
<1>11. Loop(s, g)
  BY <1>7, <1>10 DEF Loop
<1>12. clock + (Size(s) - Finalized(s) - 1) <= pushed
  <2>1. Size(ring) \in Nat /\ Finalized(ring) \in Nat /\ Finalized(s) \in Nat
    BY <1>3, <1>7, Sizes DEF Chain
  <2> QED BY <1>3, <1>4, <1>7, <2>1
<1>13. RingInv'
  BY <1>2, <1>3, <1>5, <1>7, <1>9, <1>11, <1>12 DEF RingInv
<1>14. Busy /\ ~Busy'
  BY <1>1, <1>9, <1>10 DEF Busy
<1>15. Running = <<>>
  <2>1. f.end \in Nat
    BY <1>4 DEF Loops
  <2>2. PICK e \in Nat : e = f.end
    BY <2>1
  <2>3. Running = CallbacksOf(ring, e + 0, e - (e + 0)) /\ e - (e + 0) = 0
    BY <1>1, <1>2, <1>14, <2>2 DEF Running
  <2> QED BY <2>3 DEF CallbacksOf
<1>16. Running' = <<>>
  BY <1>14 DEF Running
<1>17. Queue!Retire
  BY <1>5, <1>7, <1>14, <1>15, <1>16 DEF Queue!Retire, Running, WorkingOf
<1> QED BY <1>13, <1>17

LEMMA DecideStep ==
    ASSUME RingInv, Decide
    PROVE  RingInv' /\ Unseen
<1>1. PICK f : frames = <<f>> /\ Loop(ring, f) /\ f.pc = "decide"
  BY InLoop DEF Decide
<1>2. ring' = ring /\ pushed' = pushed /\ clock' = clock
  BY DEF Decide
<1>3. Chain(ring) /\ pushed \in 0 .. MaxCallbacks /\ clock \in Nat
      /\ clock + (Size(ring) - Finalized(ring) - 1) <= pushed
  BY DEF RingInv
<1>4. Size(ring) = Finalized(ring) + 1 /\ f \in Loops /\ Finalized(ring) \in Nat
  BY <1>1, <1>3, Sizes DEF Loop, Chain
<1>5. frames' = <<>> \/ \E g : frames' = <<g>> /\ Loop(ring, g) /\ g.pc = "front"
  <2>1. CASE GoesOn
    <3>1. PICK g : g = [f EXCEPT !.pc = "front", !.cur_idx = 0, !.end = 0]
      OBVIOUS
    <3>2. frames' = <<g>>
      BY <1>1, <2>1, <3>1 DEF Decide
    <3>3. g \in Loops /\ g.pc = "front"
      BY <1>4, <3>1 DEF Loops
    <3>4. Finalized(ring) > 0
      BY <1>4, <2>1 DEF GoesOn, Empty
    <3> QED BY <1>4, <3>2, <3>3, <3>4 DEF Loop
  <2>2. CASE ~GoesOn
    <3>1. frames' = Tail(frames)
      BY <2>2 DEF Decide
    <3> QED BY <1>1, <3>1
  <2> QED BY <2>1, <2>2
<1>6. RingInv'
  BY <1>2, <1>3, <1>5 DEF RingInv
<1>7. ~Busy /\ ~Busy' /\ Busy' = Busy
  BY <1>1, <1>5 DEF Busy
<1>8. Unseen
  BY <1>2, <1>7 DEF Unseen, Running
<1> QED BY <1>6, <1>8

LEMMA RingStep ==
    ASSUME Reentrant = {}, RingInv, [Next]_vars
    PROVE  RingInv' /\ [Queue!Next]_(Queue!vars)
<1>1. Unseen => UNCHANGED Queue!vars
  BY DEF Unseen, Queue!vars, WorkingOf, Running
<1>2. CASE Push
  BY <1>2, PushStep DEF Queue!Next
<1>3. CASE Clear
  BY <1>3, ClearStep DEF Queue!Next
<1>4. CASE Finalize
  BY <1>4, FinalizeStep DEF Queue!Next
<1>5. CASE Exit
  BY <1>1, <1>5, ExitStep
<1>6. CASE Front
  BY <1>6, FrontStep DEF Queue!Next
<1>7. CASE Call
  BY <1>7, CallStep DEF Queue!Next
<1>8. CASE Return
  BY <1>1, <1>8, ReturnStep
<1>9. CASE Retire
  BY <1>9, RetireStep DEF Queue!Next
<1>10. CASE Decide
  BY <1>1, <1>10, DecideStep
<1>11. CASE UNCHANGED vars
  <2>1. UNCHANGED <<ring, frames, pushed, clock>>
    BY <1>11 DEF vars
  <2>2. RingInv'
    BY <2>1 DEF RingInv
  <2>3. Busy' = Busy
    BY <2>1 DEF Busy
  <2>4. Unseen
    BY <2>1, <2>3 DEF Unseen, Running
  <2> QED BY <1>1, <2>2, <2>4
<1> QED BY <1>2, <1>3, <1>4, <1>5, <1>6, <1>7, <1>8, <1>9, <1>10, <1>11 DEF Next

(* What the proofs rest on: the headers in the ring, and where a reclaiming *)
(* loop is among them.                                                     *)
THEOREM RingCorrect ==
    ASSUME Reentrant = {}
    PROVE  Spec => []RingInv
<1>1. RingInv /\ [Next]_vars => RingInv'
  BY RingStep
<1> QED BY <1>1, InitInv, PTL DEF Spec

(* back_epoch finds the epoch that was finalized last, and the assertion   *)
(* at the end of do_first_epoch_callbacks does not fail, wherever the ring *)
(* wraps around and whenever reserve_more has moved it.                    *)
THEOREM HeadersLinkedCorrect ==
    ASSUME Reentrant = {}
    PROVE  Spec => []HeadersLinked
<1>1. RingInv => HeadersLinked
  <2> SUFFICES ASSUME RingInv
               PROVE  HeadersLinked
    OBVIOUS
  <2>1. Chain(ring)
    BY DEF RingInv
  <2> QED BY <2>1, LinksOfChain DEF HeadersLinked
<1> QED BY <1>1, RingCorrect, PTL

(* The ring is a queue of epochs: what push, finalize_epoch, clear and the *)
(* reclaiming loops do to it is what the queue does, callbacks run in the  *)
(* order in which they were pushed, those of an epoch together.            *)
THEOREM ImplementsCorrect ==
    ASSUME Reentrant = {}
    PROVE  Spec => ImplementsQueue
<1>1. Init => Queue!Init
  <2> SUFFICES ASSUME Init
               PROVE  Queue!Init
    OBVIOUS
  <2>1. RingInv
    BY InitInv
  <2>2. frames = <<>> /\ ring.epoch_begin = 0 /\ ring.ring_begin = 0 /\ ring.write_pos = 1
    BY DEF Init
  <2>3. ~Busy
    BY <2>2 DEF Busy
  <2>4. Chain(ring)
    BY <2>1 DEF RingInv
  <2>5. PICK c \in Positive : c = Capacity(ring) /\ c > 1
    <3>1. ring.last_valid_index = 2 * ReclaimLimit - 1
      BY DEF Init
    <3> QED BY <3>1, LimitAssumption DEF Capacity, Positive
  <2>6. Finalized(ring) = 0 /\ Size(ring) = 1
    <3>1. 0 - 0 = 0 /\ 1 - 0 = 1 /\ 0 \in 0 .. c - 1 /\ 1 \in 0 .. c - 1
      BY <2>5 DEF Positive
    <3>2. 0 % c = 0 /\ 1 % c = 1
      BY <3>1, RemainderSmall
    <3> QED BY <2>2, <2>5, <3>1, <3>2 DEF Finalized, Size, Wrap
  <2>7. WorkingOf(ring) = <<>>
    BY <2>4, <2>6, EmptyWorking DEF Chain
  <2>8. Epochs(ring) = <<>>
    <3>1. PICK from : /\ Epochs(ring) = from[0]
                      /\ from = [i \in 0 .. Finalized(ring) |-> EpochsBody(ring, from, i)]
      BY <2>4, EpochsFrom DEF Chain
    <3>2. from[0] = EpochsBody(ring, from, 0)
      BY <2>6, <3>1
    <3>3. 1 .. 0 - 0 = {}
      OBVIOUS
    <3> QED BY <2>6, <3>1, <3>2, <3>3 DEF EpochsBody
  <2> QED BY <2>3, <2>7, <2>8 DEF Queue!Init, WorkingOf
<1>2. RingInv /\ [Next]_vars => [Queue!Next]_(Queue!vars)
  BY RingStep
<1> QED BY <1>1, <1>2, RingCorrect, PTL DEF Spec, ImplementsQueue, Queue!Spec
-----------------------------------------------------------------------------
(* How often callbacks run *)

(* The elements of r are different callbacks of those up to p, and those   *)
(* from the element `from' on, and later ones, have not run.               *)
Unrun(r, from, p, ran) ==
    /\ \A i \in 0 .. Size(r) - 1 : At(r, i).callback <= p
    /\ \A i \in 0 .. Size(r) - 1 : \A j \in 0 .. Size(r) - 1 :
           At(r, i).callback = At(r, j).callback => i = j \/ At(r, i).callback = 0
    /\ \A i \in from .. Size(r) - 1 : At(r, i).callback # 0 => ran[At(r, i).callback] = 0
    /\ \A c \in Callbacks : c > p => ran[c] = 0

(* The first element whose callback has not run.                           *)
Position ==
    IF ~Busy THEN 0
    ELSE LET called == IF frames[1].pc = "called" THEN 1 ELSE 0
         IN  frames[1].cur_idx + called - ring.ring_begin

OnceInv ==
    /\ RingInv
    /\ runs \in [Callbacks -> 0 .. 1]
    /\ Unrun(ring, Position, pushed, runs)

LEMMA PushUnrun ==
    ASSUME NEW r, Fits(r), NEW p \in Nat, NEW ran, Unrun(r, 0, p, ran), p + 1 \in Callbacks
    PROVE  Unrun(EmplaceBack(r, Callback(p + 1)), 0, p + 1, ran)
<1>1. PICK n \in Nat : n = Size(r)
  BY Sizes
<1>2. PICK s : s = EmplaceBack(r, Callback(p + 1))
  OBVIOUS
<1>3. Callback(p + 1) \in Elements /\ Callback(p + 1).callback = p + 1
  BY DEF Callback, Elements
<1>4. Size(s) = n + 1 /\ (\A i \in 0 .. n - 1 : At(s, i) = At(r, i)) /\ At(s, n).callback = p + 1
  BY <1>1, <1>2, <1>3, EmplaceIs
<1>5. \A i \in 0 .. n - 1 : At(r, i).callback \in Nat /\ At(r, i).callback <= p
  <2>1. \A i \in 0 .. n - 1 : At(r, i) \in Elements
    BY AtType DEF Fits
  <2> QED BY <1>1, <2>1 DEF Unrun, Elements
<1>6. ASSUME NEW i \in 0 .. n
      PROVE  At(s, i).callback <= p + 1 /\ (i # n => At(s, i).callback # p + 1)
  <2>1. CASE i = n
    BY <1>4, <2>1
  <2>2. CASE i # n
    <3>1. i \in 0 .. n - 1
      BY <2>2
    <3> QED BY <1>4, <1>5, <3>1
  <2> QED BY <2>1, <2>2
<1>7. ASSUME NEW i \in 0 .. n, NEW j \in 0 .. n, At(s, i).callback = At(s, j).callback
      PROVE  i = j \/ At(s, i).callback = 0
  <2>1. CASE i = n \/ j = n
    BY <1>4, <1>6, <1>7, <2>1
  <2>2. CASE i # n /\ j # n
    <3>1. i \in 0 .. n - 1 /\ j \in 0 .. n - 1
      BY <2>2
    <3>2. At(s, i) = At(r, i) /\ At(s, j) = At(r, j)
      BY <1>4, <3>1
    <3> QED BY <1>1, <1>7, <3>1, <3>2 DEF Unrun
  <2> QED BY <2>1, <2>2
<1>8. ASSUME NEW i \in 0 .. n, At(s, i).callback # 0
      PROVE  ran[At(s, i).callback] = 0
  <2>1. CASE i = n
    BY <1>4, <2>1 DEF Unrun
  <2>2. CASE i # n
    <3>1. i \in 0 .. n - 1
      BY <2>2
    <3> QED BY <1>1, <1>4, <1>8, <3>1 DEF Unrun
  <2> QED BY <2>1, <2>2
<1>9. \A c \in Callbacks : c > p + 1 => ran[c] = 0
  BY BoundsAssumption DEF Unrun, Callbacks
<1>10. 0 .. Size(s) - 1 = 0 .. n
  BY <1>4
<1> QED BY <1>2, <1>6, <1>7, <1>8, <1>9, <1>10 DEF Unrun

LEMMA ClearUnrun ==
    ASSUME NEW r, Fits(r), Finalized(r) < Size(r), NEW p \in Nat, NEW ran, Unrun(r, 0, p, ran)
    PROVE  Unrun(ClearWorkingEpoch(r), 0, p, ran)
<1>1. PICK n \in Nat, d \in Nat : n = Size(r) /\ d = Finalized(r) /\ d < n
  BY Sizes
<1>2. PICK s : s = ClearWorkingEpoch(r)
  OBVIOUS
<1>3. Size(s) = d + 1 /\ \A i \in Int : At(s, i) = At(r, i)
  BY <1>1, <1>2, ClearIs
<1>4. \A i \in 0 .. Size(s) - 1 : i \in 0 .. Size(r) - 1 /\ At(s, i) = At(r, i)
  BY <1>1, <1>3
<1> QED BY <1>2, <1>4 DEF Unrun

LEMMA FinalizeUnrun ==
    ASSUME NEW r, Fits(r), Finalized(r) < Size(r), NEW p \in Nat, NEW ran, Unrun(r, 0, p, ran),
           NEW epoch \in Nat
    PROVE  Unrun(FinalizeEpoch(r, epoch), 0, p, ran)
<1>1. PICK n \in Nat, d \in Nat : n = Size(r) /\ d = Finalized(r) /\ d < n
  BY Sizes
<1>2. PICK s : s = FinalizeEpoch(r, epoch)
  OBVIOUS
<1>3. /\ Size(s) = n + 1
      /\ \A i \in 0 .. n - 1 : i # d => At(s, i) = At(r, i)
      /\ At(s, d) = [At(r, d) EXCEPT !.epoch = epoch, !.size = n - d]
      /\ At(s, n) = Header(n - d)
  <2>1. /\ Size(s) = Size(r) + 1
        /\ \A i \in 0 .. Size(r) - 1 : i # Finalized(r) => At(s, i) = At(r, i)
        /\ At(s, Finalized(r)) =
               [At(r, Finalized(r)) EXCEPT !.epoch = epoch, !.size = Size(r) - Finalized(r)]
        /\ At(s, Size(r)) = Header(Size(r) - Finalized(r))
    BY <1>2, FinalizeIs
  <2> QED BY <1>1, <2>1
<1>4. ASSUME NEW i \in 0 .. n
      PROVE  At(s, i).callback = IF i = n THEN 0 ELSE At(r, i).callback
  <2>1. CASE i = n
    BY <1>3, <2>1 DEF Header
  <2>2. CASE i = d /\ i # n
    <3>1. At(r, d) \in Elements
      BY AtType DEF Fits
    <3> QED BY <1>3, <2>2, <3>1 DEF Elements
  <2>3. CASE i # d /\ i # n
    <3>1. i \in 0 .. n - 1
      BY <2>3
    <3> QED BY <1>3, <2>3, <3>1
  <2> QED BY <2>1, <2>2, <2>3
<1>5. 0 .. Size(s) - 1 = 0 .. n /\ \A i \in 0 .. n : i # n => i \in 0 .. n - 1
  BY <1>3
<1>6. \A i \in 0 .. n : At(s, i).callback <= p /\ (At(s, i).callback # 0 => ran[At(s, i).callback] = 0)
  BY <1>1, <1>4, <1>5 DEF Unrun
<1>7. \A i \in 0 .. n : \A j \in 0 .. n :
          At(s, i).callback = At(s, j).callback => i = j \/ At(s, i).callback = 0
  BY <1>1, <1>4, <1>5 DEF Unrun
<1> QED BY <1>2, <1>5, <1>6, <1>7 DEF Unrun

LEMMA RetireUnrun ==
    ASSUME NEW r, Fits(r), NEW k \in 0 .. Finalized(r), NEW p \in Nat, NEW ran, Unrun(r, k, p, ran)
    PROVE  Unrun(Removed(r, k), 0, p, ran)
<1>1. PICK n \in Nat : n = Size(r) /\ k \in 0 .. n
  BY Sizes
<1>2. PICK s : s = Removed(r, k)
  OBVIOUS
<1>3. Size(s) = n - k /\ \A i \in 0 .. n - k : At(s, i) = At(r, k + i)
  BY <1>1, <1>2, RemovedIs
<1>4. \A i \in 0 .. Size(s) - 1 : /\ k + i \in k .. Size(r) - 1 /\ k + i \in 0 .. Size(r) - 1
                                  /\ At(s, i) = At(r, k + i)
  BY <1>1, <1>3
<1>5. \A i \in 0 .. Size(s) - 1 : \A j \in 0 .. Size(s) - 1 : k + i = k + j => i = j
  BY <1>1
<1> QED BY <1>2, <1>4, <1>5 DEF Unrun

LEMMA CallUnrun ==
    ASSUME NEW r, Fits(r), NEW k \in 0 .. Size(r) - 1, NEW p \in Nat, NEW ran,
           ran \in [Callbacks -> 0 .. 1], p <= MaxCallbacks, Unrun(r, k, p, ran),
           NEW c, c = At(r, k).callback, NEW new, new = [ran EXCEPT ![c] = @ + 1]
    PROVE  new \in [Callbacks -> 0 .. 1] /\ Unrun(r, k + 1, p, new)
<1>1. PICK n \in Nat : n = Size(r)
  BY Sizes
<1>2. c \in Nat /\ c <= p
  <2>1. At(r, k) \in Elements
    BY AtType DEF Fits
  <2> QED BY <1>1, <2>1 DEF Elements, Unrun
<1>3. c # 0 => c \in Callbacks /\ ran[c] = 0
  <2>1. k \in k .. n - 1
    BY <1>1
  <2> QED BY <1>1, <1>2, <2>1, BoundsAssumption DEF Unrun, Callbacks
<1>4. c = 0 => c \notin Callbacks
  BY DEF Callbacks
<1>5. /\ new \in [Callbacks -> 0 .. 1]
      /\ \A b \in Callbacks : b # c => new[b] = ran[b]
  <2>1. \A b \in Callbacks : new[b] = IF b = c THEN ran[c] + 1 ELSE ran[b]
    OBVIOUS
  <2>2. \A b \in Callbacks : new[b] \in 0 .. 1
    <3>1. ASSUME NEW b \in Callbacks
          PROVE  new[b] \in 0 .. 1
      <4>1. CASE b = c
        <5>1. new[b] = ran[c] + 1 /\ ran[c] = 0
          BY <1>3, <1>4, <2>1, <4>1
        <5> QED BY <5>1
      <4>2. CASE b # c
        BY <2>1, <4>2
      <4> QED BY <4>1, <4>2
    <3> QED BY <3>1
  <2>3. new = [b \in Callbacks |-> new[b]]
    OBVIOUS
  <2> QED BY <2>1, <2>2, <2>3
<1>6. \A i \in 0 .. n - 1 : At(r, i).callback # 0 => At(r, i).callback \in Callbacks
  <2>1. \A i \in 0 .. n - 1 : At(r, i) \in Elements
    BY AtType DEF Fits
  <2> QED BY <1>1, <2>1, BoundsAssumption DEF Elements, Unrun, Callbacks
<1>7. ASSUME NEW i \in k + 1 .. n - 1, At(r, i).callback # 0
      PROVE  new[At(r, i).callback] = 0
  <2>1. i \in k .. n - 1 /\ i \in 0 .. n - 1 /\ i # k /\ k \in 0 .. n - 1
    BY <1>1
  <2>2. ran[At(r, i).callback] = 0
    BY <1>1, <1>7, <2>1 DEF Unrun
  <2>3. At(r, i).callback # c
    BY <1>1, <1>7, <2>1 DEF Unrun
  <2> QED BY <1>5, <1>6, <1>7, <2>1, <2>2, <2>3
<1>8. \A b \in Callbacks : b > p => new[b] = 0
  BY <1>2, <1>5 DEF Unrun, Callbacks
<1> QED BY <1>1, <1>5, <1>7, <1>8 DEF Unrun

(* A step that leaves the ring and what has run alone.                     *)
LEMMA UnrunStays ==
    ASSUME NEW r, NEW from \in Int, NEW to \in Int, from <= to, NEW p, NEW ran, Unrun(r, from, p, ran),
           Size(r) \in Nat
    PROVE  Unrun(r, to, p, ran)
<1>1. \A i \in to .. Size(r) - 1 : i \in from .. Size(r) - 1
  OBVIOUS
<1> QED BY <1>1 DEF Unrun

LEMMA OnceStep ==
    ASSUME Reentrant = {}, OnceInv, [Next]_vars
    PROVE  OnceInv'
<1>1. RingInv /\ RingInv'
  BY RingStep DEF OnceInv
<1>2. Chain(ring) /\ Fits(ring) /\ Finalized(ring) < Size(ring) /\ pushed \in Nat /\ clock \in Nat
      /\ pushed <= MaxCallbacks
  BY <1>1, BoundsAssumption DEF RingInv, Chain
<1>3. runs \in [Callbacks -> 0 .. 1] /\ Unrun(ring, Position, pushed, runs)
  BY DEF OnceInv
<1>4. Size(ring) \in Nat
  BY <1>2, Sizes
<1>5. SUFFICES runs' \in [Callbacks -> 0 .. 1] /\ Unrun(ring', Position', pushed', runs')
  BY <1>1 DEF OnceInv
<1>6. ASSUME UNCHANGED <<ring, pushed, runs>>, Position \in Int, Position' \in Int, Position <= Position'
      PROVE  runs' \in [Callbacks -> 0 .. 1] /\ Unrun(ring', Position', pushed', runs')
  BY <1>3, <1>4, <1>6, UnrunStays
<1>7. CASE Push
  <2>1. frames = <<>> /\ frames' = frames
    BY <1>7, Outside DEF Push
  <2>2. Position = 0 /\ Position' = 0
    BY <2>1 DEF Position, Busy
  <2>3. ring' = EmplaceBack(ring, Callback(pushed + 1)) /\ pushed' = pushed + 1 /\ runs' = runs
    BY <1>7 DEF Push
  <2>4. pushed + 1 \in Callbacks
    BY <1>1, <1>7, PushStep
  <2> QED BY <1>2, <1>3, <2>2, <2>3, <2>4, PushUnrun
<1>8. CASE Clear
  <2>1. frames = <<>> /\ frames' = frames
    BY <1>8, Outside DEF Clear
  <2>2. Position = 0 /\ Position' = 0
    BY <2>1 DEF Position, Busy
  <2>3. ring' = ClearWorkingEpoch(ring) /\ pushed' = pushed /\ runs' = runs
    BY <1>8 DEF Clear
  <2> QED BY <1>2, <1>3, <2>2, <2>3, ClearUnrun
<1>9. CASE Finalize
  <2>1. PICK e \in {0, clock + 1} :
            frames = <<>> /\ ring' = FinalizeEpoch(ring, e) /\ pushed' = pushed /\ runs' = runs
    BY <1>9, Outside DEF Finalize
  <2>2. ~Busy'
    BY <1>9, <2>1 DEF Finalize, Reclaim, Busy
  <2>3. Position = 0 /\ Position' = 0
    BY <2>1, <2>2 DEF Position, Busy
  <2>4. e \in Nat
    BY <1>2, <2>1
  <2> QED BY <1>2, <1>3, <2>1, <2>3, <2>4, FinalizeUnrun
<1>10. CASE Exit
  <2>1. frames = <<>> /\ UNCHANGED <<ring, pushed, runs>>
    BY <1>10 DEF Exit
  <2>2. ~Busy'
    BY <1>10, <2>1 DEF Exit, Reclaim, Busy
  <2>3. Position = 0 /\ Position' = 0
    BY <2>1, <2>2 DEF Position, Busy
  <2> QED BY <1>6, <2>1, <2>3
<1>11. CASE Front
  <2>1. UNCHANGED <<ring, pushed, runs>>
    BY <1>11 DEF Front
  <2>2. PICK f : frames = <<f>> /\ Loop(ring, f) /\ f.pc = "front"
    BY <1>1, <1>11, InLoop DEF Front
  <2>3. Position = 0
    BY <2>2 DEF Position, Busy
  <2>4. PICK g : frames' = <<g>> /\ Loop(ring, g) /\ g.pc = "loop"
    <3>1. Busy' /\ frames'[1].pc = "loop"
      BY <1>11, <2>2 DEF Front, Busy, Loop, Loops
    <3> QED BY <1>1, <2>1, <3>1 DEF RingInv, Busy
  <2>5. PICK b \in Nat, c \in Nat : b = ring.ring_begin /\ c = g.cur_idx /\ c >= b + 1
    <3>1. g.cur_idx \in Nat /\ ring.ring_begin \in Nat /\ g.end \in Nat
      BY <1>2, <2>4, RingHas DEF Loop, Loops, Fits
    <3> QED BY <2>4, <3>1 DEF Loop
  <2>6. Position' = c + 0 - b
    BY <2>1, <2>4, <2>5 DEF Position, Busy
  <2> QED BY <1>6, <2>1, <2>3, <2>5, <2>6
<1>12. CASE Call
  <2>1. ring' = ring /\ pushed' = pushed /\ runs' = [runs EXCEPT ![Current] = @ + 1]
    BY <1>12 DEF Call
  <2>2. PICK f : frames = <<f>> /\ Loop(ring, f) /\ f.pc = "loop"
    BY <1>1, <1>12, InLoop DEF Call
  <2>3. PICK b \in Nat, c \in Nat, k \in Nat, m \in Nat :
            /\ b = ring.ring_begin /\ c = f.cur_idx /\ k = c - b
            /\ m = At(ring, 0).size /\ f.end = b + m
            /\ c \in b + 1 .. b + m /\ c # b + m /\ m <= Finalized(ring)
    <3>1. f \in Loops /\ Finalized(ring) > 0
      BY <2>2 DEF Loop
    <3>2. f.cur_idx \in Nat
      BY <3>1 DEF Loops
    <3>3. ring.ring_begin \in Nat
      BY <1>2, RingHas DEF Fits
    <3>4. At(ring, 0).size \in Nat /\ At(ring, 0).size \in 0 .. Finalized(ring)
      BY <1>2, <3>1, FirstOfChain
    <3>5. f.end = ring.ring_begin + At(ring, 0).size /\ f.cur_idx \in ring.ring_begin + 1 .. f.end
      BY <2>2 DEF Loop
    <3>6. f.cur_idx # f.end
      BY <1>12, <2>2 DEF Call
    <3>7. PICK b \in Nat, c \in Nat, m \in Nat :
              b = ring.ring_begin /\ c = f.cur_idx /\ m = At(ring, 0).size
      BY <3>2, <3>3, <3>4
    <3>8. f.end = b + m /\ c \in b + 1 .. f.end
      BY <3>5, <3>7
    <3>9. c \in b + 1 .. b + m /\ c # b + m
      BY <3>6, <3>7, <3>8
    <3>10. PICK k \in Nat : k = c - b
      BY <3>9
    <3>11. Finalized(ring) \in Nat
      BY <1>2, Sizes
    <3>12. m \in 0 .. Finalized(ring)
      BY <3>4, <3>7
    <3>13. m <= Finalized(ring)
      BY <3>11, <3>12
    <3> QED BY <3>7, <3>8, <3>9, <3>10, <3>13
  <2>4. Position = k
    <3>1. Position = c + 0 - b
      BY <2>2, <2>3 DEF Position, Busy
    <3> QED BY <2>3, <3>1
  <2>5. PICK g : g = [f EXCEPT !.pc = "called"]
    OBVIOUS
  <2>6. frames' = <<g>> /\ g.pc = "called" /\ g.cur_idx = c
    <3>1. frames' = <<g>>
      BY <1>12, <2>2, <2>5 DEF Call
    <3>2. f \in Loops
      BY <2>2 DEF Loop
    <3> QED BY <2>3, <2>5, <3>1, <3>2 DEF Loops
  <2>7. Position' = k + 1
    <3>1. Position' = c + 1 - b
      BY <2>1, <2>3, <2>6 DEF Position, Busy
    <3> QED BY <2>3, <3>1
  <2>8. k \in 0 .. Size(ring) - 1
    <3>1. Finalized(ring) \in Nat
      BY <1>2, Sizes
    <3>2. k <= m
      BY <2>3
    <3>3. m <= Finalized(ring)
      BY <2>3
    <3> QED BY <1>2, <1>4, <3>1, <3>2, <3>3
  <2>9. Current = At(ring, k).callback
    <3>1. b + k = c
      BY <2>3
    <3> QED BY <2>2, <2>3, <3>1 DEF Current, At
  <2> QED BY <1>2, <1>3, <2>1, <2>4, <2>7, <2>8, <2>9, CallUnrun
<1>13. CASE Return
  <2>1. UNCHANGED <<ring, pushed, runs>>
    BY <1>13 DEF Return
  <2>2. PICK f : frames = <<f>> /\ Loop(ring, f) /\ f.pc = "called"
    BY <1>1, <1>13, InLoop DEF Return
  <2>3. PICK b \in Nat, c \in Nat : b = ring.ring_begin /\ c = f.cur_idx
    <3>1. f \in Loops
      BY <2>2 DEF Loop
    <3>2. f.cur_idx \in Nat
      BY <3>1 DEF Loops
    <3>3. ring.ring_begin \in Nat
      BY <1>2, RingHas DEF Fits
    <3> QED BY <3>2, <3>3
  <2>4. Position = c + 1 - b
    BY <2>2, <2>3 DEF Position, Busy
  <2>5. PICK g : g = [f EXCEPT !.pc = "loop", !.cur_idx = c + 1]
    OBVIOUS
  <2>6. frames' = <<g>> /\ g.pc = "loop" /\ g.cur_idx = c + 1
    <3>1. frames' = <<g>>
      BY <1>13, <2>2, <2>3, <2>5 DEF Return
    <3>2. f \in Loops
      BY <2>2 DEF Loop
    <3> QED BY <2>5, <3>1, <3>2 DEF Loops
  <2>7. Position' = c + 1 + 0 - b
    BY <2>1, <2>3, <2>6 DEF Position, Busy
  <2> QED BY <1>6, <2>1, <2>4, <2>7
<1>14. CASE Retire
  <2>1. pushed' = pushed /\ runs' = runs
    BY <1>14 DEF Retire
  <2>2. PICK f : frames = <<f>> /\ Loop(ring, f) /\ f.pc = "loop" /\ f.cur_idx = f.end
    BY <1>1, <1>14, InLoop DEF Retire
  <2>3. PICK b \in Nat, m \in Nat :
            /\ b = ring.ring_begin /\ m = At(ring, 0).size /\ f.cur_idx = b + m
            /\ m \in 0 .. Finalized(ring)
    <3>1. f.end = ring.ring_begin + At(ring, 0).size /\ Finalized(ring) > 0
      BY <2>2 DEF Loop
    <3>2. ring.ring_begin \in Nat
      BY <1>2, RingHas DEF Fits
    <3>3. At(ring, 0).size \in 0 .. Finalized(ring)
      BY <1>2, <3>1, FirstOfChain
    <3> QED BY <2>2, <3>1, <3>2, <3>3
  <2>4. Position = m
    <3>1. Position = b + m + 0 - b
      BY <2>2, <2>3 DEF Position, Busy
    <3> QED BY <3>1
  <2>5. ring' = Removed(ring, m)
    BY <1>14, <2>2, <2>3 DEF Retire, Removed
  <2>6. Position' = 0
    <3>1. ~Busy'
      BY <1>14, <2>2 DEF Retire, Busy, Loop, Loops
    <3> QED BY <3>1 DEF Position
  <2> QED BY <1>2, <1>3, <2>1, <2>3, <2>4, <2>5, <2>6, RetireUnrun
<1>15. CASE Decide
  <2>1. UNCHANGED <<ring, pushed, runs>>
    BY <1>15 DEF Decide
  <2>2. PICK f : frames = <<f>> /\ Loop(ring, f) /\ f.pc = "decide"
    BY <1>1, <1>15, InLoop DEF Decide
  <2>3. ~Busy /\ ~Busy'
    BY <1>15, <2>2 DEF Decide, Busy, Loop, Loops
  <2>4. Position = 0 /\ Position' = 0
    BY <2>3 DEF Position
  <2> QED BY <1>6, <2>1, <2>4
<1>16. CASE UNCHANGED vars
  <2>1. UNCHANGED <<ring, frames, pushed, runs>>
    BY <1>16 DEF vars
  <2>2. Position' = Position
    BY <2>1 DEF Position, Busy
  <2> QED BY <1>3, <2>1, <2>2
<1> QED BY <1>7, <1>8, <1>9, <1>10, <1>11, <1>12, <1>13, <1>14, <1>15, <1>16 DEF Next

(* Every callback runs once at most, so that no object is destroyed or     *)
(* freed twice: an epoch that has run is not in the ring any more.         *)
THEOREM RunsOnceCorrect ==
    ASSUME Reentrant = {}
    PROVE  Spec => []RunsOnce
<1>1. Init => OnceInv
  <2> SUFFICES ASSUME Init
               PROVE  OnceInv
    OBVIOUS
  <2>1. RingInv
    BY InitInv
  <2>2. runs = [c \in Callbacks |-> 0] /\ pushed = 0 /\ frames = <<>>
    BY DEF Init
  <2>3. Position = 0
    BY <2>2 DEF Position, Busy
  <2>4. \A i \in Int : At(ring, i).callback = 0
    <3>1. ring \in Rings
      BY <2>1 DEF RingInv, Chain, Fits
    <3>2. ASSUME NEW i \in Int
          PROVE  At(ring, i) = Header(0)
      <4>1. Wrap(ring, ring.ring_begin + i) \in 0 .. 2 * ReclaimLimit - 1
        <5>1. ring.ring_begin + i \in Int /\ Capacity(ring) - 1 = 2 * ReclaimLimit - 1
          BY LimitAssumption DEF Init, Capacity
        <5> QED BY <3>1, <5>1, RingHas
      <4> QED BY <4>1 DEF At, Init
    <3> QED BY <3>2 DEF Header
  <2>5. Size(ring) = 1
    <3>1. PICK c \in Positive : c = Capacity(ring) /\ 1 \in 0 .. c - 1
      BY LimitAssumption DEF Init, Capacity, Positive
    <3>2. ring.write_pos - ring.ring_begin = 1
      BY DEF Init
    <3> QED BY <3>1, <3>2, RemainderSmall DEF Size, Wrap
  <2>6. Unrun(ring, 0, 0, runs)
    BY <2>2, <2>4, <2>5 DEF Unrun
  <2> QED BY <2>1, <2>2, <2>3, <2>6 DEF OnceInv
<1>2. OnceInv /\ [Next]_vars => OnceInv'
  BY OnceStep
<1>3. OnceInv => RunsOnce
  BY DEF OnceInv, RunsOnce
<1> QED BY <1>1, <1>2, <1>3, PTL DEF Spec
=============================================================================
