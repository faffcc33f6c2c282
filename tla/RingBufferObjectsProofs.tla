---------------------- MODULE RingBufferObjectsProofs ----------------------
(***************************************************************************)
(* What holds of any number of ring_buffer objects of any capacities that  *)
(* are copied, moved, assigned and destroyed: who owns which block, what   *)
(* is freed, and which elements an object holds.                           *)
(***************************************************************************)
EXTENDS RingBufferObjects, TLAPS

-----------------------------------------------------------------------------
(* The inductive invariant.                                                *)

Typed ==
  /\ objects \in [Objects -> Members \cup {Absent}]
  /\ heap \in [Blocks -> Contents \cup {Freed}]
  /\ ideal \in [Objects -> Seq(Values)]
  /\ torn \subseteq Objects /\ stale \subseteq Objects
  /\ misfreed \in BOOLEAN
  /\ thrown \in {"nothing", "allocation", "element"}

(* The members of one object agree with each other: full_ is exact, and    *)
(* only storage of its own gives an object elements and indices.           *)
Shape(m) ==
  /\ IF m.capacity_ = 0
     THEN m.head_ = 0 /\ m.tail_ = 0 /\ m.count_ = 0 /\ ~m.full_
     ELSE /\ m.head_ \in 0 .. m.capacity_ - 1 /\ m.tail_ \in 0 .. m.capacity_ - 1
          /\ m.count_ \in 0 .. m.capacity_
          /\ m.full_ <=> m.count_ = m.capacity_
  /\ m.buffer_ = Null => m.count_ = 0

Owns(m) ==
  IF m.buffer_ = Null THEN m.capacity_ = 0
  ELSE heap[m.buffer_] \in [0 .. m.capacity_ - 1 -> Cells]

(* The elements of m, in the block, are those of the sequence s.           *)
Holds(m, block, s) ==
  /\ Len(s) = m.count_
  /\ \A i \in 1 .. m.count_ : s[i] = block[(m.head_ + i - 1) % m.capacity_]

(* back() has a mark at the newest element, or none and a tail behind it.  *)
MarkRight(m) ==
  m.count_ > 0 =>
    IF m.just_overwrote_
    THEN m.overwrite_position_ = (m.head_ + m.count_ - 1) % m.capacity_
    ELSE m.full_ => TailInPlace(m)

ObjectInv(o) ==
  /\ Shape(objects[o])
  /\ thrown # "allocation" => Owns(objects[o])
  /\ thrown = "nothing" => Len(ideal[o]) = objects[o].count_
  /\ o \notin torn => Holds(objects[o], heap[objects[o].buffer_], ideal[o])
  /\ o \notin torn /\ o \notin stale => MarkRight(objects[o])

Good(o) ==
  IF o \in Alive THEN ObjectInv(o) ELSE thrown = "nothing" => ideal[o] = <<>>

NoSharing ==
  \A o, p \in Alive :
    o # p /\ objects[o].buffer_ # Null => objects[o].buffer_ # objects[p].buffer_

NoLeak ==
  thrown = "nothing" =>
    \A b \in Blocks :
      heap[b] \in {Freed, NewBlock(0)} \/ \E o \in Alive : objects[o].buffer_ = b

ObjectsInv ==
  /\ Typed
  /\ \A o \in Objects : Good(o)
  /\ NoSharing
  /\ NoLeak
  /\ FreedRight

-----------------------------------------------------------------------------
(* Arithmetic modulo the capacity c of an object.                          *)

(* head_ one further and the position one less is the same slot.           *)
LEMMA NextSlot ==
  ASSUME NEW c \in Nat \ {0}, NEW h \in 0 .. c - 1, NEW i \in 0 .. c
  PROVE  (((h + 1) % c) + i) % c = (h + i + 1) % c
  <1>2. (h + 1) % c = IF h + 1 < c THEN h + 1 ELSE 0
    OBVIOUS
  <1>3. CASE h + 1 < c
    BY <1>2, <1>3
  <1>4. CASE h + 1 = c
    <2>1. (h + 1) % c = 0 /\ h + i + 1 = c + i
      BY <1>2, <1>4
    <2>2. i % c = (c + i) % c
      OBVIOUS
    <2> QED
      BY <2>1, <2>2
  <1> QED
    BY <1>3, <1>4

(* Distinct positions below the capacity are distinct slots.               *)
LEMMA DistinctSlots ==
  ASSUME NEW c \in Nat \ {0}, NEW h \in 0 .. c - 1,
         NEW i \in 0 .. c - 1, NEW j \in 0 .. c - 1, (h + i) % c = (h + j) % c
  PROVE  i = j
  <1>1. ASSUME NEW k \in 0 .. c - 1
        PROVE  (h + k) % c = IF h + k < c THEN h + k ELSE h + k - c
    <2>1. CASE h + k < c
      BY <2>1
    <2>2. CASE h + k >= c
      BY <2>2
    <2> QED
      BY <2>1, <2>2
  <1> QED
    BY <1>1

(* The slot before the end of the elements is that of the newest one.      *)
LEMMA SlotBefore ==
  ASSUME NEW c \in Nat \ {0}, NEW h \in 0 .. c - 1, NEW n \in 1 .. c
  PROVE  (h + n - 1) % c = IF (h + n) % c = 0 THEN c - 1 ELSE ((h + n) % c) - 1
  <1>2. (h + n) % c = IF h + n < c THEN h + n ELSE h + n - c
    <2>1. CASE h + n < c
      BY <2>1
    <2>2. CASE h + n >= c
      BY <2>2
    <2> QED
      BY <2>1, <2>2
  <1>3. (h + n - 1) % c = IF h + n - 1 < c THEN h + n - 1 ELSE h + n - 1 - c
    <2>1. CASE h + n - 1 < c
      BY <2>1
    <2>2. CASE h + n - 1 >= c
      BY <2>2
    <2> QED
      BY <2>1, <2>2
  <1> QED
    BY <1>2, <1>3

-----------------------------------------------------------------------------
(* The operators that make one record of members from another.             *)

LEMMA MemberFields ==
  ASSUME NEW m \in Members
  PROVE  /\ m.capacity_ \in Nat /\ m.capacity_ \in Sizes
         /\ m.buffer_ \in Blocks \cup {Null}
         /\ m.head_ \in Nat /\ m.tail_ \in Nat /\ m.count_ \in Nat
         /\ m.full_ \in BOOLEAN /\ m.just_overwrote_ \in BOOLEAN
         /\ m.overwrite_position_ \in Indices /\ m # Absent
  <1>1. m # Absent
    BY MarkersAssumption
  <1>2. /\ m.capacity_ \in Sizes /\ m.buffer_ \in Blocks \cup {Null}
        /\ m.head_ \in Indices /\ m.tail_ \in Indices /\ m.count_ \in Nat
        /\ m.full_ \in BOOLEAN /\ m.just_overwrote_ \in BOOLEAN
        /\ m.overwrite_position_ \in Indices
    BY DEF Members
  <1>3. Sizes \subseteq Nat
    BY CapacitiesAssumption DEF Sizes
  <1>4. Indices \subseteq Nat
    BY CapacitiesAssumption DEF Indices
  <1> QED
    BY <1>1, <1>2, <1>3, <1>4

LEMMA BlockFacts ==
  ASSUME NEW n \in Sizes, NEW f \in [0 .. n - 1 -> Cells]
  PROVE  f \in Contents /\ f # Freed /\ DOMAIN f = 0 .. n - 1
  BY MarkersAssumption DEF Contents

LEMMA IndexFacts ==
  /\ 0 \in Indices /\ 0 \in Sizes
  /\ \A n \in Sizes : \A s \in 0 .. n - 1 : s \in Indices
  <1>1. ASSUME NEW n \in Sizes, NEW s \in 0 .. n - 1
        PROVE  s \in Indices
    <2>1. n \in Capacities \/ n = 0
      BY DEF Sizes
    <2> QED
      BY <2>1 DEF Indices
  <1> QED
    BY <1>1 DEF Indices, Sizes

(* One index further stays in the storage.                                 *)
LEMMA NextIndex ==
  ASSUME NEW c \in Sizes, c > 0, NEW h \in 0 .. c - 1
  PROVE  (h + 1) % c \in 0 .. c - 1 /\ (h + 1) % c \in Indices
  <1>1. c \in Nat
    BY CapacitiesAssumption DEF Sizes
  <1>2. (h + 1) % c \in 0 .. c - 1
    BY <1>1
  <1> QED
    BY <1>2, IndexFacts

LEMMA FreshFields ==
  ASSUME NEW n \in Sizes, NEW b \in Blocks
  PROVE  Fresh(n, b) \in Members
  BY IndexFacts DEF Fresh, Members

LEMMA ClearedFields ==
  ASSUME NEW m \in Members
  PROVE  /\ Cleared(m) \in Members
         /\ Cleared(m).capacity_ = m.capacity_ /\ Cleared(m).buffer_ = m.buffer_
         /\ Cleared(m).head_ = 0 /\ Cleared(m).tail_ = 0 /\ Cleared(m).count_ = 0
         /\ Cleared(m).full_ = FALSE
  BY IndexFacts DEF Cleared, Members

LEMMA MovedFromFields ==
  ASSUME NEW m \in Members
  PROVE  /\ MovedFrom(m) \in Members
         /\ MovedFrom(m).capacity_ = 0 /\ MovedFrom(m).buffer_ = Null
         /\ MovedFrom(m).head_ = 0 /\ MovedFrom(m).tail_ = 0 /\ MovedFrom(m).count_ = 0
         /\ MovedFrom(m).full_ = FALSE
  BY IndexFacts DEF MovedFrom, Cleared, Members

LEMMA WithMarkFields ==
  ASSUME NEW m \in Members, NEW mark,
         mark.just_overwrote_ \in BOOLEAN, mark.overwrite_position_ \in Indices
  PROVE  /\ WithMark(m, mark) \in Members
         /\ WithMark(m, mark).capacity_ = m.capacity_
         /\ WithMark(m, mark).buffer_ = m.buffer_
         /\ WithMark(m, mark).head_ = m.head_ /\ WithMark(m, mark).tail_ = m.tail_
         /\ WithMark(m, mark).count_ = m.count_
         /\ WithMark(m, mark).full_ = m.full_
         /\ WithMark(m, mark).just_overwrote_ = mark.just_overwrote_
         /\ WithMark(m, mark).overwrite_position_ = mark.overwrite_position_
  BY DEF WithMark, Members

(* The members of m with storage b, of m's capacity or of another one.     *)
LEMMA WithBlockFields ==
  ASSUME NEW m \in Members, NEW b \in Blocks \cup {Null}, NEW n \in Sizes
  PROVE  /\ [m EXCEPT !.buffer_ = b] \in Members
         /\ [m EXCEPT !.buffer_ = b].buffer_ = b
         /\ [m EXCEPT !.buffer_ = b].capacity_ = m.capacity_
         /\ [m EXCEPT !.buffer_ = b].head_ = m.head_
         /\ [m EXCEPT !.buffer_ = b].tail_ = m.tail_
         /\ [m EXCEPT !.buffer_ = b].count_ = m.count_
         /\ [m EXCEPT !.buffer_ = b].full_ = m.full_
         /\ [m EXCEPT !.buffer_ = b].just_overwrote_ = m.just_overwrote_
         /\ [m EXCEPT !.buffer_ = b].overwrite_position_ = m.overwrite_position_
  BY DEF Members

LEMMA AppendedFields ==
  ASSUME NEW m \in Members, m.capacity_ > 0, m.tail_ \in 0 .. m.capacity_ - 1
  PROVE  /\ Appended(m) \in Members
         /\ Appended(m).capacity_ = m.capacity_
         /\ Appended(m).buffer_ = m.buffer_
         /\ Appended(m).head_ = m.head_
         /\ Appended(m).tail_ = (m.tail_ + 1) % m.capacity_
         /\ Appended(m).count_ = m.count_ + 1
         /\ (Appended(m).full_) = (m.count_ + 1 = m.capacity_)
         /\ Appended(m).just_overwrote_ = FALSE
         /\ Appended(m).overwrite_position_ = m.overwrite_position_
  <1>1. (m.tail_ + 1) % m.capacity_ \in Indices
    BY MemberFields, NextIndex
  <1>2. m.count_ + 1 \in Nat
    BY MemberFields
  <1> DEFINE last == m.count_ + 1 = m.capacity_
  <1>3. last \in BOOLEAN
    OBVIOUS
  <1>4. Appended(m) = [m EXCEPT !.tail_ = (m.tail_ + 1) % m.capacity_,
                                !.count_ = m.count_ + 1, !.full_ = last,
                                !.just_overwrote_ = FALSE]
    BY DEF Appended, Members
  <1> HIDE DEF last
  <1>5. /\ Appended(m) \in Members
        /\ Appended(m).capacity_ = m.capacity_
        /\ Appended(m).buffer_ = m.buffer_
        /\ Appended(m).head_ = m.head_
        /\ Appended(m).tail_ = (m.tail_ + 1) % m.capacity_
        /\ Appended(m).count_ = m.count_ + 1
        /\ (Appended(m).full_) = last
        /\ Appended(m).just_overwrote_ = FALSE
        /\ Appended(m).overwrite_position_ = m.overwrite_position_
    BY <1>1, <1>2, <1>3, <1>4 DEF Members
  <1> QED
    BY <1>5 DEF last

LEMMA OverwrittenFields ==
  ASSUME NEW m \in Members, m.capacity_ > 0, m.head_ \in 0 .. m.capacity_ - 1
  PROVE  /\ Overwritten(m) \in Members
         /\ Overwritten(m).capacity_ = m.capacity_
         /\ Overwritten(m).buffer_ = m.buffer_
         /\ Overwritten(m).head_ = (m.head_ + 1) % m.capacity_
         /\ Overwritten(m).tail_ = m.tail_
         /\ Overwritten(m).count_ = m.count_
         /\ (Overwritten(m).full_) = (m.full_)
         /\ Overwritten(m).just_overwrote_ = TRUE
         /\ Overwritten(m).overwrite_position_ = m.head_
  <1>1. (m.head_ + 1) % m.capacity_ \in Indices
    BY MemberFields, NextIndex
  <1> QED
    BY <1>1 DEF Overwritten, WithMark, Mark, Members

LEMMA PoppedFields ==
  ASSUME NEW m \in Members, m.capacity_ > 0, m.head_ \in 0 .. m.capacity_ - 1,
         m.count_ > 0
  PROVE  /\ Popped(m) \in Members
         /\ Popped(m).capacity_ = m.capacity_
         /\ Popped(m).buffer_ = m.buffer_
         /\ Popped(m).head_ = (m.head_ + 1) % m.capacity_
         /\ Popped(m).tail_ = m.tail_
         /\ Popped(m).count_ = m.count_ - 1
         /\ Popped(m).full_ = FALSE
         /\ Popped(m).just_overwrote_ = FALSE
  <1>1. (m.head_ + 1) % m.capacity_ \in Indices
    BY MemberFields, NextIndex
  <1>2. m.count_ - 1 \in Nat
    BY MemberFields
  <1> QED
    BY <1>1, <1>2 DEF Popped, Members

-----------------------------------------------------------------------------
(* What the modifiers do to the elements in a block.                       *)

LEMMA ShapeFacts ==
  ASSUME NEW m \in Members, Shape(m), m.capacity_ > 0
  PROVE  /\ m.capacity_ \in Nat \ {0}
         /\ m.head_ \in 0 .. m.capacity_ - 1 /\ m.tail_ \in 0 .. m.capacity_ - 1
         /\ m.count_ \in 0 .. m.capacity_
         /\ m.full_ <=> m.count_ = m.capacity_
  BY MemberFields DEF Shape

LEMMA ShapeMods ==
  ASSUME NEW m \in Members, Shape(m), m.capacity_ > 0, m.buffer_ # Null
  PROVE  /\ m.full_ => Shape(Overwritten(m))
         /\ ~m.full_ => Shape(Appended(m))
         /\ m.count_ > 0 => Shape(Popped(m))
         /\ Shape(Cleared(m))
  <1>0. /\ m.capacity_ \in Nat \ {0} /\ m.capacity_ \in Sizes
        /\ m.head_ \in 0 .. m.capacity_ - 1 /\ m.tail_ \in 0 .. m.capacity_ - 1
        /\ m.count_ \in 0 .. m.capacity_
        /\ (m.head_ + 1) % m.capacity_ \in 0 .. m.capacity_ - 1
        /\ (m.tail_ + 1) % m.capacity_ \in 0 .. m.capacity_ - 1
    BY ShapeFacts, MemberFields, NextIndex
  <1>1. m.full_ => Shape(Overwritten(m))
    <2>1. /\ Overwritten(m).capacity_ = m.capacity_ /\ Overwritten(m).buffer_ = m.buffer_
          /\ Overwritten(m).head_ = (m.head_ + 1) % m.capacity_
          /\ Overwritten(m).tail_ = m.tail_ /\ Overwritten(m).count_ = m.count_
          /\ Overwritten(m).full_ <=> m.full_
      BY <1>0, OverwrittenFields
    <2>2. Overwritten(m).full_ <=> m.count_ = m.capacity_
      BY <2>1, ShapeFacts
    <2> QED
      BY <1>0, <2>1, <2>2 DEF Shape
  <1>2. ~m.full_ => Shape(Appended(m))
    <2>1. /\ Appended(m).capacity_ = m.capacity_ /\ Appended(m).buffer_ = m.buffer_
          /\ Appended(m).tail_ = (m.tail_ + 1) % m.capacity_
          /\ Appended(m).head_ = m.head_ /\ Appended(m).count_ = m.count_ + 1
          /\ Appended(m).full_ <=> m.count_ + 1 = m.capacity_
      BY <1>0, AppendedFields
    <2>2. ~m.full_ => m.count_ + 1 \in 0 .. m.capacity_
      BY <1>0, ShapeFacts
    <2> QED
      BY <1>0, <2>1, <2>2 DEF Shape
  <1>3. m.count_ > 0 => Shape(Popped(m))
    <2> SUFFICES ASSUME m.count_ > 0 PROVE Shape(Popped(m))
      OBVIOUS
    <2>1. /\ Popped(m).capacity_ = m.capacity_ /\ Popped(m).buffer_ = m.buffer_
          /\ Popped(m).head_ = (m.head_ + 1) % m.capacity_
          /\ Popped(m).tail_ = m.tail_ /\ Popped(m).count_ = m.count_ - 1
          /\ ~Popped(m).full_
      BY <1>0, PoppedFields
    <2>2. m.count_ - 1 \in 0 .. m.capacity_ /\ m.count_ - 1 # m.capacity_
      BY <1>0
    <2> QED
      BY <1>0, <2>1, <2>2 DEF Shape
  <1>4. Shape(Cleared(m))
    <2>1. /\ Cleared(m).capacity_ = m.capacity_ /\ Cleared(m).buffer_ = m.buffer_
          /\ Cleared(m).head_ = 0 /\ Cleared(m).tail_ = 0 /\ Cleared(m).count_ = 0
          /\ ~Cleared(m).full_
      BY ClearedFields
    <2> QED
      BY <1>0, <2>1 DEF Shape
  <1> QED
    BY <1>1, <1>2, <1>3, <1>4

LEMMA HoldsAppend ==
  ASSUME NEW m \in Members, Shape(m), m.capacity_ > 0, ~m.full_, TailInPlace(m),
         NEW block \in [0 .. m.capacity_ - 1 -> Cells],
         NEW s \in Seq(Values), Holds(m, block, s), NEW v \in Values
  PROVE  /\ Holds(Appended(m), [block EXCEPT ![m.tail_] = v], Append(s, v))
         /\ MarkRight(Appended(m))
  <1> DEFINE c == m.capacity_
             h == m.head_
             n == m.count_
             new == [block EXCEPT ![m.tail_] = v]
  <1>1. /\ c \in Nat \ {0} /\ h \in 0 .. c - 1 /\ n \in 0 .. c - 1
        /\ m.tail_ = (h + n) % c /\ m.tail_ \in 0 .. c - 1
    BY ShapeFacts DEF TailInPlace
  <1>2. /\ Appended(m).capacity_ = c /\ Appended(m).head_ = h
        /\ Appended(m).count_ = n + 1 /\ Appended(m).tail_ = (m.tail_ + 1) % c
        /\ Appended(m).just_overwrote_ = FALSE
    BY <1>1, AppendedFields
  <1>3. /\ Len(s) = n /\ Len(Append(s, v)) = n + 1
        /\ \A i \in 1 .. n : s[i] = block[(h + i - 1) % c]
        /\ \A i \in 1 .. n : Append(s, v)[i] = s[i]
        /\ Append(s, v)[n + 1] = v
    BY <1>1 DEF Holds
  <1>4. \A k \in 0 .. c - 1 : new[k] = IF k = m.tail_ THEN v ELSE block[k]
    BY <1>1
  <1> HIDE DEF c, h, n, new
  <1>5. ASSUME NEW i \in 1 .. n + 1
        PROVE  Append(s, v)[i] = new[(h + i - 1) % c]
    <2>1. (h + i - 1) % c \in 0 .. c - 1
      BY <1>1
    <2>2. CASE i = n + 1
      <3>1. h + i - 1 = h + n
        BY <1>1, <2>2
      <3> QED
        BY <1>1, <1>3, <1>4, <2>2, <3>1
    <2>3. CASE i # n + 1
      <3>1. i \in 1 .. n /\ i - 1 \in 0 .. c - 1 /\ i - 1 # n /\ h + i - 1 = h + (i - 1)
        BY <1>1, <2>3
      <3>2. (h + i - 1) % c # m.tail_
        BY <1>1, <3>1, DistinctSlots
      <3> QED
        BY <1>3, <1>4, <2>1, <3>1, <3>2
    <2> QED
      BY <2>2, <2>3
  <1>6. (((h + n) % c) + 1) % c = (h + (n + 1)) % c
    BY <1>1
  <1>7. TailInPlace(Appended(m))
    BY <1>1, <1>2, <1>6 DEF TailInPlace
  <1> QED
    BY <1>2, <1>3, <1>5, <1>7 DEF Holds, MarkRight, new

LEMMA HoldsOverwrite ==
  ASSUME NEW m \in Members, Shape(m), m.capacity_ > 0, m.full_,
         NEW block \in [0 .. m.capacity_ - 1 -> Cells],
         NEW s \in Seq(Values), Holds(m, block, s), NEW v \in Values
  PROVE  Holds(Overwritten(m), [block EXCEPT ![m.head_] = v], Append(Tail(s), v))
  <1> DEFINE c == m.capacity_
             h == m.head_
             new == [block EXCEPT ![m.head_] = v]
             t == Append(Tail(s), v)
  <1>1. c \in Nat \ {0} /\ h \in 0 .. c - 1 /\ m.count_ = c
    BY ShapeFacts
  <1>2. /\ Overwritten(m).capacity_ = c /\ Overwritten(m).head_ = (h + 1) % c
        /\ Overwritten(m).count_ = c
    BY <1>1, OverwrittenFields
  <1>3. Len(s) = c /\ \A i \in 1 .. c : s[i] = block[(h + i - 1) % c]
    BY <1>1 DEF Holds
  <1>4. /\ Tail(s) \in Seq(Values) /\ Len(Tail(s)) = c - 1
        /\ \A i \in 1 .. c - 1 : Tail(s)[i] = s[i + 1]
    BY <1>1, <1>3
  <1>5. /\ Len(t) = c /\ t[c] = v
        /\ \A i \in 1 .. c - 1 : t[i] = s[i + 1]
    BY <1>1, <1>4
  <1>6. \A k \in 0 .. c - 1 : new[k] = IF k = h THEN v ELSE block[k]
    BY <1>1
  <1> HIDE DEF c, h, new, t
  <1>7. ASSUME NEW i \in 1 .. c
        PROVE  t[i] = new[(((h + 1) % c) + i - 1) % c]
    <2>1. i - 1 \in 0 .. c /\ (h + 1) % c \in 0 .. c - 1
      BY <1>1
    <2>2. (((h + 1) % c) + (i - 1)) % c = (h + (i - 1) + 1) % c
      BY <1>1, <2>1, NextSlot
    <2>3. ((h + 1) % c) + (i - 1) = ((h + 1) % c) + i - 1 /\ h + (i - 1) + 1 = h + i
      BY <1>1, <2>1
    <2>4. (((h + 1) % c) + i - 1) % c = (h + i) % c
      BY <2>2, <2>3
    <2>5. CASE i = c
      <3>1. (h + c) % c = h
        BY <1>1
      <3> QED
        BY <1>1, <1>5, <1>6, <2>4, <2>5, <3>1
    <2>6. CASE i # c
      <3>1. /\ i \in 1 .. c - 1 /\ i \in 0 .. c - 1 /\ 0 \in 0 .. c - 1 /\ i # 0
            /\ i + 1 \in 1 .. c /\ h + (i + 1) - 1 = h + i
        BY <1>1, <2>6
      <3>2. (h + i) % c \in 0 .. c - 1 /\ (h + 0) % c = h
        BY <1>1
      <3>3. (h + i) % c # h
        BY <1>1, <3>1, <3>2, DistinctSlots
      <3>4. s[i + 1] = block[(h + i) % c]
        BY <1>3, <3>1
      <3>5. new[(h + i) % c] = block[(h + i) % c]
        BY <1>6, <3>2, <3>3
      <3> QED
        BY <1>5, <2>4, <3>1, <3>4, <3>5
    <2> QED
      BY <2>5, <2>6
  <1> QED
    BY <1>2, <1>5, <1>7 DEF Holds, new, t

LEMMA HoldsPop ==
  ASSUME NEW m \in Members, Shape(m), m.count_ > 0,
         NEW block \in [0 .. m.capacity_ - 1 -> Cells],
         NEW s \in Seq(Values), Holds(m, block, s)
  PROVE  Holds(Popped(m), [block EXCEPT ![m.head_] = Raw], Tail(s))
  <1> DEFINE c == m.capacity_
             h == m.head_
             n == m.count_
             new == [block EXCEPT ![m.head_] = Raw]
  <1>0. c > 0
    BY MemberFields DEF Shape
  <1>1. c \in Nat \ {0} /\ h \in 0 .. c - 1 /\ n \in 1 .. c
    BY <1>0, ShapeFacts
  <1>2. /\ Popped(m).capacity_ = c /\ Popped(m).head_ = (h + 1) % c
        /\ Popped(m).count_ = n - 1
    BY <1>0, <1>1, PoppedFields
  <1>3. Len(s) = n /\ \A i \in 1 .. n : s[i] = block[(h + i - 1) % c]
    BY DEF Holds
  <1>4. /\ Len(Tail(s)) = n - 1
        /\ \A i \in 1 .. n - 1 : Tail(s)[i] = s[i + 1]
    BY <1>1, <1>3
  <1>6. \A k \in 0 .. c - 1 : k # h => new[k] = block[k]
    BY <1>1
  <1> HIDE DEF c, h, n, new
  <1>7. ASSUME NEW i \in 1 .. n - 1
        PROVE  Tail(s)[i] = new[(((h + 1) % c) + i - 1) % c]
    <2>1. i - 1 \in 0 .. c /\ (h + 1) % c \in 0 .. c - 1
      BY <1>1
    <2>2. (((h + 1) % c) + (i - 1)) % c = (h + (i - 1) + 1) % c
      BY <1>1, <2>1, NextSlot
    <2>3. ((h + 1) % c) + (i - 1) = ((h + 1) % c) + i - 1 /\ h + (i - 1) + 1 = h + i
      BY <1>1, <2>1
    <2>4. (((h + 1) % c) + i - 1) % c = (h + i) % c
      BY <2>2, <2>3
    <2>5. /\ i \in 0 .. c - 1 /\ 0 \in 0 .. c - 1 /\ i # 0
          /\ i + 1 \in 1 .. n /\ h + (i + 1) - 1 = h + i
      BY <1>1
    <2>6. (h + i) % c \in 0 .. c - 1 /\ (h + 0) % c = h
      BY <1>1
    <2>7. (h + i) % c # h
      BY <1>1, <2>5, <2>6, DistinctSlots
    <2>8. s[i + 1] = block[(h + i) % c]
      BY <1>3, <2>5
    <2>9. new[(h + i) % c] = block[(h + i) % c]
      BY <1>6, <2>6, <2>7
    <2> QED
      BY <1>4, <2>4, <2>8, <2>9
  <1> QED
    BY <1>2, <1>4, <1>7 DEF Holds, new

-----------------------------------------------------------------------------
(* What the invariant says of an object and its block.                     *)

LEMMA AliveFacts ==
  ASSUME ObjectsInv, NEW o \in Alive
  PROVE  /\ o \in Objects /\ objects[o] \in Members /\ objects[o] # Absent
         /\ ObjectInv(o)
  BY DEF ObjectsInv, Typed, Alive, Good

LEMMA OwnedBlock ==
  ASSUME ObjectsInv, thrown # "allocation", NEW o \in Alive,
         objects[o].buffer_ # Null
  PROVE  /\ objects[o].buffer_ \in Blocks
         /\ heap[objects[o].buffer_] \in [0 .. objects[o].capacity_ - 1 -> Cells]
         /\ heap[objects[o].buffer_] # Freed
         /\ ~WrongFree(objects[o])
  <1>1. objects[o].buffer_ \in Blocks /\ objects[o].capacity_ \in Sizes
    BY AliveFacts, MemberFields
  <1>2. heap[objects[o].buffer_] \in [0 .. objects[o].capacity_ - 1 -> Cells]
    BY AliveFacts DEF ObjectInv, Owns
  <1> QED
    BY <1>1, <1>2, BlockFacts DEF WrongFree

LEMMA FreeUnowned ==
  ASSUME ObjectsInv, thrown # "allocation", NEW b \in FreeBlocks(heap), NEW u \in Alive
  PROVE  objects[u].buffer_ # b
  <1>1. b \in Blocks /\ b # Null /\ heap[b] = Freed
    BY MarkersAssumption DEF FreeBlocks
  <1> QED
    BY <1>1, OwnedBlock

(* An object that a step leaves alone, and its block with it, stays good.  *)
LEMMA OthersStayGood ==
  ASSUME ObjectsInv, NEW u \in Objects,
         objects'[u] = objects[u], ideal'[u] = ideal[u],
         u \in torn => u \in torn', u \in stale => u \in stale',
         thrown' = "nothing" => thrown = "nothing",
         thrown' # "allocation" => thrown # "allocation",
         u \in Alive /\ objects[u].buffer_ # Null =>
           heap'[objects[u].buffer_] = heap[objects[u].buffer_]
  PROVE  Good(u)'
  <1>1. u \in Alive' <=> u \in Alive
    BY DEF Alive
  <1>2. CASE u \notin Alive
    BY <1>1, <1>2 DEF ObjectsInv, Good
  <1>3. CASE u \in Alive
    <2>0. PICK m : m = objects[u] /\ m = objects'[u]
      OBVIOUS
    <2>1. ObjectInv(u) /\ m \in Members
      BY <1>3, <2>0, AliveFacts
    <2>2. Shape(m) /\ (m.buffer_ = Null => m.count_ = 0)
      BY <2>0, <2>1 DEF ObjectInv, Shape
    <2>3. thrown' # "allocation" => Owns(m)'
      BY <1>3, <2>0, <2>1 DEF ObjectInv, Owns
    <2>4. u \notin torn' => Holds(m, heap'[m.buffer_], ideal'[u])
      <3> SUFFICES ASSUME u \notin torn'
                   PROVE  Holds(m, heap'[m.buffer_], ideal'[u])
        OBVIOUS
      <3>1. Holds(m, heap[m.buffer_], ideal[u])
        BY <2>0, <2>1 DEF ObjectInv
      <3>2. CASE m.buffer_ = Null
        BY <2>2, <3>1, <3>2 DEF Holds
      <3>3. CASE m.buffer_ # Null
        BY <1>3, <2>0, <3>1, <3>3
      <3> QED
        BY <3>2, <3>3
    <2>5. u \notin torn' /\ u \notin stale' => MarkRight(m)
      BY <2>0, <2>1 DEF ObjectInv
    <2>6. thrown' = "nothing" => Len(ideal'[u]) = m.count_
      BY <2>0, <2>1 DEF ObjectInv
    <2>7. ObjectInv(u)'
      BY <2>0, <2>2, <2>3, <2>4, <2>5, <2>6 DEF ObjectInv
    <2> QED
      BY <1>1, <1>3, <2>7 DEF Good
  <1> QED
    BY <1>2, <1>3

(* A step on one object, in its own storage.                               *)
LEMMA InPlaceStep ==
  ASSUME ObjectsInv, thrown = "nothing", UNCHANGED <<misfreed, thrown>>,
         NEW o \in Alive, NEW m \in Members,
         m.buffer_ = objects[o].buffer_, m.capacity_ = objects[o].capacity_,
         objects' = [objects EXCEPT ![o] = m],
         \/ heap' = heap
         \/ /\ m.buffer_ # Null
            /\ \E f \in [0 .. m.capacity_ - 1 -> Cells] :
                 heap' = [heap EXCEPT ![m.buffer_] = f],
         NEW s \in Seq(Values), ideal' = [ideal EXCEPT ![o] = s],
         torn' \in {torn, torn \cup {o}, torn \ {o}},
         stale' \in {stale, stale \ {o}},
         ObjectInv(o)'
  PROVE  ObjectsInv'
  <1>0. o \in Objects /\ objects[o] # Absent /\ m # Absent
    BY AliveFacts, MemberFields
  <1>1. \A u \in Objects : objects'[u] = IF u = o THEN m ELSE objects[u]
    BY <1>0 DEF ObjectsInv, Typed
  <1>2. Alive' = Alive
    BY <1>0, <1>1 DEF Alive
  <1>3. \A u \in Alive : objects'[u].buffer_ = objects[u].buffer_
    BY <1>1 DEF Alive
  <1>4. \A b \in Blocks : b # m.buffer_ => heap'[b] = heap[b]
    BY DEF ObjectsInv, Typed
  <1>5. Typed'
    <2>1. heap' \in [Blocks -> Contents \cup {Freed}]
      BY MemberFields, BlockFacts DEF ObjectsInv, Typed
    <2>2. objects' \in [Objects -> Members \cup {Absent}]
      BY <1>0 DEF ObjectsInv, Typed
    <2>3. ideal' \in [Objects -> Seq(Values)]
      BY <1>0 DEF ObjectsInv, Typed
    <2> QED
      BY <1>0, <2>1, <2>2, <2>3 DEF ObjectsInv, Typed
  <1>6. ASSUME NEW u \in Objects PROVE Good(u)'
    <2>1. CASE u = o
      BY <1>2, <2>1 DEF Good
    <2>2. CASE u # o
      <3>1. u \in Alive /\ objects[u].buffer_ # Null =>
              heap'[objects[u].buffer_] = heap[objects[u].buffer_]
        BY <1>4, <2>2, AliveFacts, MemberFields DEF ObjectsInv, NoSharing
      <3>2. objects'[u] = objects[u] /\ ideal'[u] = ideal[u]
        BY <1>1, <2>2 DEF ObjectsInv, Typed
      <3> QED
        BY <2>2, <3>1, <3>2, OthersStayGood
    <2> QED
      BY <2>1, <2>2
  <1>7. NoSharing'
    BY <1>2, <1>3 DEF ObjectsInv, NoSharing
  <1>8. NoLeak'
    BY <1>2, <1>3, <1>4 DEF ObjectsInv, NoLeak
  <1>9. FreedRight'
    BY DEF ObjectsInv, FreedRight
  <1> QED
    BY <1>5, <1>6, <1>7, <1>8, <1>9 DEF ObjectsInv

-----------------------------------------------------------------------------
(* The modifiers.                                                          *)

LEMMA UsableFacts ==
  ASSUME ObjectsInv, thrown = "nothing", NEW o, Usable(o)
  PROVE  /\ o \in Alive /\ o \in Objects /\ objects[o] \in Members
         /\ Shape(objects[o]) /\ objects[o].capacity_ > 0
         /\ objects[o].buffer_ # Null
         /\ heap[objects[o].buffer_] \in [0 .. objects[o].capacity_ - 1 -> Cells]
         /\ ideal[o] \in Seq(Values) /\ Len(ideal[o]) = objects[o].count_
         /\ o \notin torn => Holds(objects[o], heap[objects[o].buffer_], ideal[o])
         /\ o \notin torn /\ o \notin stale => MarkRight(objects[o])
  <1>1. o \in Alive /\ objects[o].capacity_ > 0
    BY DEF Usable
  <1>2. objects[o] \in Members /\ ObjectInv(o) /\ o \in Objects
    BY <1>1, AliveFacts
  <1>3. objects[o].buffer_ # Null
    BY <1>1, <1>2 DEF ObjectInv, Owns
  <1>4. heap[objects[o].buffer_] \in [0 .. objects[o].capacity_ - 1 -> Cells]
    BY <1>1, <1>3, OwnedBlock
  <1> QED
    BY <1>1, <1>2, <1>3, <1>4 DEF ObjectInv, ObjectsInv, Typed

(* The invariant of an object that has storage, after a step.              *)
LEMMA ObjectInvNext ==
  ASSUME NEW o, NEW m, NEW f, NEW s,
         objects'[o] = m, m.buffer_ # Null, heap'[m.buffer_] = f, ideal'[o] = s,
         Shape(m), f \in [0 .. m.capacity_ - 1 -> Cells],
         thrown' = "nothing" => Len(s) = m.count_,
         o \notin torn' => Holds(m, f, s),
         o \notin torn' /\ o \notin stale' => MarkRight(m)
  PROVE  ObjectInv(o)'
  <1>1. Owns(objects[o])'
    BY DEF Owns
  <1>2. o \notin torn' => Holds(objects'[o], heap'[objects'[o].buffer_], ideal'[o])
    OBVIOUS
  <1>3. Shape(objects'[o])
    OBVIOUS
  <1>4. o \notin torn' /\ o \notin stale' => MarkRight(objects'[o])
    OBVIOUS
  <1>5. thrown' = "nothing" => Len(ideal'[o]) = objects'[o].count_
    OBVIOUS
  <1> QED
    BY <1>1, <1>2, <1>3, <1>4, <1>5 DEF ObjectInv

LEMMA PushBackStep ==
  ASSUME ObjectsInv, thrown = "nothing", NEW o \in Objects, NEW v \in Values,
         PushBack(o, v)
  PROVE  ObjectsInv'
  <1>0. Usable(o)
    BY DEF PushBack
  <1>1. PICK m : m = objects[o]
    OBVIOUS
  <1>2. PICK f : f = heap[m.buffer_]
    OBVIOUS
  <1>3. PICK s : s = ideal[o]
    OBVIOUS
  <1>4. /\ o \in Alive /\ m \in Members /\ Shape(m) /\ m.capacity_ > 0
        /\ m.buffer_ # Null /\ f \in [0 .. m.capacity_ - 1 -> Cells]
        /\ s \in Seq(Values) /\ Len(s) = m.count_
        /\ o \notin torn => Holds(m, f, s)
    BY <1>0, <1>1, <1>2, <1>3, UsableFacts
  <1>5. /\ m.head_ \in 0 .. m.capacity_ - 1 /\ m.tail_ \in 0 .. m.capacity_ - 1
        /\ m.capacity_ \in Nat \ {0} /\ m.count_ \in 0 .. m.capacity_
        /\ m.full_ <=> m.count_ = m.capacity_
        /\ m.buffer_ \in Blocks /\ v \in Cells
    BY <1>4, ShapeFacts, MemberFields DEF Cells
  <1>6. CASE m.full_ /\ objects' = [objects EXCEPT ![o] = Overwritten(m)]
             /\ heap' = [heap EXCEPT ![m.buffer_] = [f EXCEPT ![m.head_] = v]]
             /\ ideal' = [ideal EXCEPT ![o] = Append(Tail(s), v)]
             /\ UNCHANGED torn
    <2> DEFINE m2 == Overwritten(m)
               f2 == [f EXCEPT ![m.head_] = v]
               s2 == Append(Tail(s), v)
    <2>1. /\ m2 \in Members /\ m2.buffer_ = m.buffer_ /\ m2.capacity_ = m.capacity_
          /\ m2.count_ = m.count_ /\ m2.head_ = (m.head_ + 1) % m.capacity_
          /\ m2.just_overwrote_ = TRUE /\ m2.overwrite_position_ = m.head_
      BY <1>4, <1>5, OverwrittenFields
    <2>2. f2 \in [0 .. m.capacity_ - 1 -> Cells]
      BY <1>4, <1>5
    <2>3. s2 \in Seq(Values) /\ Len(s2) = m.count_
      BY <1>4, <1>5, <1>6
    <2>4. o \notin torn => Holds(m2, f2, s2)
      BY <1>4, <1>6, HoldsOverwrite
    <2>5. MarkRight(m2)
      <3>1. (((m.head_ + 1) % m.capacity_) + (m.capacity_ - 1)) % m.capacity_
              = (m.head_ + (m.capacity_ - 1) + 1) % m.capacity_
        <4>1. m.capacity_ - 1 \in 0 .. m.capacity_
          BY <1>5
        <4> QED
          BY <1>5, <4>1, NextSlot
      <3>2. /\ (m.head_ + 1) % m.capacity_ \in Nat
            /\ m.head_ + (m.capacity_ - 1) + 1 = m.head_ + m.capacity_
        BY <1>5
      <3>3. ((m.head_ + 1) % m.capacity_) + (m.capacity_ - 1)
              = ((m.head_ + 1) % m.capacity_) + m.capacity_ - 1
        BY <1>5, <3>2
      <3>4. (m.head_ + m.capacity_) % m.capacity_ = m.head_
        BY <1>5
      <3> QED
        BY <1>5, <1>6, <2>1, <3>1, <3>2, <3>3, <3>4 DEF MarkRight
    <2>6. Shape(m2)
      BY <1>4, <1>6, ShapeMods
    <2> HIDE DEF m2, f2, s2
    <2>7. objects'[o] = m2 /\ heap'[m2.buffer_] = f2 /\ ideal'[o] = s2
      BY <1>4, <1>5, <1>6, <2>1 DEF ObjectsInv, Typed, m2, f2, s2
    <2>8. ObjectInv(o)'
      BY <1>4, <1>6, <2>1, <2>2, <2>3, <2>4, <2>5, <2>6, <2>7, ObjectInvNext
    <2>9. \E g \in [0 .. m2.capacity_ - 1 -> Cells] :
            heap' = [heap EXCEPT ![m2.buffer_] = g]
      BY <1>6, <2>1, <2>2 DEF f2
    <2>10. objects' = [objects EXCEPT ![o] = m2] /\ ideal' = [ideal EXCEPT ![o] = s2]
      BY <1>6 DEF m2, s2
    <2>11. UNCHANGED <<misfreed, thrown>> /\ stale' = stale \ {o} /\ torn' = torn
      BY <1>6 DEF PushBack
    <2> QED
      BY <1>1, <1>4, <2>1, <2>3, <2>8, <2>9, <2>10, <2>11, InPlaceStep
  <1>7. CASE ~m.full_ /\ objects' = [objects EXCEPT ![o] = Appended(m)]
             /\ heap' = [heap EXCEPT ![m.buffer_] = [f EXCEPT ![m.tail_] = v]]
             /\ ideal' = [ideal EXCEPT ![o] = Append(s, v)]
             /\ torn' = IF TailInPlace(m) THEN torn ELSE torn \cup {o}
    <2> DEFINE m2 == Appended(m)
               f2 == [f EXCEPT ![m.tail_] = v]
               s2 == Append(s, v)
    <2>1. /\ m2 \in Members /\ m2.buffer_ = m.buffer_ /\ m2.capacity_ = m.capacity_
          /\ m2.count_ = m.count_ + 1
      BY <1>4, <1>5, AppendedFields
    <2>2. f2 \in [0 .. m.capacity_ - 1 -> Cells]
      BY <1>4, <1>5
    <2>3. s2 \in Seq(Values) /\ Len(s2) = m.count_ + 1
      BY <1>4, <1>5
    <2>4. o \notin torn' => Holds(m2, f2, s2) /\ MarkRight(m2)
      BY <1>4, <1>7, HoldsAppend
    <2>6. Shape(m2)
      BY <1>4, <1>7, ShapeMods
    <2> HIDE DEF m2, f2, s2
    <2>7. objects'[o] = m2 /\ heap'[m2.buffer_] = f2 /\ ideal'[o] = s2
      BY <1>4, <1>5, <1>7, <2>1 DEF ObjectsInv, Typed, m2, f2, s2
    <2>8. ObjectInv(o)'
      BY <1>4, <2>1, <2>2, <2>3, <2>4, <2>6, <2>7, ObjectInvNext
    <2>9. \E g \in [0 .. m2.capacity_ - 1 -> Cells] :
            heap' = [heap EXCEPT ![m2.buffer_] = g]
      BY <1>7, <2>1, <2>2 DEF f2
    <2>10. objects' = [objects EXCEPT ![o] = m2] /\ ideal' = [ideal EXCEPT ![o] = s2]
      BY <1>7 DEF m2, s2
    <2>11. /\ UNCHANGED <<misfreed, thrown>> /\ stale' = stale \ {o}
           /\ torn' \in {torn, torn \cup {o}}
      BY <1>7 DEF PushBack
    <2> QED
      BY <1>1, <1>4, <2>1, <2>3, <2>8, <2>9, <2>10, <2>11, InPlaceStep
  <1> QED
    <2>1. \A cell, slot : Write(o, slot, cell) =>
            heap' = [heap EXCEPT ![m.buffer_] = [f EXCEPT ![slot] = cell]]
      BY <1>1, <1>2 DEF Write
    <2> QED
      BY <1>1, <1>3, <1>6, <1>7, <2>1, <1>4 DEF PushBack

LEMMA PopFrontStep ==
  ASSUME ObjectsInv, thrown = "nothing", NEW o \in Objects, PopFront(o)
  PROVE  ObjectsInv'
  <1>0. Usable(o)
    BY DEF PopFront
  <1>1. PICK m : m = objects[o]
    OBVIOUS
  <1>2. PICK f : f = heap[m.buffer_]
    OBVIOUS
  <1>3. PICK s : s = ideal[o]
    OBVIOUS
  <1>4. /\ o \in Alive /\ m \in Members /\ Shape(m) /\ m.capacity_ > 0
        /\ m.buffer_ # Null /\ f \in [0 .. m.capacity_ - 1 -> Cells]
        /\ s \in Seq(Values) /\ Len(s) = m.count_ /\ m.count_ > 0
        /\ o \notin torn => Holds(m, f, s)
    BY <1>0, <1>1, <1>2, <1>3, UsableFacts DEF PopFront
  <1>5. /\ m.head_ \in 0 .. m.capacity_ - 1 /\ m.count_ \in Nat
        /\ m.buffer_ \in Blocks /\ Raw \in Cells
    BY <1>4, ShapeFacts, MemberFields DEF Cells
  <1> DEFINE m2 == Popped(m)
             f2 == [f EXCEPT ![m.head_] = Raw]
             s2 == Tail(s)
  <1>6. /\ objects' = [objects EXCEPT ![o] = m2]
        /\ heap' = [heap EXCEPT ![m.buffer_] = f2]
        /\ ideal' = [ideal EXCEPT ![o] = s2]
        /\ UNCHANGED <<torn, stale, misfreed, thrown>>
    BY <1>1, <1>2, <1>3 DEF PopFront, Write
  <1>7. /\ m2 \in Members /\ m2.buffer_ = m.buffer_ /\ m2.capacity_ = m.capacity_
        /\ m2.count_ = m.count_ - 1 /\ m2.just_overwrote_ = FALSE /\ m2.full_ = FALSE
    BY <1>4, <1>5, PoppedFields
  <1>8. f2 \in [0 .. m.capacity_ - 1 -> Cells]
    BY <1>4, <1>5
  <1>9. s2 \in Seq(Values) /\ Len(s2) = m.count_ - 1
    BY <1>4, <1>5
  <1>10. o \notin torn => Holds(m2, f2, s2)
    BY <1>4, HoldsPop
  <1>11. MarkRight(m2)
    BY <1>7 DEF MarkRight
  <1>12. Shape(m2)
    BY <1>4, ShapeMods
  <1> HIDE DEF m2, f2, s2
  <1>13. objects'[o] = m2 /\ heap'[m2.buffer_] = f2 /\ ideal'[o] = s2
    BY <1>4, <1>5, <1>6, <1>7 DEF ObjectsInv, Typed
  <1>14. ObjectInv(o)'
    BY <1>4, <1>6, <1>7, <1>8, <1>9, <1>10, <1>11, <1>12, <1>13, ObjectInvNext
  <1>15. \E g \in [0 .. m2.capacity_ - 1 -> Cells] :
           heap' = [heap EXCEPT ![m2.buffer_] = g]
    BY <1>6, <1>7, <1>8
  <1> QED
    BY <1>1, <1>4, <1>6, <1>7, <1>9, <1>14, <1>15, InPlaceStep

LEMMA ClearStep ==
  ASSUME ObjectsInv, thrown = "nothing", NEW o \in Objects, Clear(o)
  PROVE  ObjectsInv'
  <1>1. PICK m : m = objects[o]
    OBVIOUS
  <1>2. /\ o \in Alive /\ m \in Members /\ Shape(m) /\ Owns(m)
    BY <1>1, AliveFacts DEF Clear, ObjectInv
  <1> DEFINE m2 == Cleared(m)
  <1>3. /\ m2 \in Members /\ m2.buffer_ = m.buffer_ /\ m2.capacity_ = m.capacity_
        /\ m2.count_ = 0
    BY <1>2, ClearedFields
  <1>4. Shape(m2)
    <2>1. CASE m.capacity_ = 0
      BY <1>2, <2>1, ClearedFields DEF Shape
    <2>2. CASE m.capacity_ # 0
      BY <1>2, <2>2, ShapeMods, MemberFields DEF Owns
    <2> QED
      BY <2>1, <2>2
  <1>5. \/ heap' = heap
        \/ /\ m.buffer_ # Null
           /\ \E g \in [0 .. m.capacity_ - 1 -> Cells] :
                heap' = [heap EXCEPT ![m.buffer_] = g]
    <2>1. CASE m.count_ = 0
      BY <1>1, <2>1 DEF Clear
    <2>2. CASE m.count_ # 0
      <3>1. m.buffer_ # Null /\ heap[m.buffer_] \in [0 .. m.capacity_ - 1 -> Cells]
        BY <1>2, <2>2 DEF Shape, Owns
      <3> DEFINE g == [k \in DOMAIN heap[m.buffer_] |->
                         IF \E i \in 0 .. m.count_ - 1 :
                              k = (m.head_ + i) % m.capacity_
                         THEN Raw ELSE heap[m.buffer_][k]]
      <3>2. g \in [0 .. m.capacity_ - 1 -> Cells]
        BY <3>1, Zenon DEF Cells
      <3>3. heap' = [heap EXCEPT ![m.buffer_] = g]
        BY <1>1, <2>2, Zenon DEF Clear
      <3> QED
        BY <3>1, <3>2, <3>3
    <2> QED
      BY <2>1, <2>2
  <1>6. /\ objects' = [objects EXCEPT ![o] = m2] /\ ideal' = [ideal EXCEPT ![o] = <<>>]
        /\ torn' = torn \ {o} /\ stale' = stale \ {o} /\ UNCHANGED <<misfreed, thrown>>
    BY <1>1 DEF Clear, Forget
  <1> HIDE DEF m2
  <1>7. objects'[o] = m2 /\ ideal'[o] = <<>> /\ Len(<<>>) = 0 /\ <<>> \in Seq(Values)
    BY <1>6 DEF ObjectsInv, Typed
  <1>8. Owns(m2)'
    <2>1. CASE m.buffer_ = Null
      BY <1>2, <1>3, <2>1 DEF Owns
    <2>2. CASE m.buffer_ # Null
      <3>1. m.buffer_ \in Blocks /\ heap[m.buffer_] \in [0 .. m.capacity_ - 1 -> Cells]
        BY <1>2, <2>2, MemberFields DEF Owns
      <3>2. heap'[m.buffer_] \in [0 .. m.capacity_ - 1 -> Cells]
        BY <1>5, <3>1 DEF ObjectsInv, Typed
      <3> QED
        BY <1>3, <2>2, <3>2 DEF Owns
    <2> QED
      BY <2>1, <2>2
  <1>9. ObjectInv(o)'
    <2>1. MarkRight(m2)
      BY <1>3 DEF MarkRight
    <2>2. \A b : Holds(m2, b, <<>>)
      BY <1>3, <1>7 DEF Holds
    <2>3. thrown' # "allocation" => Owns(objects[o])'
      BY <1>7, <1>8 DEF Owns
    <2> QED
      BY <1>3, <1>4, <1>7, <2>1, <2>2, <2>3 DEF ObjectInv
  <1> QED
    BY <1>1, <1>2, <1>3, <1>5, <1>6, <1>7, <1>9, InPlaceStep

-----------------------------------------------------------------------------
(* Freeing and allocating blocks.                                          *)

LEMMA ReleasedFacts ==
  ASSUME ObjectsInv, NEW o \in Alive
  PROVE  /\ Released(objects[o]) \in [Blocks -> Contents \cup {Freed}]
         /\ \A b \in Blocks :
              Released(objects[o])[b] = IF b = objects[o].buffer_ THEN Freed ELSE heap[b]
  <1>1. objects[o].buffer_ \in Blocks \cup {Null} /\ Null \notin Blocks
    BY AliveFacts, MemberFields, MarkersAssumption
  <1> QED
    BY <1>1 DEF Released, ObjectsInv, Typed

LEMMA ReleaseRight ==
  ASSUME ObjectsInv, thrown # "allocation", NEW o, Release(o, objects[o])
  PROVE  ~misfreed' /\ o \in Alive
  <1>1. o \in Alive /\ misfreed' = (misfreed \/ WrongFree(objects[o]))
    BY DEF Release
  <1>2. ~misfreed
    BY DEF ObjectsInv, FreedRight
  <1>3. ~WrongFree(objects[o])
    <2>1. CASE objects[o].buffer_ = Null
      BY <2>1 DEF WrongFree
    <2>2. CASE objects[o].buffer_ # Null
      BY <1>1, <2>2, OwnedBlock
    <2> QED
      BY <2>1, <2>2
  <1> QED
    BY <1>1, <1>2, <1>3

(* An object that gets a new block, which was free once the object's old   *)
(* one had been released, or a block that no object gets.                  *)
LEMMA InstallStep ==
  ASSUME ObjectsInv, thrown = "nothing", NEW o \in Objects,
         NEW h, \/ o \notin Alive /\ h = heap
                \/ o \in Alive /\ h = Released(objects[o]),
         NEW b \in FreeBlocks(h), NEW n \in Sizes, NEW f \in [0 .. n - 1 -> Cells],
         heap' = [h EXCEPT ![b] = f],
         NEW m \in Members \cup {Absent}, objects' = [objects EXCEPT ![o] = m],
         m # Absent => m.buffer_ = b,
         thrown' \in {"nothing", "element"},
         m = Absent /\ thrown' = "nothing" => f = NewBlock(0),
         NEW s \in Seq(Values), ideal' = [ideal EXCEPT ![o] = s],
         torn' \ {o} = torn \ {o}, stale' \ {o} = stale \ {o},
         ~misfreed', misfreed' \in BOOLEAN, Good(o)'
  PROVE  ObjectsInv'
  <1>1. /\ h \in [Blocks -> Contents \cup {Freed}]
        /\ \A c \in Blocks :
             \/ h[c] = heap[c]
             \/ o \in Alive /\ c = objects[o].buffer_ /\ h[c] = Freed
    BY ReleasedFacts DEF ObjectsInv, Typed
  <1>2. b \in Blocks /\ h[b] = Freed /\ b # Null
    BY MarkersAssumption DEF FreeBlocks
  <1>3. \A u \in Objects : objects'[u] = IF u = o THEN m ELSE objects[u]
    BY DEF ObjectsInv, Typed
  <1>4. \A u \in Objects \ {o} : u \in Alive' <=> u \in Alive
    BY <1>3 DEF Alive
  <1>5. ASSUME NEW u \in Alive, u # o
        PROVE  objects[u].buffer_ # b
    <2>1. CASE h[b] = heap[b]
      BY <1>2, <2>1, FreeUnowned DEF FreeBlocks
    <2>2. CASE o \in Alive /\ b = objects[o].buffer_
      BY <1>2, <1>5, <2>2 DEF ObjectsInv, NoSharing
    <2> QED
      BY <1>1, <1>2, <2>1, <2>2
  <1>6. \A c \in Blocks : heap'[c] = IF c = b THEN f ELSE h[c]
    BY <1>1, <1>2
  <1>7. Typed'
    <2>1. heap' \in [Blocks -> Contents \cup {Freed}]
      BY <1>1, BlockFacts
    <2>2. objects' \in [Objects -> Members \cup {Absent}]
      BY DEF ObjectsInv, Typed
    <2>3. ideal' \in [Objects -> Seq(Values)]
      BY DEF ObjectsInv, Typed
    <2>4. torn' \subseteq Objects /\ stale' \subseteq Objects
      BY DEF ObjectsInv, Typed
    <2> QED
      BY <2>1, <2>2, <2>3, <2>4 DEF Typed
  <1>8. ASSUME NEW u \in Objects PROVE Good(u)'
    <2>1. CASE u = o
      BY <2>1
    <2>2. CASE u # o
      <3>1. ASSUME u \in Alive, objects[u].buffer_ # Null
            PROVE  heap'[objects[u].buffer_] = heap[objects[u].buffer_]
        <4>1. objects[u].buffer_ \in Blocks /\ objects[u].buffer_ # b
          BY <1>5, <2>2, <3>1, AliveFacts, MemberFields
        <4>2. o \in Alive => objects[u].buffer_ # objects[o].buffer_
          BY <2>2, <3>1 DEF ObjectsInv, NoSharing
        <4> QED
          BY <1>1, <1>6, <4>1, <4>2
      <3>2. objects'[u] = objects[u] /\ ideal'[u] = ideal[u]
        BY <1>3, <2>2 DEF ObjectsInv, Typed
      <3>3. (u \in torn => u \in torn') /\ (u \in stale => u \in stale')
        BY <2>2
      <3> QED
        BY <2>2, <3>1, <3>2, <3>3, OthersStayGood
    <2> QED
      BY <2>1, <2>2
  <1>9. NoSharing'
    <2> SUFFICES ASSUME NEW p \in Alive', NEW q \in Alive', p # q,
                        objects'[p].buffer_ # Null
                 PROVE  objects'[p].buffer_ # objects'[q].buffer_
      BY DEF NoSharing
    <2>0. p \in Objects /\ q \in Objects
      BY DEF Alive
    <2>1. CASE p = o
      BY <1>3, <1>4, <1>5, <2>0, <2>1 DEF Alive
    <2>2. CASE q = o
      BY <1>3, <1>4, <1>5, <2>0, <2>2 DEF Alive
    <2>3. CASE p # o /\ q # o
      BY <1>3, <1>4, <2>0, <2>3 DEF ObjectsInv, NoSharing
    <2> QED
      BY <2>1, <2>2, <2>3
  <1>10. NoLeak'
    <2> SUFFICES ASSUME thrown' = "nothing", NEW c \in Blocks,
                        heap'[c] \notin {Freed, NewBlock(0)}
                 PROVE  \E u \in Alive' : objects'[u].buffer_ = c
      BY DEF NoLeak, NewBlock
    <2>1. CASE c = b
      <3>1. m # Absent
        BY <1>6, <2>1
      <3> QED
        BY <1>3, <2>1, <3>1 DEF Alive
    <2>2. CASE c # b
      <3>1. h[c] \notin {Freed, NewBlock(0)} /\ heap[c] = h[c]
        BY <1>1, <1>6, <2>2
      <3>2. PICK u \in Alive : objects[u].buffer_ = c
        BY <3>1 DEF ObjectsInv, NoLeak
      <3>3. u # o
        BY <3>1, <3>2, ReleasedFacts
      <3> QED
        BY <1>3, <1>4, <3>2, <3>3 DEF Alive
    <2> QED
      BY <2>1, <2>2
  <1>11. FreedRight'
    BY DEF FreedRight
  <1> QED
    BY <1>7, <1>8, <1>9, <1>10, <1>11 DEF ObjectsInv

-----------------------------------------------------------------------------
(* The copying loop.                                                       *)

LEMMA CopiedFacts ==
  ASSUME ObjectsInv, thrown = "nothing", NEW p \in Alive,
         NEW n \in 0 .. objects[p].count_
  PROVE  CopiedBlock(objects[p], n) \in [0 .. objects[p].capacity_ - 1 -> Cells]
  <1>1. PICK m : m = objects[p]
    OBVIOUS
  <1>2. m \in Members /\ Shape(m) /\ Owns(m)
    BY <1>1, AliveFacts DEF ObjectInv
  <1>3. /\ m.capacity_ \in Nat /\ m.count_ \in Nat
        /\ n \in Nat /\ (n > 0 => m.count_ > 0)
    BY <1>1, <1>2, MemberFields
  <1>4. ASSUME NEW k \in 0 .. m.capacity_ - 1, k < n
        PROVE  heap[m.buffer_][k] \in Cells
    <2>1. m.buffer_ # Null
      BY <1>2, <1>3, <1>4 DEF Shape
    <2> QED
      BY <1>2, <2>1 DEF Owns
  <1> QED
    BY <1>1, <1>4 DEF CopiedBlock, Cells

(* A copy that the loop completes holds what its source held, if that      *)
(* starts at slot 0 or fills the storage.                                  *)
LEMMA HoldsCopy ==
  ASSUME NEW m \in Members, Shape(m), CopiesAll(m), NEW s,
         Holds(m, heap[m.buffer_], s),
         NEW w, w.count_ = m.count_, w.head_ = m.head_, w.capacity_ = m.capacity_
  PROVE  Holds(w, CopiedBlock(m, m.count_), s)
  <1> SUFFICES ASSUME NEW i \in 1 .. m.count_
               PROVE  s[i] = CopiedBlock(m, m.count_)[(m.head_ + i - 1) % m.capacity_]
    BY DEF Holds
  <1>1. m.capacity_ # 0
    BY MemberFields DEF Shape
  <1>2. /\ m.capacity_ \in Nat \ {0} /\ m.head_ \in 0 .. m.capacity_ - 1
        /\ m.count_ \in 0 .. m.capacity_ /\ (m.full_ => m.count_ = m.capacity_)
    BY <1>1, MemberFields DEF Shape
  <1> DEFINE k == (m.head_ + i - 1) % m.capacity_
  <1>3. k \in 0 .. m.capacity_ - 1
    BY <1>2
  <1>4. k < m.count_
    <2>1. CASE m.full_
      BY <1>2, <1>3, <2>1
    <2>2. CASE m.head_ = 0
      <3>1. m.head_ + i - 1 = i - 1 /\ i - 1 \in 0 .. m.capacity_ - 1
        BY <1>2, <2>2
      <3>2. (i - 1) % m.capacity_ = i - 1
        BY <1>2, <3>1
      <3> QED
        BY <1>2, <3>1, <3>2
    <2>3. m.count_ # 0
      BY <1>2
    <2> QED
      BY <2>1, <2>2, <2>3 DEF CopiesAll
  <1>5. s[i] = heap[m.buffer_][k]
    BY DEF Holds
  <1> HIDE DEF k
  <1>6. CopiedBlock(m, m.count_)[k] = heap[m.buffer_][k]
    BY <1>3, <1>4 DEF CopiedBlock
  <1> QED
    BY <1>5, <1>6 DEF k

-----------------------------------------------------------------------------
(* The special members.                                                    *)

(* The shape of an object does not depend on the mark of back(), nor on    *)
(* which block it has.                                                     *)
LEMMA SameShape ==
  ASSUME NEW m, Shape(m), NEW w,
         w.capacity_ = m.capacity_, w.head_ = m.head_, w.tail_ = m.tail_,
         w.count_ = m.count_, w.full_ = m.full_,
         w.buffer_ = m.buffer_ \/ w.buffer_ # Null
  PROVE  Shape(w)
  BY DEF Shape

(* An object that takes over indices of a right one has no mark, and       *)
(* should have none, is right too.                                         *)
LEMMA SameMark ==
  ASSUME NEW m, MarkRight(m), m.just_overwrote_ = FALSE, NEW w,
         w.capacity_ = m.capacity_, w.head_ = m.head_, w.tail_ = m.tail_,
         w.count_ = m.count_, w.full_ = m.full_, w.just_overwrote_ = FALSE
  PROVE  MarkRight(w)
  BY DEF MarkRight, TailInPlace

LEMMA CopyToStep ==
  ASSUME ObjectsInv, thrown = "nothing", NEW o \in Objects, NEW p \in Alive, o # p,
         NEW h, \/ o \notin Alive /\ h = heap
                \/ o \in Alive /\ h = Released(objects[o]),
         NEW mark, mark.just_overwrote_ \in BOOLEAN,
         mark.overwrite_position_ \in Indices,
         CopyTo(o, p, h, mark), ~misfreed', misfreed' \in BOOLEAN
  PROVE  ObjectsInv'
  <1>1. PICK m : m = objects[p]
    OBVIOUS
  <1>2. PICK s : s = ideal[p]
    OBVIOUS
  <1>3. /\ m \in Members /\ Shape(m) /\ ObjectInv(p) /\ p \in Objects
        /\ s \in Seq(Values) /\ Len(s) = m.count_
        /\ m.capacity_ \in Sizes /\ m.count_ \in 0 .. m.count_
    <2>1. m \in Members /\ ObjectInv(p) /\ p \in Objects
      BY <1>1, AliveFacts
    <2> QED
      BY <1>1, <1>2, <2>1, MemberFields DEF ObjectInv, ObjectsInv, Typed
  <1>4. PICK b \in FreeBlocks(h) :
          /\ heap' = [h EXCEPT ![b] = CopiedBlock(m, m.count_)]
          /\ objects' = [objects EXCEPT ![o] = WithMark([m EXCEPT !.buffer_ = b], mark)]
    BY <1>1 DEF CopyTo
  <1>5. /\ ideal' = [ideal EXCEPT ![o] = s] /\ thrown' = thrown
        /\ Inherit(o, p, CopiesAll(m), mark)
    BY <1>1, <1>2 DEF CopyTo
  <1>6. b \in Blocks /\ b # Null
    BY MarkersAssumption DEF FreeBlocks
  <1> DEFINE w == WithMark([m EXCEPT !.buffer_ = b], mark)
             f == CopiedBlock(m, m.count_)
  <1>7. /\ w \in Members /\ w.capacity_ = m.capacity_ /\ w.head_ = m.head_
        /\ w.tail_ = m.tail_ /\ w.count_ = m.count_ /\ w.full_ = m.full_
        /\ w.just_overwrote_ = mark.just_overwrote_ /\ w.buffer_ = b /\ w # Absent
    <2> DEFINE v == [m EXCEPT !.buffer_ = b]
    <2>1. /\ v \in Members /\ v.capacity_ = m.capacity_ /\ v.head_ = m.head_
          /\ v.tail_ = m.tail_ /\ v.count_ = m.count_ /\ v.full_ = m.full_
          /\ v.buffer_ = b
      BY <1>3, <1>6, WithBlockFields
    <2> HIDE DEF v
    <2>2. /\ WithMark(v, mark) \in Members /\ WithMark(v, mark).capacity_ = v.capacity_
          /\ WithMark(v, mark).head_ = v.head_ /\ WithMark(v, mark).tail_ = v.tail_
          /\ WithMark(v, mark).count_ = v.count_ /\ WithMark(v, mark).full_ = v.full_
          /\ WithMark(v, mark).just_overwrote_ = mark.just_overwrote_
          /\ WithMark(v, mark).buffer_ = v.buffer_
      BY <2>1, WithMarkFields
    <2> QED
      BY <2>1, <2>2, MemberFields DEF v
  <1>8. f \in [0 .. m.capacity_ - 1 -> Cells]
    BY <1>1, <1>3, CopiedFacts
  <1>9. o \notin torn' => Holds(w, f, s)
    <2> SUFFICES ASSUME o \notin torn' PROVE Holds(w, f, s)
      OBVIOUS
    <2>1. p \notin torn /\ CopiesAll(m)
      BY <1>5 DEF Inherit
    <2>2. Holds(m, heap[m.buffer_], s)
      BY <1>1, <1>2, <1>3, <2>1 DEF ObjectInv
    <2> QED
      BY <1>3, <1>7, <2>1, <2>2, HoldsCopy
  <1>10. o \notin torn' /\ o \notin stale' => MarkRight(w)
    <2> SUFFICES ASSUME o \notin torn', o \notin stale' PROVE MarkRight(w)
      OBVIOUS
    <2>1. p \notin torn /\ p \notin stale /\ ~mark.just_overwrote_ /\ ~m.just_overwrote_
      BY <1>1, <1>5 DEF Inherit
    <2>2. MarkRight(m) /\ m.just_overwrote_ = FALSE
      BY <1>1, <1>3, <2>1, MemberFields DEF ObjectInv
    <2> QED
      BY <1>7, <2>1, <2>2, SameMark
  <1>11. Shape(w)
    BY <1>3, <1>6, <1>7, SameShape
  <1>12. h \in [Blocks -> Contents \cup {Freed}]
    BY ReleasedFacts DEF ObjectsInv, Typed
  <1> HIDE DEF w, f
  <1>13. objects'[o] = w /\ heap'[w.buffer_] = f /\ ideal'[o] = s
    BY <1>4, <1>5, <1>6, <1>7, <1>12 DEF ObjectsInv, Typed, w, f
  <1>14. Good(o)'
    <2>1. ObjectInv(o)'
      BY <1>3, <1>6, <1>7, <1>8, <1>9, <1>10, <1>11, <1>13, ObjectInvNext
    <2> QED
      BY <1>7, <1>13, <2>1 DEF Good, Alive
  <1>15. torn' \ {o} = torn \ {o} /\ stale' \ {o} = stale \ {o}
    BY <1>5 DEF Inherit
  <1>16. /\ heap' = [h EXCEPT ![b] = f] /\ objects' = [objects EXCEPT ![o] = w]
         /\ thrown' \in {"nothing", "element"}
    BY <1>4, <1>5 DEF w, f
  <1> QED
    BY <1>3, <1>5, <1>7, <1>8, <1>14, <1>15, <1>16, InstallStep

LEMMA CopyThrowsStep ==
  ASSUME ObjectsInv, thrown = "nothing", NEW o \in Objects, NEW p \in Alive, o # p,
         NEW h, \/ o \notin Alive /\ h = heap
                \/ o \in Alive /\ h = Released(objects[o]),
         NEW left \in Members \cup {Absent},
         left # Absent => /\ Shape(left)
                          /\ left.capacity_ = objects[p].capacity_,
         CopyThrows(o, p, h, left), ~misfreed', misfreed' \in BOOLEAN
  PROVE  ObjectsInv'
  <1>1. PICK m : m = objects[p]
    OBVIOUS
  <1>2. m \in Members /\ m.capacity_ \in Sizes
    BY <1>1, AliveFacts, MemberFields
  <1>3. PICK b \in FreeBlocks(h), n \in 0 .. m.count_ - 1 :
          /\ heap' = [h EXCEPT ![b] = CopiedBlock(m, n)]
          /\ objects' = [objects EXCEPT
               ![o] = IF left = Absent THEN Absent ELSE [left EXCEPT !.buffer_ = b]]
    BY <1>1 DEF CopyThrows
  <1>4. /\ thrown' = "element" /\ ideal' = [ideal EXCEPT ![o] = <<>>]
        /\ torn' = torn \cup {o} /\ stale' = stale
    BY DEF CopyThrows
  <1>5. b \in Blocks /\ b # Null
    BY MarkersAssumption DEF FreeBlocks
  <1> DEFINE w == IF left = Absent THEN Absent ELSE [left EXCEPT !.buffer_ = b]
             f == CopiedBlock(m, n)
  <1>6. f \in [0 .. m.capacity_ - 1 -> Cells]
    <2>1. n \in 0 .. m.count_
      BY <1>2, MemberFields
    <2> QED
      BY <1>1, <2>1, CopiedFacts
  <1>7. CASE left = Absent
    <2>1. heap' = [h EXCEPT ![b] = f] /\ objects' = [objects EXCEPT ![o] = Absent]
      BY <1>3, <1>7
    <2> HIDE DEF w, f
    <2>2. objects'[o] = Absent
      BY <2>1 DEF ObjectsInv, Typed
    <2>3. Good(o)'
      BY <1>4, <2>2 DEF Good, Alive
    <2>4. /\ thrown' \in {"nothing", "element"} /\ thrown' # "nothing"
          /\ torn' \ {o} = torn \ {o} /\ stale' \ {o} = stale \ {o}
          /\ <<>> \in Seq(Values)
      BY <1>4
    <2> QED
      BY <1>2, <1>4, <1>6, <2>1, <2>3, <2>4, InstallStep
  <1>8. CASE left # Absent
    <2>1. /\ left \in Members /\ Shape(left) /\ left.capacity_ = m.capacity_
          /\ w = [left EXCEPT !.buffer_ = b]
      BY <1>1, <1>8
    <2>2. /\ w \in Members /\ w.capacity_ = m.capacity_ /\ w.head_ = left.head_
          /\ w.tail_ = left.tail_ /\ w.count_ = left.count_ /\ w.full_ = left.full_
          /\ w.buffer_ = b
      <3> DEFINE v == [left EXCEPT !.buffer_ = b]
      <3>1. /\ v \in Members /\ v.capacity_ = left.capacity_ /\ v.head_ = left.head_
            /\ v.tail_ = left.tail_ /\ v.count_ = left.count_ /\ v.full_ = left.full_
            /\ v.buffer_ = b
        BY <1>2, <1>5, <2>1, WithBlockFields
      <3>2. w = v
        BY <2>1
      <3> HIDE DEF v, w
      <3> QED
        BY <2>1, <3>1, <3>2
    <2>3. w # Absent
      BY <2>2, MemberFields
    <2>4. Shape(w)
      BY <1>5, <2>1, <2>2, SameShape
    <2>5. h \in [Blocks -> Contents \cup {Freed}]
      BY ReleasedFacts DEF ObjectsInv, Typed
    <2> HIDE DEF w, f
    <2>6. objects'[o] = w /\ heap'[w.buffer_] = f /\ ideal'[o] = <<>>
      BY <1>3, <1>4, <1>5, <2>2, <2>5 DEF ObjectsInv, Typed, w, f
    <2>7. Good(o)'
      <3>1. ObjectInv(o)'
        BY <1>4, <1>5, <1>6, <2>2, <2>4, <2>6, ObjectInvNext
      <3> QED
        BY <2>3, <2>6, <3>1 DEF Good, Alive
    <2>8. /\ heap' = [h EXCEPT ![b] = f] /\ objects' = [objects EXCEPT ![o] = w]
          /\ thrown' \in {"nothing", "element"} /\ thrown' # "nothing"
          /\ torn' \ {o} = torn \ {o} /\ stale' \ {o} = stale \ {o}
          /\ <<>> \in Seq(Values)
      BY <1>3, <1>4 DEF w, f
    <2> QED
      BY <1>2, <1>4, <1>6, <2>2, <2>7, <2>8, InstallStep
  <1> QED
    BY <1>7, <1>8

LEMMA MoveToStep ==
  ASSUME ObjectsInv, thrown = "nothing", NEW o \in Objects, NEW p \in Alive, o # p,
         \/ o \notin Alive /\ heap' = heap
         \/ o \in Alive /\ heap' = Released(objects[o]),
         NEW mark, mark.just_overwrote_ \in BOOLEAN,
         mark.overwrite_position_ \in Indices,
         MoveTo(o, p, mark), ~misfreed', misfreed' \in BOOLEAN
  PROVE  ObjectsInv'
  <1>1. PICK m : m = objects[p]
    OBVIOUS
  <1>2. PICK s : s = ideal[p]
    OBVIOUS
  <1>3. /\ m \in Members /\ Shape(m) /\ Owns(m) /\ ObjectInv(p) /\ p \in Objects
        /\ s \in Seq(Values) /\ Len(s) = m.count_ /\ m # Absent
    <2>1. m \in Members /\ ObjectInv(p) /\ p \in Objects /\ m # Absent
      BY <1>1, AliveFacts
    <2> QED
      BY <1>1, <1>2, <2>1 DEF ObjectInv, ObjectsInv, Typed
  <1>4. PICK w : w = WithMark(m, mark)
    OBVIOUS
  <1>5. PICK z : z = MovedFrom(m)
    OBVIOUS
  <1>6. /\ w \in Members /\ w.capacity_ = m.capacity_ /\ w.head_ = m.head_
        /\ w.tail_ = m.tail_ /\ w.count_ = m.count_ /\ w.full_ = m.full_
        /\ w.just_overwrote_ = mark.just_overwrote_ /\ w.buffer_ = m.buffer_
        /\ w # Absent
    BY <1>3, <1>4, WithMarkFields, MemberFields
  <1>7. /\ z \in Members /\ z.capacity_ = 0 /\ z.buffer_ = Null /\ z.head_ = 0
        /\ z.tail_ = 0 /\ z.count_ = 0 /\ z.full_ = FALSE /\ z # Absent
    BY <1>3, <1>5, MovedFromFields, MemberFields
  <1>8. /\ objects' = [objects EXCEPT ![o] = w, ![p] = z]
        /\ ideal' = [ideal EXCEPT ![o] = s, ![p] = <<>>]
        /\ Inherit(o, p, TRUE, mark) /\ thrown' = thrown
    BY <1>1, <1>2, <1>4, <1>5 DEF MoveTo
  <1>9. /\ \A u \in Objects : objects'[u] = IF u = p THEN z ELSE IF u = o THEN w
                                            ELSE objects[u]
        /\ \A u \in Objects : ideal'[u] = IF u = p THEN <<>> ELSE IF u = o THEN s
                                          ELSE ideal[u]
    BY <1>3, <1>8 DEF ObjectsInv, Typed
  <1>10. /\ torn' \ {o} = torn \ {o} /\ stale' \ {o} = stale \ {o}
    BY <1>8 DEF Inherit
  <1>11. /\ heap' \in [Blocks -> Contents \cup {Freed}]
         /\ \A c \in Blocks :
              \/ heap'[c] = heap[c]
              \/ o \in Alive /\ c = objects[o].buffer_ /\ heap'[c] = Freed
    BY ReleasedFacts DEF ObjectsInv, Typed
  <1>12. \A u \in Alive : u # o /\ objects[u].buffer_ # Null =>
           /\ objects[u].buffer_ \in Blocks
           /\ heap'[objects[u].buffer_] = heap[objects[u].buffer_]
    <2> SUFFICES ASSUME NEW u \in Alive, u # o, objects[u].buffer_ # Null
                 PROVE  /\ objects[u].buffer_ \in Blocks
                        /\ heap'[objects[u].buffer_] = heap[objects[u].buffer_]
      OBVIOUS
    <2>1. objects[u].buffer_ \in Blocks
      BY AliveFacts, MemberFields
    <2>2. o \in Alive => objects[u].buffer_ # objects[o].buffer_
      BY DEF ObjectsInv, NoSharing
    <2> QED
      BY <1>11, <2>1, <2>2
  <1>13. Typed'
    <2>1. objects' \in [Objects -> Members \cup {Absent}]
      BY <1>6, <1>7, <1>8 DEF ObjectsInv, Typed
    <2>2. ideal' \in [Objects -> Seq(Values)]
      <3>1. <<>> \in Seq(Values)
        OBVIOUS
      <3> QED
        BY <1>3, <1>8, <3>1 DEF ObjectsInv, Typed
    <2>3. torn' \subseteq Objects /\ stale' \subseteq Objects
      BY <1>10 DEF ObjectsInv, Typed
    <2> QED
      BY <1>8, <1>11, <2>1, <2>2, <2>3 DEF Typed
  <1>14. ObjectInv(o)'
    <2>1. Shape(w)
      BY <1>3, <1>6, SameShape
    <2>2. o \notin torn' /\ o \notin stale' => MarkRight(w)
      <3> SUFFICES ASSUME o \notin torn', o \notin stale' PROVE MarkRight(w)
        OBVIOUS
      <3>1. p \notin torn /\ p \notin stale /\ ~mark.just_overwrote_ /\ ~m.just_overwrote_
        BY <1>1, <1>8 DEF Inherit
      <3>2. MarkRight(m) /\ m.just_overwrote_ = FALSE
        BY <1>1, <1>3, <3>1, MemberFields DEF ObjectInv
      <3> QED
        BY <1>6, <3>1, <3>2, SameMark
    <2>3. objects'[o] = w /\ ideal'[o] = s
      BY <1>9
    <2>4. o \notin torn' => Holds(m, heap[m.buffer_], s)
      BY <1>1, <1>2, <1>3, <1>8 DEF ObjectInv, Inherit
    <2>5. CASE m.buffer_ = Null
      <3>1. m.count_ = 0 /\ m.capacity_ = 0
        BY <1>3, <2>5 DEF Shape, Owns
      <3>2. Owns(objects[o])'
        BY <1>6, <2>3, <2>5, <3>1 DEF Owns
      <3>3. \A f : Holds(w, f, s)
        BY <1>3, <1>6, <3>1 DEF Holds
      <3>4. Len(ideal'[o]) = objects'[o].count_
        BY <1>3, <1>6, <2>3
      <3> QED
        BY <2>1, <2>2, <2>3, <3>2, <3>3, <3>4 DEF ObjectInv
    <2>6. CASE m.buffer_ # Null
      <3>1. heap'[w.buffer_] = heap[m.buffer_]
        BY <1>1, <1>6, <1>12, <2>6
      <3>2. heap[m.buffer_] \in [0 .. w.capacity_ - 1 -> Cells]
        BY <1>3, <1>6, <2>6 DEF Owns
      <3>3. o \notin torn' => Holds(w, heap[m.buffer_], s)
        BY <1>6, <2>4 DEF Holds
      <3> QED
        BY <1>3, <1>6, <2>1, <2>2, <2>3, <2>6, <3>1, <3>2, <3>3, ObjectInvNext
    <2> QED
      BY <2>5, <2>6
  <1>15. ObjectInv(p)'
    <2>1. objects'[p] = z /\ ideal'[p] = <<>> /\ Len(<<>>) = 0
      BY <1>3, <1>9
    <2>2. Shape(objects'[p])
      BY <1>7, <2>1 DEF Shape
    <2>3. Owns(objects[p])'
      BY <1>7, <2>1 DEF Owns
    <2>4. \A f : Holds(objects'[p], f, ideal'[p])
      BY <1>7, <2>1 DEF Holds
    <2>5. MarkRight(objects'[p])
      BY <1>7, <2>1 DEF MarkRight
    <2>6. Len(ideal'[p]) = objects'[p].count_
      BY <1>7, <2>1
    <2> QED
      BY <2>2, <2>3, <2>4, <2>5, <2>6 DEF ObjectInv
  <1>16. ASSUME NEW u \in Objects PROVE Good(u)'
    <2>1. CASE u = o
      BY <1>6, <1>9, <1>14, <2>1 DEF Good, Alive
    <2>2. CASE u = p
      BY <1>7, <1>9, <1>15, <2>2 DEF Good, Alive
    <2>3. CASE u # o /\ u # p
      <3>1. /\ objects'[u] = objects[u] /\ ideal'[u] = ideal[u]
            /\ (u \in torn => u \in torn') /\ (u \in stale => u \in stale')
        BY <1>9, <1>10, <2>3
      <3> QED
        BY <1>8, <1>12, <2>3, <3>1, OthersStayGood
    <2> QED
      BY <2>1, <2>2, <2>3
  <1>17. /\ \A u \in Objects \ {o, p} : u \in Alive' <=> u \in Alive
         /\ o \in Alive' /\ p \in Alive' /\ Alive' \subseteq Objects
    BY <1>3, <1>6, <1>7, <1>9 DEF Alive
  <1>18. NoSharing'
    <2> SUFFICES ASSUME NEW q \in Alive', NEW r \in Alive', q # r,
                        objects'[q].buffer_ # Null
                 PROVE  objects'[q].buffer_ # objects'[r].buffer_
      BY DEF NoSharing
    <2>1. q \in Objects /\ r \in Objects /\ q # p
      BY <1>7, <1>9, <1>17
    <2>2. CASE r = p
      BY <1>7, <1>9, <2>1, <2>2
    <2>3. CASE q = o /\ r # p
      BY <1>1, <1>6, <1>9, <1>17, <2>1, <2>3 DEF ObjectsInv, NoSharing
    <2>4. CASE r = o
      BY <1>1, <1>6, <1>9, <1>17, <2>1, <2>4 DEF ObjectsInv, NoSharing
    <2>5. CASE q # o /\ r # o /\ r # p
      BY <1>9, <1>17, <2>1, <2>5 DEF ObjectsInv, NoSharing
    <2> QED
      BY <2>2, <2>3, <2>4, <2>5
  <1>19. NoLeak'
    <2> SUFFICES ASSUME NEW c \in Blocks, heap'[c] \notin {Freed, NewBlock(0)}
                 PROVE  \E u \in Alive' : objects'[u].buffer_ = c
      BY DEF NoLeak, NewBlock
    <2>1. heap'[c] = heap[c]
      BY <1>11
    <2>2. PICK u \in Alive : objects[u].buffer_ = c
      BY <2>1 DEF ObjectsInv, NoLeak
    <2>3. u # o
      <3>1. o \in Alive => heap' = Released(objects[o])
        OBVIOUS
      <3>2. o \in Alive => Released(objects[o])[objects[o].buffer_] = Freed
                            \/ objects[o].buffer_ \notin Blocks
        BY ReleasedFacts
      <3> QED
        BY <2>2, <3>1, <3>2
    <2>4. CASE u = p
      BY <1>1, <1>6, <1>9, <1>17, <2>2, <2>4
    <2>5. CASE u # p
      <3>1. u \in Objects
        BY DEF Alive
      <3> QED
        BY <1>9, <1>17, <2>2, <2>3, <2>5, <3>1
    <2> QED
      BY <2>4, <2>5
  <1>20. FreedRight'
    BY DEF FreedRight
  <1> QED
    BY <1>13, <1>16, <1>18, <1>19, <1>20 DEF ObjectsInv

(* Storage of o that is freed, while o is destroyed or keeps the pointer   *)
(* with nothing to follow: no other object notices.                        *)
LEMMA ReleaseStep ==
  ASSUME ObjectsInv, NEW o \in Alive, heap' = Released(objects[o]),
         NEW m \in Members \cup {Absent}, objects' = [objects EXCEPT ![o] = m],
         Forget(o), thrown' \in {thrown, "allocation"},
         \/ m = Absent
         \/ /\ Shape(m) /\ m.count_ = 0 /\ m.buffer_ = objects[o].buffer_
            /\ thrown' = "allocation",
         thrown' # "allocation" => ~misfreed', misfreed' \in BOOLEAN
  PROVE  ObjectsInv'
  <1>1. o \in Objects /\ objects[o] # Absent
    BY AliveFacts
  <1>2. \A u \in Objects : objects'[u] = IF u = o THEN m ELSE objects[u]
    BY <1>1 DEF ObjectsInv, Typed
  <1>3. /\ \A u \in Objects : ideal'[u] = IF u = o THEN <<>> ELSE ideal[u]
        /\ ideal' \in [Objects -> Seq(Values)] /\ Len(<<>>) = 0
        /\ torn' = torn \ {o} /\ stale' = stale \ {o}
    <2>1. <<>> \in Seq(Values)
      OBVIOUS
    <2> QED
      BY <1>1, <2>1 DEF ObjectsInv, Typed, Forget
  <1>4. /\ heap' \in [Blocks -> Contents \cup {Freed}]
        /\ \A c \in Blocks : heap'[c] = IF c = objects[o].buffer_ THEN Freed ELSE heap[c]
    BY ReleasedFacts
  <1>5. Typed'
    <2>1. objects' \in [Objects -> Members \cup {Absent}]
      BY <1>1 DEF ObjectsInv, Typed
    <2>2. thrown' \in {"nothing", "allocation", "element"}
      BY DEF ObjectsInv, Typed
    <2>3. torn' \subseteq Objects /\ stale' \subseteq Objects
      BY <1>3 DEF ObjectsInv, Typed
    <2> QED
      BY <1>3, <1>4, <2>1, <2>2, <2>3 DEF Typed
  <1>6. \A u \in Objects \ {o} : u \in Alive' <=> u \in Alive
    BY <1>2 DEF Alive
  <1>7. ASSUME NEW u \in Objects PROVE Good(u)'
    <2>1. CASE u = o /\ m = Absent
      BY <1>2, <1>3, <2>1 DEF Good, Alive
    <2>2. CASE u = o /\ m # Absent
      <3>1. /\ objects'[o] = m /\ ideal'[o] = <<>> /\ Shape(m) /\ m.count_ = 0
            /\ thrown' = "allocation"
        BY <1>1, <1>2, <1>3, <2>2
      <3>2. \A f : Holds(objects'[o], f, ideal'[o])
        BY <1>3, <3>1 DEF Holds
      <3>3. MarkRight(objects'[o])
        BY <3>1 DEF MarkRight
      <3>4. ObjectInv(o)'
        BY <3>1, <3>2, <3>3 DEF ObjectInv
      <3> QED
        BY <1>1, <2>2, <3>1, <3>4 DEF Good, Alive
    <2>3. CASE u # o
      <3>1. /\ objects'[u] = objects[u] /\ ideal'[u] = ideal[u]
            /\ (u \in torn => u \in torn') /\ (u \in stale => u \in stale')
        BY <1>2, <1>3, <2>3
      <3>2. ASSUME u \in Alive, objects[u].buffer_ # Null
            PROVE  heap'[objects[u].buffer_] = heap[objects[u].buffer_]
        <4>1. objects[u].buffer_ \in Blocks
          BY <3>2, AliveFacts, MemberFields
        <4>2. objects[u].buffer_ # objects[o].buffer_
          BY <2>3, <3>2 DEF ObjectsInv, NoSharing
        <4> QED
          BY <1>4, <4>1, <4>2
      <3>3. (thrown' = "nothing" => thrown = "nothing")
             /\ (thrown' # "allocation" => thrown # "allocation")
        OBVIOUS
      <3> QED
        BY <3>1, <3>2, <3>3, OthersStayGood
    <2> QED
      BY <2>1, <2>2, <2>3
  <1>8. NoSharing'
    <2> SUFFICES ASSUME NEW p \in Alive', NEW q \in Alive', p # q,
                        objects'[p].buffer_ # Null
                 PROVE  objects'[p].buffer_ # objects'[q].buffer_
      BY DEF NoSharing
    <2>1. p \in Objects /\ q \in Objects /\ objects'[p] # Absent /\ objects'[q] # Absent
      BY DEF Alive
    <2>2. /\ p \in Alive /\ objects'[p].buffer_ = objects[p].buffer_
          /\ q \in Alive /\ objects'[q].buffer_ = objects[q].buffer_
      BY <1>2, <1>6, <2>1
    <2> QED
      BY <2>2 DEF ObjectsInv, NoSharing
  <1>9. NoLeak'
    <2> SUFFICES ASSUME thrown' = "nothing", NEW c \in Blocks,
                        heap'[c] \notin {Freed, NewBlock(0)}
                 PROVE  \E u \in Alive' : objects'[u].buffer_ = c
      BY DEF NoLeak, NewBlock
    <2>1. c # objects[o].buffer_ /\ heap'[c] = heap[c]
      BY <1>4
    <2>2. PICK u \in Alive : objects[u].buffer_ = c
      BY <2>1 DEF ObjectsInv, NoLeak
    <2>3. u # o /\ u \in Objects
      BY <2>1, <2>2 DEF Alive
    <2> QED
      BY <1>2, <1>6, <2>2, <2>3
  <1>10. FreedRight'
    BY DEF FreedRight
  <1> QED
    BY <1>5, <1>7, <1>8, <1>9, <1>10 DEF ObjectsInv

LEMMA ConstructStep ==
  ASSUME ObjectsInv, thrown = "nothing", NEW o \in Objects, NEW n \in Capacities,
         Construct(o, n)
  PROVE  ObjectsInv'
  <1>1. o \notin Alive /\ objects[o] = Absent
    BY DEF Construct, Alive
  <1>2. PICK b \in FreeBlocks(heap) :
          /\ heap' = [heap EXCEPT ![b] = NewBlock(n)]
          /\ objects' = IF n = 0 THEN objects ELSE [objects EXCEPT ![o] = Fresh(n, b)]
    BY DEF Construct
  <1>3. /\ ideal[o] = <<>> /\ <<>> \in Seq(Values) /\ Len(<<>>) = 0
        /\ n \in Sizes /\ n \in Nat /\ b \in Blocks /\ b # Null
        /\ UNCHANGED <<ideal, torn, stale, misfreed, thrown>>
    <2>1. ideal[o] = <<>>
      BY <1>1 DEF ObjectsInv, Good
    <2> QED
      BY <2>1, CapacitiesAssumption, MarkersAssumption DEF Construct, FreeBlocks, Sizes
  <1>4. NewBlock(n) \in [0 .. n - 1 -> Cells]
    BY DEF NewBlock, Cells
  <1>5. ~misfreed' /\ misfreed' \in BOOLEAN
    BY <1>3 DEF ObjectsInv, FreedRight, Typed
  <1>6. ideal' = [ideal EXCEPT ![o] = <<>>] /\ thrown' \in {"nothing", "element"}
    BY <1>3 DEF ObjectsInv, Typed
  <1>7. CASE n = 0
    <2>1. objects' = [objects EXCEPT ![o] = Absent]
      BY <1>1, <1>2, <1>7 DEF ObjectsInv, Typed
    <2>2. objects'[o] = Absent
      BY <1>1, <1>2, <1>7
    <2>3. Good(o)'
      BY <1>3, <2>2 DEF Good, Alive
    <2>4. NewBlock(n) = NewBlock(0)
      BY <1>7
    <2> QED
      BY <1>1, <1>2, <1>3, <1>4, <1>5, <1>6, <2>1, <2>3, <2>4, InstallStep
  <1>8. CASE n # 0
    <2>1. PICK m : m = Fresh(n, b)
      OBVIOUS
    <2>2. /\ m \in Members /\ m # Absent /\ m.capacity_ = n /\ m.buffer_ = b
          /\ m.head_ = 0 /\ m.tail_ = 0 /\ m.count_ = 0 /\ m.full_ = FALSE
      <3>1. m \in Members
        BY <1>3, <2>1, FreshFields
      <3> QED
        BY <2>1, <3>1, MemberFields DEF Fresh
    <2>3. objects' = [objects EXCEPT ![o] = m]
      BY <1>2, <1>8, <2>1
    <2>4. objects'[o] = m /\ ideal'[o] = <<>> /\ heap'[m.buffer_] = NewBlock(n)
      BY <1>2, <1>3, <2>2, <2>3 DEF ObjectsInv, Typed
    <2>5. Shape(m) /\ MarkRight(m) /\ Holds(m, NewBlock(n), <<>>)
      BY <1>3, <1>8, <2>2 DEF Shape, MarkRight, Holds
    <2>6. ObjectInv(o)'
      BY <1>3, <1>4, <2>2, <2>4, <2>5, ObjectInvNext
    <2>7. Good(o)'
      BY <2>2, <2>4, <2>6 DEF Good, Alive
    <2>8. m \in Members \cup {Absent} /\ (m # Absent => m.buffer_ = b)
          /\ ~(m = Absent /\ thrown' = "nothing")
      BY <2>2
    <2>9. torn' \ {o} = torn \ {o} /\ stale' \ {o} = stale \ {o}
      BY <1>3
    <2>10. PICK f : f = NewBlock(n)
      OBVIOUS
    <2>11. heap' = [heap EXCEPT ![b] = f] /\ f \in [0 .. n - 1 -> Cells]
      BY <1>2, <1>4, <2>10
    <2> QED
      BY <1>1, <1>3, <1>5, <1>6, <2>3, <2>7, <2>8, <2>9, <2>11, InstallStep
  <1> QED
    BY <1>7, <1>8

LEMMA MarkFields ==
  ASSUME NEW q \in BOOLEAN, NEW r
  PROVE  Mark(q, r).just_overwrote_ = q /\ Mark(q, r).overwrite_position_ = r
  BY DEF Mark

LEMMA CopyConstructStep ==
  ASSUME ObjectsInv, thrown = "nothing", NEW o \in Objects, NEW p \in Objects,
         CopyConstruct(o, p)
  PROVE  ObjectsInv'
  <1>1. o \notin Alive /\ p \in Alive /\ o # p /\ misfreed' = misfreed
    BY DEF CopyConstruct
  <1>2. ~misfreed' /\ misfreed' \in BOOLEAN
    BY <1>1 DEF ObjectsInv, FreedRight, Typed
  <1>3. CASE CopyTo(o, p, heap, Mark(FALSE, 0))
    <2>1. PICK mark : mark = Mark(FALSE, 0)
      OBVIOUS
    <2>2. mark.just_overwrote_ \in BOOLEAN /\ mark.overwrite_position_ \in Indices
      BY <2>1, MarkFields, IndexFacts
    <2>3. CopyTo(o, p, heap, mark)
      BY <1>3, <2>1, Zenon
    <2> QED
      BY <1>1, <1>2, <2>2, <2>3, CopyToStep
  <1>4. CASE CopyThrows(o, p, heap, Absent)
    BY <1>1, <1>2, <1>4, CopyThrowsStep
  <1> QED
    BY <1>3, <1>4 DEF CopyConstruct

LEMMA MoveConstructStep ==
  ASSUME ObjectsInv, thrown = "nothing", NEW o \in Objects, NEW p \in Objects,
         MoveConstruct(o, p)
  PROVE  ObjectsInv'
  <1>1. o \notin Alive /\ p \in Alive /\ o # p /\ misfreed' = misfreed /\ heap' = heap
    BY DEF MoveConstruct
  <1>2. ~misfreed' /\ misfreed' \in BOOLEAN
    BY <1>1 DEF ObjectsInv, FreedRight, Typed
  <1>3. PICK mark : mark = Mark(FALSE, 0)
    OBVIOUS
  <1>4. mark.just_overwrote_ \in BOOLEAN /\ mark.overwrite_position_ \in Indices
    BY <1>3, MarkFields, IndexFacts
  <1>5. MoveTo(o, p, mark)
    BY <1>3, Zenon DEF MoveConstruct
  <1> QED
    BY <1>1, <1>2, <1>4, <1>5, MoveToStep

LEMMA MoveAssignStep ==
  ASSUME ObjectsInv, thrown = "nothing", NEW o \in Objects, NEW p \in Objects,
         MoveAssign(o, p)
  PROVE  ObjectsInv'
  <1>1. /\ Release(o, objects[o]) /\ p \in Alive /\ o # p
        /\ heap' = Released(objects[o]) /\ MoveTo(o, p, objects[o])
    BY DEF MoveAssign
  <1>2. ~misfreed' /\ o \in Alive
    BY <1>1, ReleaseRight
  <1>3. misfreed' \in BOOLEAN
    BY <1>1 DEF Release
  <1>4. /\ objects[o].just_overwrote_ \in BOOLEAN
        /\ objects[o].overwrite_position_ \in Indices
    BY <1>2, AliveFacts, MemberFields
  <1> QED
    BY <1>1, <1>2, <1>3, <1>4, MoveToStep

LEMMA CopyAssignStep ==
  ASSUME ObjectsInv, thrown = "nothing", NEW o \in Objects, NEW p \in Objects,
         CopyAssign(o, p)
  PROVE  ObjectsInv'
  <1>1. Release(o, objects[o]) /\ p \in Alive /\ o # p
    BY DEF CopyAssign
  <1>2. ~misfreed' /\ o \in Alive
    BY <1>1, ReleaseRight
  <1>3. misfreed' \in BOOLEAN
    BY <1>1 DEF Release
  <1>4. /\ objects[o] \in Members /\ objects[p] \in Members /\ Shape(objects[p])
        /\ objects[o].just_overwrote_ \in BOOLEAN
        /\ objects[o].overwrite_position_ \in Indices
        /\ objects[p].capacity_ \in Sizes /\ objects[p].capacity_ \in Nat
    BY <1>1, <1>2, AliveFacts, MemberFields DEF ObjectInv
  <1>5. CASE CopyTo(o, p, Released(objects[o]),
                    Mark(FALSE, objects[o].overwrite_position_))
    <2>1. PICK mark : mark = Mark(FALSE, objects[o].overwrite_position_)
      OBVIOUS
    <2>2. mark.just_overwrote_ \in BOOLEAN /\ mark.overwrite_position_ \in Indices
      BY <1>4, <2>1, MarkFields
    <2>3. CopyTo(o, p, Released(objects[o]), mark)
      BY <1>5, <2>1, Zenon
    <2> QED
      BY <1>1, <1>2, <1>3, <2>2, <2>3, CopyToStep
  <1>6. CASE /\ heap' = Released(objects[o])
             /\ objects' = [objects EXCEPT
                  ![o] = [Cleared(@) EXCEPT !.capacity_ = objects[p].capacity_]]
             /\ thrown' = "allocation"
             /\ Forget(o)
    <2>1. PICK c : c = Cleared(objects[o])
      OBVIOUS
    <2>2. PICK n : n = objects[p].capacity_
      OBVIOUS
    <2>3. PICK m : m = [c EXCEPT !.capacity_ = n]
      OBVIOUS
    <2>4. /\ c \in Members /\ c.buffer_ = objects[o].buffer_ /\ c.head_ = 0
          /\ c.tail_ = 0 /\ c.count_ = 0 /\ c.full_ = FALSE
      BY <1>4, <2>1, ClearedFields
    <2>5. n \in Sizes /\ n \in Nat
      BY <1>4, <2>2
    <2>6. /\ m \in Members /\ m.capacity_ = n /\ m.buffer_ = c.buffer_ /\ m.head_ = 0
          /\ m.tail_ = 0 /\ m.count_ = 0 /\ m.full_ = FALSE
      BY <2>3, <2>4, <2>5 DEF Members
    <2>7. Shape(m)
      BY <2>5, <2>6 DEF Shape
    <2>8. objects' = [objects EXCEPT ![o] = m]
      BY <1>6, <2>1, <2>2, <2>3
    <2> QED
      BY <1>2, <1>3, <1>6, <2>4, <2>6, <2>7, <2>8, ReleaseStep
  <1>7. CASE CopyThrows(o, p, Released(objects[o]), WithMark(objects[p], objects[o]))
    <2>1. PICK left : left = WithMark(objects[p], objects[o])
      OBVIOUS
    <2>2. /\ left \in Members /\ left.capacity_ = objects[p].capacity_
          /\ left.head_ = objects[p].head_ /\ left.tail_ = objects[p].tail_
          /\ left.count_ = objects[p].count_ /\ left.full_ = objects[p].full_
          /\ left.buffer_ = objects[p].buffer_
      BY <1>4, <2>1, WithMarkFields
    <2>3. Shape(left)
      BY <1>4, <2>2, SameShape
    <2> QED
      BY <1>1, <1>2, <1>3, <1>7, <2>1, <2>2, <2>3, CopyThrowsStep
  <1> QED
    BY <1>5, <1>6, <1>7 DEF CopyAssign

LEMMA DestroyStep ==
  ASSUME ObjectsInv, NEW o \in Objects, Destroy(o)
  PROVE  ObjectsInv'
  <1>1. /\ Release(o, objects[o]) /\ heap' = Released(objects[o])
        /\ objects' = [objects EXCEPT ![o] = Absent] /\ Forget(o) /\ thrown' = thrown
    BY DEF Destroy
  <1>2. o \in Alive /\ misfreed' \in BOOLEAN
    BY <1>1 DEF Release
  <1>3. thrown' # "allocation" => ~misfreed'
    BY <1>1, ReleaseRight
  <1> QED
    BY <1>1, <1>2, <1>3, ReleaseStep

-----------------------------------------------------------------------------
(* Every step.                                                             *)

LEMMA ObjectsInvInit == Init => ObjectsInv
  <1> SUFFICES ASSUME Init PROVE ObjectsInv
    OBVIOUS
  <1>1. Alive = {} /\ <<>> \in Seq(Values)
    BY DEF Init, Alive
  <1>2. Typed
    BY <1>1 DEF Init, Typed
  <1>3. \A o \in Objects : Good(o)
    BY <1>1 DEF Init, Good
  <1>4. NoSharing /\ NoLeak /\ FreedRight
    BY <1>1 DEF Init, NoSharing, NoLeak, FreedRight
  <1> QED
    BY <1>2, <1>3, <1>4 DEF ObjectsInv

LEMMA ObjectsInvUnchanged ==
  ASSUME ObjectsInv, UNCHANGED vars
  PROVE  ObjectsInv'
  <1>0. UNCHANGED <<objects, heap, ideal, torn, stale, misfreed, thrown>>
    BY DEF vars
  <1>1. Typed' /\ Alive' = Alive
    BY <1>0 DEF ObjectsInv, Typed, Alive
  <1>2. ASSUME NEW o \in Objects PROVE Good(o)'
    BY <1>0, OthersStayGood
  <1>3. NoSharing' /\ FreedRight'
    BY <1>0, <1>1 DEF ObjectsInv, NoSharing, FreedRight
  <1>4. NoLeak'
    BY <1>0, <1>1 DEF ObjectsInv, NoLeak
  <1> QED
    BY <1>1, <1>2, <1>3, <1>4 DEF ObjectsInv

LEMMA ObjectsInvStep == ObjectsInv /\ [Next]_vars => ObjectsInv'
  <1> SUFFICES ASSUME ObjectsInv, [Next]_vars PROVE ObjectsInv'
    OBVIOUS
  <1>1. ASSUME thrown = "nothing", NEW o \in Objects, NEW n \in Capacities,
               Construct(o, n)
        PROVE  ObjectsInv'
    BY <1>1, ConstructStep
  <1>2. ASSUME NEW o \in Objects, ConstructThrows(o)
        PROVE  ObjectsInv'
    BY <1>2, ObjectsInvUnchanged DEF ConstructThrows
  <1>3. ASSUME thrown = "nothing", NEW o \in Objects, NEW p \in Objects,
               \/ CopyConstruct(o, p) \/ MoveConstruct(o, p)
               \/ CopyAssign(o, p) \/ MoveAssign(o, p)
        PROVE  ObjectsInv'
    BY <1>3, CopyConstructStep, MoveConstructStep, CopyAssignStep, MoveAssignStep
  <1>4. ASSUME thrown = "nothing", NEW o \in Objects, NEW v \in Values, PushBack(o, v)
        PROVE  ObjectsInv'
    BY <1>4, PushBackStep
  <1>5. ASSUME thrown = "nothing", NEW o \in Objects, PopFront(o) \/ Clear(o)
        PROVE  ObjectsInv'
    BY <1>5, PopFrontStep, ClearStep
  <1>6. ASSUME NEW o \in Objects, Destroy(o)
        PROVE  ObjectsInv'
    BY <1>6, DestroyStep
  <1>7. CASE UNCHANGED vars
    BY <1>7, ObjectsInvUnchanged
  <1> QED
    BY <1>1, <1>2, <1>3, <1>4, <1>5, <1>6, <1>7 DEF Next, Use

(* Any number of objects of any capacities, over any number of blocks: the *)
(* inductive invariant.                                                    *)
THEOREM ObjectsInvariant == Spec => []ObjectsInv
  BY ObjectsInvInit, ObjectsInvStep, PTL DEF Spec

(* Members stay in their ranges: the head_ and tail_ of each object in its *)
(* own storage, or all 0.  Nothing is said of overwrite_position_ but that *)
(* it is an index: a move assignment may leave it outside.                 *)
THEOREM ObjectsTypeOK == Spec => []TypeOK
  <1>1. ObjectsInv => TypeOK
    <2> SUFFICES ASSUME ObjectsInv PROVE TypeOK
      OBVIOUS
    <2>1. ASSUME NEW o \in Alive
          PROVE  LET m == objects[o] IN
                 \/ /\ {m.head_, m.tail_} \subseteq 0 .. m.capacity_ - 1
                    /\ m.count_ <= m.capacity_
                 \/ {m.head_, m.tail_, m.count_, m.capacity_} = {0}
      <3>1. PICK m : m = objects[o]
        OBVIOUS
      <3>2. m \in Members /\ Shape(m)
        BY <3>1, AliveFacts DEF ObjectInv
      <3>3. CASE m.capacity_ = 0
        BY <3>1, <3>2, <3>3 DEF Shape
      <3>4. CASE m.capacity_ # 0
        <4>1. m.capacity_ > 0 /\ m.capacity_ \in Nat
          BY <3>2, <3>4, MemberFields
        <4>2. /\ m.head_ \in 0 .. m.capacity_ - 1 /\ m.tail_ \in 0 .. m.capacity_ - 1
              /\ m.count_ <= m.capacity_
          BY <3>2, <4>1, ShapeFacts
        <4> QED
          BY <3>1, <4>2
      <3> QED
        BY <3>3, <3>4
    <2> QED
      BY <2>1 DEF ObjectsInv, Typed, TypeOK
  <1> QED
    BY <1>1, ObjectsInvariant, PTL

(* Who has storage owns a block of its capacity, nobody shares one, and no *)
(* block is lost but those of rejected constructions.                      *)
THEOREM ObjectsStorageOwned == Spec => []StorageOwned
  <1>1. ObjectsInv => StorageOwned
    <2> SUFFICES ASSUME ObjectsInv PROVE StorageOwned
      OBVIOUS
    <2>1. ASSUME thrown # "allocation", NEW o \in Alive, objects[o].buffer_ # Null
          PROVE  /\ ~WrongFree(objects[o])
                 /\ \A p \in Alive \ {o} : objects[o].buffer_ # objects[p].buffer_
      BY <2>1, OwnedBlock DEF ObjectsInv, NoSharing
    <2>2. NoLeak
      BY DEF ObjectsInv
    <2> QED
      BY <2>1, <2>2 DEF StorageOwned, NoLeak
  <1> QED
    BY <1>1, ObjectsInvariant, PTL

(* No block is freed twice or with a wrong size.                           *)
THEOREM ObjectsFreedRight == Spec => []FreedRight
  <1>1. ObjectsInv => FreedRight
    BY DEF ObjectsInv
  <1> QED
    BY <1>1, ObjectsInvariant, PTL

(* Value semantics: chains of copies, moves and assignments hand on just   *)
(* the elements, up to the copies and pushes that torn names.              *)
THEOREM ObjectsValuesFollow == Spec => []ValuesFollow
  <1>1. ObjectsInv => ValuesFollow
    <2> SUFFICES ASSUME ObjectsInv, NEW o \in Alive, o \notin torn
                 PROVE  Elements(objects[o]) = ideal[o]
      BY DEF ValuesFollow
    <2>1. PICK m : m = objects[o]
      OBVIOUS
    <2>2. /\ Holds(m, heap[m.buffer_], ideal[o]) /\ ideal[o] \in Seq(Values)
      BY <2>1, AliveFacts DEF ObjectInv, ObjectsInv, Typed
    <2>3. /\ ideal[o] = [i \in 1 .. m.count_ |-> ideal[o][i]]
          /\ \A i \in 1 .. m.count_ :
               ideal[o][i] = heap[m.buffer_][(m.head_ + i - 1) % m.capacity_]
      BY <2>2 DEF Holds
    <2>4. Elements(m) = [i \in 1 .. m.count_ |->
                           heap[m.buffer_][(m.head_ + i - 1) % m.capacity_]]
      BY DEF Elements
    <2>5. Elements(m) = [i \in 1 .. m.count_ |-> ideal[o][i]]
      BY <2>3, <2>4, Zenon
    <2> QED
      BY <2>1, <2>3, <2>5
  <1> QED
    BY <1>1, ObjectsInvariant, PTL

(* back() finds the newest element after copies, moves and assignments,    *)
(* unless a mark was dropped or kept on the way.                           *)
THEOREM ObjectsBackFollows == Spec => []BackFollows
  <1>1. ObjectsInv => BackFollows
    <2> SUFFICES ASSUME ObjectsInv, NEW o \in Alive \ (torn \cup stale),
                        objects[o].count_ > 0,
                        objects[o].full_ \/ TailInPlace(objects[o])
                 PROVE  heap[objects[o].buffer_][BackSlot(objects[o])]
                          = ideal[o][Len(ideal[o])]
      BY DEF BackFollows
    <2>1. PICK m : m = objects[o]
      OBVIOUS
    <2>2. /\ m \in Members /\ Shape(m) /\ MarkRight(m)
          /\ Holds(m, heap[m.buffer_], ideal[o]) /\ m.count_ > 0
          /\ m.full_ \/ TailInPlace(m)
      BY <2>1, AliveFacts DEF ObjectInv
    <2>3. m.capacity_ > 0
      BY <2>2, MemberFields DEF Shape
    <2>4. /\ m.capacity_ \in Nat \ {0} /\ m.head_ \in 0 .. m.capacity_ - 1
          /\ m.count_ \in 1 .. m.capacity_
      BY <2>2, <2>3, ShapeFacts
    <2>5. BackSlot(m) = (m.head_ + m.count_ - 1) % m.capacity_
      <3>1. CASE m.just_overwrote_
        BY <2>2, <3>1 DEF BackSlot, MarkRight
      <3>2. CASE ~m.just_overwrote_
        <4>1. m.tail_ = (m.head_ + m.count_) % m.capacity_
          BY <2>2, <3>2 DEF MarkRight, TailInPlace
        <4>2. (m.head_ + m.count_ - 1) % m.capacity_
                = IF m.tail_ = 0 THEN m.capacity_ - 1 ELSE m.tail_ - 1
          BY <2>4, <4>1, SlotBefore
        <4> QED
          BY <3>2, <4>2 DEF BackSlot
      <3> QED
        BY <3>1, <3>2
    <2>6. /\ Len(ideal[o]) = m.count_ /\ m.count_ \in 1 .. m.count_
          /\ \A i \in 1 .. m.count_ :
               ideal[o][i] = heap[m.buffer_][(m.head_ + i - 1) % m.capacity_]
      BY <2>2, <2>4 DEF Holds
    <2> QED
      BY <2>1, <2>5, <2>6
  <1> QED
    BY <1>1, ObjectsInvariant, PTL
=============================================================================
