----------------------- MODULE RingBufferClientProofs -----------------------
(***************************************************************************)
(* Proofs about RingBufferClient, for every capacity and every set of      *)
(* values: the indices, flags and counts of any client; which slots the    *)
(* elements of a disciplined client occupy and which hold live objects;    *)
(* that its ring buffer implements the ideal bounded sequence of           *)
(* SlidingWindow.                                                          *)
(***************************************************************************)
EXTENDS RingBufferClient, SequenceTheorems, TLAPS

-----------------------------------------------------------------------------
(* Arithmetic modulo the capacity.                                         *)

(* The index arithmetic of the class never wraps more than twice; there    *)
(* the remainder is a subtraction.                                         *)
LEMMA Wrap ==
  \A a \in 0 .. 2 * Capacity :
    a % Capacity = IF a < Capacity THEN a
                   ELSE IF a < 2 * Capacity THEN a - Capacity
                   ELSE 0
  BY CapacityAssumption

(* One step of head_, tail_ or the lag stays within the storage.           *)
LEMMA Step ==
  \A a \in Slots : /\ (a + 1) % Capacity \in Slots
                   /\ (a + 1) % Capacity = IF a + 1 = Capacity THEN 0 ELSE a + 1
  BY CapacityAssumption DEF Slots

(* Wrapping one summand early does not change the sum's remainder.         *)
LEMMA StepInSum ==
  ASSUME NEW a \in Slots, NEW b \in 0 .. Capacity
  PROVE  (((a + 1) % Capacity) + b) % Capacity = (a + b + 1) % Capacity
  <1>1. CASE a + 1 = Capacity
    <2>1. (a + 1) % Capacity = 0
      BY <1>1, Step
    <2>2. b % Capacity = (Capacity + b) % Capacity
      BY CapacityAssumption
    <2> QED
      BY <1>1, <2>1, <2>2, CapacityAssumption DEF Slots
  <1>2. CASE a + 1 # Capacity
    <2>1. (a + 1) % Capacity = a + 1
      BY <1>2, Step
    <2> QED
      BY <2>1, CapacityAssumption DEF Slots
  <1> QED
    BY <1>1, <1>2

(* Numbers with equal remainders have successors with equal remainders.    *)
LEMMA SuccMod ==
  ASSUME NEW x \in 0 .. 2 * Capacity, NEW y \in 0 .. 2 * Capacity,
         x % Capacity = y % Capacity
  PROVE  (x + 1) % Capacity = (y + 1) % Capacity
  <1>1. /\ x % Capacity \in Slots
        /\ (x + 1) % Capacity = ((x % Capacity) + 1) % Capacity
    BY CapacityAssumption DEF Slots
  <1>2. (y + 1) % Capacity = ((y % Capacity) + 1) % Capacity
    BY CapacityAssumption DEF Slots
  <1> QED
    BY <1>1, <1>2

-----------------------------------------------------------------------------
(* Every client.                                                           *)

(* The inductive invariant: the types of the members, with the facts that  *)
(* relate the indices, the count and the flags.                            *)
IndexInv ==
  /\ RingBufferTypeOK
  /\ lag \in Slots
  /\ FullFlagExact
  /\ TailLag
  /\ OverwriteMark

LEMMA IndexInvInit == Init => IndexInv
  <1> SUFFICES ASSUME Init PROVE IndexInv
    OBVIOUS
  <1> USE CapacityAssumption DEF Init, ring_buffer
  <1>1. RingBufferTypeOK /\ lag \in Slots
    <2>1. buffer_ \in [Slots -> Cells]
      BY DEF Cells
    <2>2. 0 \in Slots /\ 0 \in 0 .. Capacity
      BY DEF Slots
    <2> QED
      BY <2>1, <2>2 DEF RingBufferTypeOK
  <1>2. FullFlagExact
    BY DEF FullFlagExact
  <1>3. TailLag
    BY DEF TailLag
  <1>4. OverwriteMark
    BY DEF OverwriteMark
  <1> QED
    BY <1>1, <1>2, <1>3, <1>4 DEF IndexInv

(* Writing one slot keeps the storage well formed.                         *)
LEMMA WriteSlot ==
  ASSUME buffer_ \in [Slots -> Cells], NEW s \in Slots, NEW c \in Cells
  PROVE  /\ [buffer_ EXCEPT ![s] = c] \in [Slots -> Cells]
         /\ \A r \in Slots : [buffer_ EXCEPT ![s] = c][r]
                               = IF r = s THEN c ELSE buffer_[r]
  OBVIOUS

(* What an insertion does to the members, by either function.              *)
LEMMA InsertEffect ==
  ASSUME IndexInv, NEW v \in Cells, push_back(v) \/ emplace_back(v)
  PROVE  \/ /\ full_
            /\ buffer_' = [buffer_ EXCEPT ![head_] = v]
            /\ overwrite_advance_head
         \/ /\ ~full_
            /\ buffer_' = [buffer_ EXCEPT ![tail_] = v]
            /\ increment_tail
  <1>1. CASE push_back(v)
    BY <1>1 DEF push_back
  <1>2. CASE emplace_back(v)
    <2>1. buffer_ \in [Slots -> Cells] /\ head_ \in Slots
      BY DEF IndexInv, RingBufferTypeOK
    <2>2. [[buffer_ EXCEPT ![head_] = Raw] EXCEPT ![head_] = v]
            = [buffer_ EXCEPT ![head_] = v]
      BY <2>1
    <2> QED
      BY <1>2, <2>2, Zenon DEF emplace_back
  <1> QED
    BY <1>1, <1>2

LEMMA IndexInvInsert ==
  ASSUME IndexInv, NEW v \in Cells, push_back(v) \/ emplace_back(v), Overwriting
  PROVE  IndexInv'
  <1>0. /\ buffer_ \in [Slots -> Cells] /\ head_ \in Slots /\ tail_ \in Slots
        /\ count_ \in 0 .. Capacity /\ lag \in Slots
        /\ overwrite_position_ \in Slots /\ full_ \in BOOLEAN
    BY DEF IndexInv, RingBufferTypeOK
  <1>1. CASE full_ /\ buffer_' = [buffer_ EXCEPT ![head_] = v]
             /\ overwrite_advance_head
    <2>1. /\ head_' = (head_ + 1) % Capacity /\ lag' = (lag + 1) % Capacity
          /\ tail_' = tail_ /\ count_' = count_
          /\ full_' = full_ /\ just_overwrote_' = TRUE
          /\ overwrite_position_' = head_
      BY <1>1 DEF overwrite_advance_head, Overwriting
    <2>2. RingBufferTypeOK' /\ lag' \in Slots
      <3>1. buffer_' \in [Slots -> Cells]
        BY <1>0, <1>1, WriteSlot
      <3>2. head_' \in Slots /\ lag' \in Slots
        BY <1>0, <2>1, Step
      <3> QED
        BY <1>0, <2>1, <3>1, <3>2 DEF RingBufferTypeOK
    <2>3. FullFlagExact'
      BY <2>1 DEF FullFlagExact, IndexInv
    <2>4. TailLag'
      <3>1. count_ = Capacity
        BY <1>1 DEF IndexInv, FullFlagExact
      <3>2. (tail_ + lag) % Capacity = (head_ + count_) % Capacity
        BY DEF IndexInv, TailLag
      <3>3. /\ tail_ + lag \in 0 .. 2 * Capacity
            /\ head_ + count_ \in 0 .. 2 * Capacity
            /\ tail_ \in 0 .. Capacity /\ Capacity \in 0 .. Capacity
        BY <1>0, CapacityAssumption DEF Slots
      <3>4. (lag' + tail_) % Capacity = (lag + tail_ + 1) % Capacity
        BY <1>0, <2>1, <3>3, StepInSum
      <3>5. (head_' + Capacity) % Capacity = (head_ + Capacity + 1) % Capacity
        BY <1>0, <2>1, <3>3, StepInSum
      <3>6. (tail_ + lag + 1) % Capacity = (head_ + count_ + 1) % Capacity
        BY <3>2, <3>3, SuccMod
      <3>7. tail_ + lag' = lag' + tail_ /\ lag + tail_ = tail_ + lag
        BY <1>0, <2>2 DEF Slots
      <3> QED
        BY <2>1, <3>1, <3>4, <3>5, <3>6, <3>7 DEF TailLag
    <2>5. OverwriteMark'
      <3>1. head_ = IF head_' = 0 THEN Capacity - 1 ELSE head_' - 1
        BY <1>0, <2>1, Step, CapacityAssumption DEF Slots
      <3>2. overwrite_position_' = decrement_index(head_)'
        BY <2>1, <3>1 DEF decrement_index
      <3> QED
        BY <1>1, <2>1, <3>2 DEF OverwriteMark
    <2> QED
      BY <2>2, <2>3, <2>4, <2>5 DEF IndexInv
  <1>2. CASE ~full_ /\ buffer_' = [buffer_ EXCEPT ![tail_] = v] /\ increment_tail
    <2>1. /\ head_' = head_ /\ lag' = lag
          /\ tail_' = (tail_ + 1) % Capacity /\ count_' = count_ + 1
          /\ full_' <=> count_ + 1 = Capacity
          /\ full_' \in BOOLEAN
          /\ just_overwrote_' = FALSE
          /\ overwrite_position_' = overwrite_position_
      BY <1>2 DEF increment_tail, Overwriting
    <2>2. count_ \in 0 .. Capacity - 1
      BY <1>0, <1>2, CapacityAssumption DEF IndexInv, FullFlagExact
    <2>3. RingBufferTypeOK' /\ lag' \in Slots
      <3>1. buffer_' \in [Slots -> Cells]
        BY <1>0, <1>2, WriteSlot
      <3>2. tail_' \in Slots /\ count_' \in 0 .. Capacity
        BY <1>0, <2>1, <2>2, Step, CapacityAssumption
      <3> QED
        BY <1>0, <2>1, <3>1, <3>2 DEF RingBufferTypeOK
    <2>4. FullFlagExact'
      BY <2>1 DEF FullFlagExact
    <2>5. TailLag'
      <3>2. (tail_ + lag) % Capacity = (head_ + count_) % Capacity
        BY DEF IndexInv, TailLag
      <3>3. /\ tail_ + lag \in 0 .. 2 * Capacity
            /\ head_ + count_ \in 0 .. 2 * Capacity
            /\ lag \in 0 .. Capacity
        BY <1>0, CapacityAssumption DEF Slots
      <3>4. (tail_' + lag) % Capacity = (tail_ + lag + 1) % Capacity
        BY <1>0, <2>1, <3>3, StepInSum
      <3>5. (tail_ + lag + 1) % Capacity = (head_ + count_ + 1) % Capacity
        BY <3>2, <3>3, SuccMod
      <3>6. head_' + count_' = head_ + count_ + 1
        BY <1>0, <2>1 DEF Slots
      <3> QED
        BY <2>1, <3>4, <3>5, <3>6 DEF TailLag
    <2>6. OverwriteMark'
      BY <2>1 DEF OverwriteMark
    <2> QED
      BY <2>3, <2>4, <2>5, <2>6 DEF IndexInv
  <1> QED
    BY <1>1, <1>2, InsertEffect

LEMMA IndexInvPop ==
  ASSUME IndexInv, pop_front, UNCHANGED lag
  PROVE  IndexInv'
  <1>0. /\ buffer_ \in [Slots -> Cells] /\ head_ \in Slots /\ tail_ \in Slots
        /\ count_ \in 0 .. Capacity /\ lag \in Slots
        /\ overwrite_position_ \in Slots
    BY DEF IndexInv, RingBufferTypeOK
  <1>1. /\ buffer_' = [buffer_ EXCEPT ![head_] = Raw]
        /\ head_' = (head_ + 1) % Capacity /\ lag' = lag
        /\ tail_' = tail_
        /\ count_' = IF count_ > 0 THEN count_ - 1 ELSE count_
        /\ count_ # 0
        /\ full_' = FALSE /\ just_overwrote_' = FALSE
        /\ overwrite_position_' = overwrite_position_
    BY DEF pop_front, increment_head, empty
  <1>2. count_' = count_ - 1 /\ count_' \in 0 .. Capacity /\ count_' # Capacity
    BY <1>0, <1>1, CapacityAssumption
  <1>3. RingBufferTypeOK'
    <2>1. buffer_' \in [Slots -> Cells]
      <3> Raw \in Cells
        BY DEF Cells
      <3> QED
        BY <1>0, <1>1, WriteSlot
    <2>2. head_' \in Slots
      BY <1>0, <1>1, Step
    <2> QED
      BY <1>0, <1>1, <1>2, <2>1, <2>2 DEF RingBufferTypeOK
  <1>4. FullFlagExact'
    BY <1>1, <1>2 DEF FullFlagExact
  <1>5. TailLag'
    <2>1. (tail_ + lag) % Capacity = (head_ + count_) % Capacity
      BY DEF IndexInv, TailLag
    <2>2. count_ - 1 \in 0 .. Capacity /\ head_ + (count_ - 1) + 1 = head_ + count_
      BY <1>0, <1>1, CapacityAssumption DEF Slots
    <2>3. (head_' + (count_ - 1)) % Capacity = (head_ + (count_ - 1) + 1) % Capacity
      BY <1>0, <1>1, <2>2, StepInSum
    <2> QED
      BY <1>1, <1>2, <2>1, <2>2, <2>3 DEF TailLag
  <1>6. OverwriteMark'
    BY <1>1 DEF OverwriteMark
  <1> QED
    BY <1>0, <1>1, <1>3, <1>4, <1>5, <1>6 DEF IndexInv

LEMMA IndexInvClear ==
  ASSUME IndexInv, clear, lag' = 0
  PROVE  IndexInv'
  <1>0. /\ buffer_ \in [Slots -> Cells] /\ just_overwrote_ \in BOOLEAN
        /\ overwrite_position_ \in Slots
    BY DEF IndexInv, RingBufferTypeOK
  <1>1. /\ buffer_' = [s \in Slots |-> IF s \in Window THEN Raw ELSE buffer_[s]]
        /\ head_' = 0 /\ tail_' = 0 /\ count_' = 0 /\ full_' = FALSE
        /\ just_overwrote_' = just_overwrote_
        /\ overwrite_position_' = overwrite_position_
    BY DEF clear
  <1>2. RingBufferTypeOK' /\ lag' \in Slots
    <2>1. buffer_' \in [Slots -> Cells]
      BY <1>0, <1>1 DEF Cells
    <2>2. 0 \in Slots /\ 0 \in 0 .. Capacity
      BY CapacityAssumption DEF Slots
    <2> QED
      BY <1>0, <1>1, <2>1, <2>2 DEF RingBufferTypeOK
  <1>3. FullFlagExact'
    BY <1>1, CapacityAssumption DEF FullFlagExact
  <1>4. TailLag'
    BY <1>1 DEF TailLag
  <1>5. OverwriteMark'
    BY <1>1 DEF OverwriteMark, empty
  <1> QED
    BY <1>2, <1>3, <1>4, <1>5 DEF IndexInv

LEMMA IndexInvUnchanged ==
  ASSUME IndexInv, UNCHANGED <<rbVars, lag>>
  PROVE  IndexInv'
  BY DEF IndexInv, RingBufferTypeOK, FullFlagExact, TailLag, OverwriteMark,
         decrement_index, empty, rbVars

(* Every call of every client preserves the invariant.                     *)
LEMMA IndexInvStep == IndexInv /\ [Next]_vars => IndexInv'
  <1> SUFFICES ASSUME IndexInv, [Next]_vars PROVE IndexInv'
    OBVIOUS
  <1>1. ASSUME NEW v \in Values, PushBack(v) \/ EmplaceBack(v) PROVE IndexInv'
    <2>1. v \in Cells
      BY DEF Cells
    <2> QED
      BY <1>1, <2>1, IndexInvInsert DEF PushBack, EmplaceBack
  <1>2. CASE PopFront
    BY <1>2, IndexInvPop, IndexInvUnchanged DEF PopFront
  <1>3. CASE Clear
    BY <1>3, IndexInvClear DEF Clear
  <1>4. ASSUME NEW c, NEW r, Answer(c, r) PROVE IndexInv'
    BY <1>4, IndexInvUnchanged DEF Answer
  <1>5. CASE UNCHANGED vars
    BY <1>5, IndexInvUnchanged DEF vars, rbVars
  <1>6. CASE HeadCalls
    BY <1>6, <1>2, <1>3, <1>4
       DEF HeadCalls, Front, At, Size, Available, Empty, Full
  <1>7. CASE TailCalls
    BY <1>7, <1>1, <1>4 DEF TailCalls, Back
  <1> QED
    BY <1>5, <1>6, <1>7 DEF Next

(* Whatever a client calls, the members stay within their ranges, full_    *)
(* agrees with count_, tail_ trails by exactly the overwrites and the      *)
(* overwrite mark is never stale.                                          *)
THEOREM SpecIndexInv == Spec => []IndexInv
  BY IndexInvInit, IndexInvStep, PTL DEF Spec

(* Every result a call delivers is one of the interface: in particular     *)
(* size() and available() stay within the capacity.                        *)
LEMMA ResultsStep ==
  ASSUME IndexInv, out.result \in Results, [Next]_vars
  PROVE  out.result' \in Results
  <1>0. /\ buffer_ \in [Slots -> Cells] /\ head_ \in Slots
        /\ count_ \in 0 .. Capacity /\ full_ \in BOOLEAN
        /\ tail_ \in Slots /\ overwrite_position_ \in Slots
    BY DEF IndexInv, RingBufferTypeOK
  <1> DEFINE ElementOf(s) == Window_!Element(buffer_[s])
  <1>1. Window_!Void \in Results /\ Window_!Thrown \in Results
    BY DEF Results
  <1>2. \A s \in Slots : ElementOf(s) \in Results
    BY <1>0 DEF Results, Window_!Element
  <1>3. \A n \in 0 .. Capacity : Window_!Number(n) \in Results
    BY DEF Results, Window_!Number
  <1>4. \A b \in BOOLEAN : Window_!Flag(b) \in Results
    BY DEF Results, Window_!Flag
  <1>5. back_slot \in Slots
    <2>1. decrement_index(tail_) \in Slots
      BY <1>0, CapacityAssumption DEF decrement_index, Slots
    <2> QED
      BY <1>0, <2>1 DEF back_slot
  <1>6. \A i \in Nat : slot_at(i) \in Slots
    BY <1>0, CapacityAssumption DEF slot_at, Slots
  <1>7. available \in 0 .. Capacity
    BY <1>0, CapacityAssumption DEF available
  <1> HIDE DEF ElementOf
  <1>8. CASE PopFront
    <2>1. Window_!Element(front) \in Results
      BY <1>0, <1>2 DEF front, ElementOf
    <2> QED
      BY <1>8, <1>1, <2>1 DEF PopFront, Window_!Report
  <1>9. CASE Clear \/ \E v \in Values : PushBack(v) \/ EmplaceBack(v)
    BY <1>9, <1>1 DEF Clear, PushBack, EmplaceBack, Window_!Report
  <1>10. CASE Front
    BY <1>10, <1>0, <1>1, <1>2 DEF Front, Answer, Window_!Report, front, ElementOf
  <1>11. CASE Back
    BY <1>11, <1>1, <1>2, <1>5 DEF Back, Answer, Window_!Report, back, ElementOf
  <1>12. ASSUME NEW i \in 0 .. Capacity, At(i) PROVE out.result' \in Results
    <2>1. slot_at(i) \in Slots
      BY <1>6
    <2> QED
      BY <1>12, <1>1, <1>2, <2>1 DEF At, Answer, Window_!Report, at, ElementOf
  <1>13. CASE Size \/ Available
    BY <1>13, <1>0, <1>3, <1>7 DEF Size, Available, Answer, Window_!Report, size
  <1>14. CASE Empty \/ Full
    <2>1. empty \in BOOLEAN
      BY DEF empty
    <2>2. PICK b \in BOOLEAN : out'.result = Window_!Flag(b)
      <3>1. CASE Empty
        BY <3>1, <2>1, Zenon DEF Empty, Answer, Window_!Report
      <3>2. CASE Full
        BY <3>2, <1>0, Zenon DEF Full, Answer, Window_!Report
      <3> QED
        BY <1>14, <3>1, <3>2
    <2> QED
      BY <2>2, <1>4
  <1>15. CASE UNCHANGED vars
    BY <1>15 DEF vars
  <1> QED
    BY <1>8, <1>9, <1>10, <1>11, <1>12, <1>13, <1>14, <1>15
       DEF Next, HeadCalls, TailCalls

(* Every member and every result stays within its range, whatever a client *)
(* calls: no index ever leaves the storage.                                *)
THEOREM SpecTypeOK == Spec => []TypeOK
  <1>1. Init => out.result \in Results
    BY DEF Init, Results, Window_!Report
  <1>2. IndexInv /\ out.result \in Results /\ [Next]_vars => (out.result \in Results)'
    BY ResultsStep
  <1>3. IndexInv /\ out.result \in Results => TypeOK
    BY DEF IndexInv, TypeOK
  <1> QED
    BY <1>1, <1>2, <1>3, SpecIndexInv, PTL DEF Spec

(* full_ is set exactly when count_ has reached the capacity.              *)
THEOREM SpecFullFlagExact == Spec => []FullFlagExact
  <1>1. IndexInv => FullFlagExact
    BY DEF IndexInv
  <1> QED
    BY <1>1, SpecIndexInv, PTL

(* tail_ trails the end of the elements by exactly the overwrites.         *)
THEOREM SpecTailLag == Spec => []TailLag
  <1>1. IndexInv => TailLag
    BY DEF IndexInv
  <1> QED
    BY <1>1, SpecIndexInv, PTL

(* back() never trusts a stale overwrite mark.                             *)
THEOREM SpecOverwriteMark == Spec => []OverwriteMark
  <1>1. IndexInv => OverwriteMark
    BY DEF IndexInv
  <1> QED
    BY <1>1, SpecIndexInv, PTL

-----------------------------------------------------------------------------
(* The slots of n elements that start at slot h.                           *)

SlotOf(h, i) == (h + i) % Capacity

SlotsOf(h, n) == {SlotOf(h, i) : i \in 0 .. n - 1}

(* How many slots s comes after h, going round.                            *)
Distance(h, s) == IF s >= h THEN s - h ELSE s - h + Capacity

LEMMA SlotOfValue ==
  ASSUME NEW h \in Slots, NEW i \in 0 .. Capacity
  PROVE  /\ SlotOf(h, i) = IF h + i < Capacity THEN h + i ELSE h + i - Capacity
         /\ SlotOf(h, i) \in Slots
  <1>1. (h + i) % Capacity = IF h + i < Capacity THEN h + i ELSE h + i - Capacity
    BY CapacityAssumption DEF Slots
  <1> QED
    BY <1>1, CapacityAssumption DEF SlotOf, Slots

(* Distance inverts SlotOf.                                                *)
LEMMA DistanceInverse ==
  ASSUME NEW h \in Slots
  PROVE  /\ \A i \in 0 .. Capacity - 1 : Distance(h, SlotOf(h, i)) = i
         /\ \A s \in Slots : /\ Distance(h, s) \in 0 .. Capacity - 1
                             /\ SlotOf(h, Distance(h, s)) = s
  <1>1. ASSUME NEW i \in 0 .. Capacity - 1
        PROVE  Distance(h, SlotOf(h, i)) = i
    <2>1. SlotOf(h, i) = IF h + i < Capacity THEN h + i ELSE h + i - Capacity
      BY SlotOfValue, CapacityAssumption
    <2> QED
      BY <2>1, CapacityAssumption DEF Distance, Slots
  <1>2. ASSUME NEW s \in Slots
        PROVE  /\ Distance(h, s) \in 0 .. Capacity - 1
               /\ SlotOf(h, Distance(h, s)) = s
    <2>1. Distance(h, s) \in 0 .. Capacity - 1
      BY CapacityAssumption DEF Distance, Slots
    <2>2. Distance(h, s) \in 0 .. Capacity
      BY <2>1, CapacityAssumption
    <2>3. SlotOf(h, Distance(h, s))
            = IF h + Distance(h, s) < Capacity THEN h + Distance(h, s)
              ELSE h + Distance(h, s) - Capacity
      BY <2>2, SlotOfValue
    <2> QED
      BY <2>1, <2>3, CapacityAssumption DEF Distance, Slots
  <1> QED
    BY <1>1, <1>2

LEMMA InSlotsOf ==
  ASSUME NEW h \in Slots, NEW n \in 0 .. Capacity, NEW s \in Slots
  PROVE  s \in SlotsOf(h, n) <=> Distance(h, s) < n
  <1>1. ASSUME s \in SlotsOf(h, n) PROVE Distance(h, s) < n
    <2>1. PICK i \in 0 .. n - 1 : s = SlotOf(h, i)
      BY <1>1 DEF SlotsOf
    <2>2. i \in 0 .. Capacity - 1
      BY CapacityAssumption
    <2>3. Distance(h, s) = i
      BY <2>1, <2>2, DistanceInverse
    <2> QED
      BY <2>3
  <1>2. ASSUME Distance(h, s) < n PROVE s \in SlotsOf(h, n)
    <2>1. Distance(h, s) \in 0 .. n - 1
      BY <1>2, DistanceInverse, CapacityAssumption
    <2> QED
      BY <2>1, DistanceInverse DEF SlotsOf
  <1> QED
    BY <1>1, <1>2

LEMMA WindowInStorage ==
  ASSUME NEW h \in Slots, NEW n \in 0 .. Capacity
  PROVE  SlotsOf(h, n) \subseteq Slots
  <1>1. \A i \in 0 .. n - 1 : SlotOf(h, i) \in Slots
    BY SlotOfValue, CapacityAssumption
  <1> QED
    BY <1>1 DEF SlotsOf

(* A full window covers the storage.                                       *)
LEMMA FullWindow ==
  ASSUME NEW h \in Slots
  PROVE  SlotsOf(h, Capacity) = Slots
  <1>1. Capacity \in 0 .. Capacity
    BY CapacityAssumption
  <1>2. \A s \in Slots : s \in SlotsOf(h, Capacity)
    BY <1>1, InSlotsOf, DistanceInverse, CapacityAssumption
  <1>3. \A i \in 0 .. Capacity - 1 : SlotOf(h, i) \in Slots
    BY SlotOfValue, CapacityAssumption
  <1>4. SlotsOf(h, Capacity) \subseteq Slots
    BY <1>3 DEF SlotsOf
  <1> QED
    BY <1>2, <1>4

(* One element more at the end adds the slot behind the window.            *)
LEMMA LongerWindow ==
  ASSUME NEW h \in Slots, NEW n \in 0 .. Capacity - 1, NEW s \in Slots
  PROVE  /\ s \in SlotsOf(h, n + 1) <=> s \in SlotsOf(h, n) \/ s = SlotOf(h, n)
         /\ SlotOf(h, n) \notin SlotsOf(h, n)
  <1>1. n \in 0 .. Capacity /\ n + 1 \in 0 .. Capacity
    BY CapacityAssumption
  <1>2. SlotOf(h, n) \in Slots /\ Distance(h, SlotOf(h, n)) = n
    BY <1>1, SlotOfValue, DistanceInverse
  <1>3. Distance(h, s) = n <=> s = SlotOf(h, n)
    BY <1>2, DistanceInverse
  <1>4. Distance(h, s) \in 0 .. Capacity - 1
    BY DistanceInverse
  <1>5. Distance(h, s) < n + 1 <=> Distance(h, s) < n \/ Distance(h, s) = n
    BY <1>4
  <1>6. s \in SlotsOf(h, n + 1) <=> Distance(h, s) < n + 1
    BY <1>1, InSlotsOf
  <1>7. s \in SlotsOf(h, n) <=> Distance(h, s) < n
    BY <1>1, InSlotsOf
  <1>8. SlotOf(h, n) \notin SlotsOf(h, n)
    BY <1>1, <1>2, InSlotsOf
  <1> QED
    BY <1>3, <1>5, <1>6, <1>7, <1>8

(* One element less at the front takes the slot of the front away.         *)
LEMMA ShorterWindow ==
  ASSUME NEW h \in Slots, NEW n \in 1 .. Capacity, NEW s \in Slots
  PROVE  s \in SlotsOf((h + 1) % Capacity, n - 1)
           <=> s \in SlotsOf(h, n) /\ s # h
  <1> DEFINE g == (h + 1) % Capacity
  <1>1. g \in Slots /\ g = IF h + 1 = Capacity THEN 0 ELSE h + 1
    BY Step
  <1> HIDE DEF g
  <1>2. n \in 0 .. Capacity /\ n - 1 \in 0 .. Capacity
    BY CapacityAssumption
  <1>3. Distance(g, s) = IF s = h THEN Capacity - 1 ELSE Distance(h, s) - 1
    BY <1>1, CapacityAssumption DEF Distance, Slots
  <1>4. s = h <=> Distance(h, s) = 0
    BY CapacityAssumption DEF Distance, Slots
  <1>5. Distance(h, s) \in 0 .. Capacity - 1
    BY DistanceInverse
  <1>6. Distance(g, s) < n - 1 <=> Distance(h, s) < n /\ s # h
    BY <1>2, <1>3, <1>4, <1>5, CapacityAssumption
  <1>7. s \in SlotsOf(h, n) <=> Distance(h, s) < n
    BY <1>2, InSlotsOf
  <1>8. s \in SlotsOf(g, n - 1) <=> Distance(g, s) < n - 1
    BY <1>1, <1>2, InSlotsOf
  <1> QED
    BY <1>6, <1>7, <1>8 DEF g

-----------------------------------------------------------------------------
(* Element lifetimes.                                                      *)

(* The inductive invariant of the disciplined clients.  The last conjunct  *)
(* holds for them only: an append that fills the buffer finds tail_ in     *)
(* place.                                                                  *)
DisciplineInv ==
  /\ IndexInv
  /\ LiveExactly
  /\ full_ /\ ~just_overwrote_ => lag = 0

LEMMA WindowIsSlotsOf == Window = SlotsOf(head_, count_)
  BY DEF Window, slot_at, SlotsOf, SlotOf

(* LiveExactly, slot by slot.                                              *)
LEMMA LiveSlotwise ==
  ASSUME head_ \in Slots, count_ \in 0 .. Capacity
  PROVE  LiveExactly <=>
           \A s \in Slots : buffer_[s] # Raw <=> s \in SlotsOf(head_, count_)
  <1>1. SlotsOf(head_, count_) \subseteq Slots
    BY WindowInStorage
  <1> QED
    BY <1>1, WindowIsSlotsOf DEF LiveExactly, LiveSlots

LEMMA LiveSlotwiseNext ==
  ASSUME head_' \in Slots, count_' \in 0 .. Capacity
  PROVE  LiveExactly' <=>
           \A s \in Slots : buffer_'[s] # Raw <=> s \in SlotsOf(head_', count_')
  <1>1. SlotsOf(head_', count_') \subseteq Slots
    BY WindowInStorage
  <1> QED
    BY <1>1 DEF LiveExactly, LiveSlots, Window, slot_at, SlotsOf, SlotOf

LEMMA DisciplineInvInit == Init => DisciplineInv
  <1> SUFFICES ASSUME Init PROVE DisciplineInv
    OBVIOUS
  <1>1. IndexInv
    BY IndexInvInit
  <1>2. /\ buffer_ = [s \in Slots |-> Raw] /\ head_ = 0 /\ count_ = 0
        /\ full_ = FALSE
    BY DEF Init, ring_buffer
  <1>3. SlotsOf(head_, count_) = {}
    BY <1>2 DEF SlotsOf
  <1>4. LiveExactly
    BY <1>1, <1>2, <1>3, LiveSlotwise DEF IndexInv, RingBufferTypeOK
  <1> QED
    BY <1>1, <1>2, <1>4 DEF DisciplineInv

(* Overwriting: the window moves on by one and still is the storage.       *)
LEMMA LiveOverwrite ==
  ASSUME DisciplineInv, IndexInv', NEW v \in Values, full_,
         buffer_' = [buffer_ EXCEPT ![head_] = v], overwrite_advance_head
  PROVE  LiveExactly'
  <1>1. /\ buffer_ \in [Slots -> Cells] /\ head_ \in Slots /\ head_' \in Slots
        /\ count_ \in 0 .. Capacity /\ count_' \in 0 .. Capacity
        /\ count_ = Capacity /\ count_' = count_
    BY DEF DisciplineInv, IndexInv, RingBufferTypeOK, FullFlagExact,
           overwrite_advance_head
  <1>2. v # Raw
    BY RawAssumption
  <1>3. \A s \in Slots : buffer_[s] # Raw <=> s \in SlotsOf(head_, count_)
    BY <1>1, LiveSlotwise DEF DisciplineInv
  <1>4. SlotsOf(head_, count_) = Slots /\ SlotsOf(head_', count_') = Slots
    BY <1>1, FullWindow
  <1>5. \A s \in Slots : buffer_'[s] # Raw <=> s \in SlotsOf(head_', count_')
    BY <1>1, <1>2, <1>3, <1>4
  <1> QED
    BY <1>1, <1>5, LiveSlotwiseNext

(* Appending: with no overwrite outstanding tail_ is the slot behind the   *)
(* window.                                                                 *)
LEMMA TailInPlace ==
  ASSUME IndexInv, lag = 0
  PROVE  tail_ = SlotOf(head_, count_)
  <1>1. tail_ \in Slots /\ (tail_ + lag) % Capacity = (head_ + count_) % Capacity
    BY DEF IndexInv, RingBufferTypeOK, TailLag
  <1>2. tail_ % Capacity = tail_
    BY <1>1, CapacityAssumption DEF Slots
  <1>3. tail_ + lag = tail_
    BY <1>1 DEF Slots
  <1> QED
    BY <1>1, <1>2, <1>3 DEF SlotOf

LEMMA LiveAppend ==
  ASSUME DisciplineInv, IndexInv', NEW v \in Values, ~full_, lag = 0,
         buffer_' = [buffer_ EXCEPT ![tail_] = v], increment_tail
  PROVE  LiveExactly'
  <1>1. /\ buffer_ \in [Slots -> Cells] /\ head_ \in Slots /\ tail_ \in Slots
        /\ count_ \in 0 .. Capacity - 1
        /\ head_' = head_ /\ count_' = count_ + 1
    BY CapacityAssumption
       DEF DisciplineInv, IndexInv, RingBufferTypeOK, FullFlagExact, increment_tail
  <1>2. v # Raw
    BY RawAssumption
  <1>3. count_ \in 0 .. Capacity /\ count_' \in 0 .. Capacity /\ head_' \in Slots
    BY <1>1, CapacityAssumption
  <1>4. \A s \in Slots : buffer_[s] # Raw <=> s \in SlotsOf(head_, count_)
    BY <1>1, <1>3, LiveSlotwise DEF DisciplineInv
  <1>5. tail_ = SlotOf(head_, count_)
    BY TailInPlace DEF DisciplineInv
  <1>6. \A s \in Slots :
          s \in SlotsOf(head_', count_') <=> s \in SlotsOf(head_, count_) \/ s = tail_
    BY <1>1, <1>5, LongerWindow
  <1>7. \A s \in Slots : buffer_'[s] = IF s = tail_ THEN v ELSE buffer_[s]
    BY <1>1
  <1>8. \A s \in Slots : buffer_'[s] # Raw <=> s \in SlotsOf(head_', count_')
    BY <1>2, <1>4, <1>6, <1>7
  <1> QED
    BY <1>3, <1>8, LiveSlotwiseNext

(* With no overwrite outstanding the next insertion constructs over no     *)
(* element.                                                                *)
LEMMA TailIsDead ==
  ASSUME DisciplineInv, lag = 0, ~full_
  PROVE  tail_ \in Slots /\ buffer_ \in [Slots -> Cells] /\ buffer_[tail_] = Raw
  <1>1. /\ buffer_ \in [Slots -> Cells] /\ head_ \in Slots /\ tail_ \in Slots
        /\ count_ \in 0 .. Capacity - 1 /\ count_ \in 0 .. Capacity
    BY CapacityAssumption
       DEF DisciplineInv, IndexInv, RingBufferTypeOK, FullFlagExact
  <1>2. tail_ = SlotOf(head_, count_)
    BY TailInPlace DEF DisciplineInv
  <1>3. tail_ \notin SlotsOf(head_, count_)
    BY <1>1, <1>2, InSlotsOf, DistanceInverse
  <1> QED
    BY <1>1, <1>3, LiveSlotwise DEF DisciplineInv

LEMMA LivePop ==
  ASSUME DisciplineInv, IndexInv', pop_front
  PROVE  LiveExactly'
  <1>1. /\ buffer_ \in [Slots -> Cells] /\ head_ \in Slots
        /\ count_ \in 1 .. Capacity
        /\ head_' = (head_ + 1) % Capacity /\ count_' = count_ - 1
        /\ buffer_' = [buffer_ EXCEPT ![head_] = Raw]
    BY CapacityAssumption
       DEF DisciplineInv, IndexInv, RingBufferTypeOK, pop_front, empty, increment_head
  <1>2. count_ \in 0 .. Capacity /\ count_' \in 0 .. Capacity /\ head_' \in Slots
    BY <1>1, Step, CapacityAssumption
  <1>3. \A s \in Slots : buffer_[s] # Raw <=> s \in SlotsOf(head_, count_)
    BY <1>1, <1>2, LiveSlotwise DEF DisciplineInv
  <1>4. \A s \in Slots :
          s \in SlotsOf(head_', count_') <=> s \in SlotsOf(head_, count_) /\ s # head_
    BY <1>1, ShorterWindow
  <1>5. \A s \in Slots : buffer_'[s] = IF s = head_ THEN Raw ELSE buffer_[s]
    BY <1>1
  <1>6. \A s \in Slots : buffer_'[s] # Raw <=> s \in SlotsOf(head_', count_')
    BY <1>3, <1>4, <1>5
  <1> QED
    BY <1>2, <1>6, LiveSlotwiseNext

LEMMA LiveClear ==
  ASSUME DisciplineInv, clear
  PROVE  LiveExactly'
  <1>1. /\ head_ \in Slots /\ count_ \in 0 .. Capacity
        /\ head_' = 0 /\ count_' = 0
        /\ buffer_' = [s \in Slots |-> IF s \in Window THEN Raw ELSE buffer_[s]]
    BY DEF DisciplineInv, IndexInv, RingBufferTypeOK, clear
  <1>2. \A s \in Slots : buffer_[s] # Raw <=> s \in SlotsOf(head_, count_)
    BY <1>1, LiveSlotwise DEF DisciplineInv
  <1>3. \A s \in Slots : buffer_'[s] = Raw
    BY <1>1, <1>2, WindowIsSlotsOf
  <1>4. SlotsOf(head_', count_') = {}
    BY <1>1 DEF SlotsOf
  <1>5. head_' \in Slots /\ count_' \in 0 .. Capacity
    BY <1>1, CapacityAssumption DEF Slots
  <1> QED
    BY <1>3, <1>4, <1>5, LiveSlotwiseNext

LEMMA DisciplineInvUnchanged ==
  ASSUME DisciplineInv, IndexInv', UNCHANGED <<rbVars, lag>>
  PROVE  DisciplineInv'
  BY DEF DisciplineInv, LiveExactly, LiveSlots, Window, slot_at, rbVars

LEMMA DisciplineInvInsert ==
  ASSUME DisciplineInv, IndexInv', TailUsable, Overwriting,
         NEW v \in Values, push_back(v) \/ emplace_back(v)
  PROVE  DisciplineInv'
  <1>0. IndexInv /\ v \in Cells
    BY DEF DisciplineInv, Cells
  <1>1. CASE full_ /\ buffer_' = [buffer_ EXCEPT ![head_] = v]
             /\ overwrite_advance_head
    <2>1. LiveExactly'
      BY <1>1, LiveOverwrite
    <2>2. just_overwrote_' = TRUE
      BY <1>1 DEF overwrite_advance_head
    <2> QED
      BY <2>1, <2>2 DEF DisciplineInv
  <1>2. CASE ~full_ /\ buffer_' = [buffer_ EXCEPT ![tail_] = v] /\ increment_tail
    <2>1. lag = 0 /\ lag' = lag
      BY <1>2 DEF TailUsable, Overwriting
    <2>2. LiveExactly'
      BY <1>2, <2>1, LiveAppend
    <2> QED
      BY <2>1, <2>2 DEF DisciplineInv
  <1> QED
    BY <1>0, <1>1, <1>2, InsertEffect

LEMMA DisciplineInvStep ==
  DisciplineInv /\ IndexInv' /\ [DisciplinedNext]_vars => DisciplineInv'
  <1> SUFFICES ASSUME DisciplineInv, IndexInv', [DisciplinedNext]_vars
               PROVE  DisciplineInv'
    OBVIOUS
  <1>1. ASSUME TailUsable, NEW v \in Values, PushBack(v) \/ EmplaceBack(v)
        PROVE  DisciplineInv'
    BY <1>1, DisciplineInvInsert DEF PushBack, EmplaceBack
  <1>2. CASE pop_front
    <2>1. full_' = FALSE
      BY <1>2 DEF pop_front, increment_head
    <2> QED
      BY <1>2, <2>1, LivePop DEF DisciplineInv
  <1>3. CASE clear
    <2>1. full_' = FALSE
      BY <1>3 DEF clear
    <2> QED
      BY <1>3, <2>1, LiveClear DEF DisciplineInv
  <1>4. CASE UNCHANGED <<rbVars, lag>>
    BY <1>4, DisciplineInvUnchanged
  <1>5. CASE HeadCalls
    BY <1>5, <1>2, <1>3, <1>4
       DEF HeadCalls, PopFront, Clear, Front, At, Size, Available, Empty, Full, Answer
  <1>6. CASE TailUsable /\ TailCalls
    BY <1>6, <1>1, <1>4 DEF TailCalls, Back, Answer
  <1>7. CASE UNCHANGED vars
    BY <1>7, <1>4 DEF vars, rbVars
  <1> QED
    BY <1>5, <1>6, <1>7 DEF DisciplinedNext

(* A disciplined client is a client.                                       *)
LEMMA DisciplinedIsClient == [DisciplinedNext]_vars => [Next]_vars
  BY DEF DisciplinedNext, Next

(* The inductive invariant holds in every state of a disciplined client:   *)
(* live slots are the elements', and a full buffer that has not just been  *)
(* overwritten has tail_ in place.                                         *)
THEOREM DisciplinedInv == DisciplinedSpec => []DisciplineInv
  <1>1. DisciplineInv /\ [DisciplinedNext]_vars => DisciplineInv'
    BY DisciplinedIsClient, IndexInvStep, DisciplineInvStep DEF DisciplineInv
  <1> QED
    BY <1>1, DisciplineInvInit, PTL DEF DisciplinedSpec

(* For every capacity the constructed slots are exactly those of the       *)
(* elements, as long as the client does not use the back of the buffer     *)
(* between an overwrite-then-pop and the next clear(): no modifier leaks,  *)
(* destroys twice, reads a dead slot or constructs over a live one.        *)
THEOREM DisciplinedLiveExactly == DisciplinedSpec => []LiveExactly
  <1>1. DisciplineInv => LiveExactly
    BY DEF DisciplineInv
  <1> QED
    BY <1>1, DisciplinedInv, PTL

-----------------------------------------------------------------------------
(* The sequence of n elements that start at slot h of the storage b.       *)

Elements(b, h, n) == [i \in 1 .. n |-> b[SlotOf(h, i - 1)]]

LEMMA ContentsIsElements == Contents = Elements(buffer_, head_, count_)
  BY DEF Contents, at, slot_at, Elements, SlotOf

LEMMA ContentsIsElementsNext ==
  Contents' = Elements(buffer_', head_', count_')
  BY DEF Contents, at, slot_at, Elements, SlotOf

LEMMA ElementsSeq ==
  ASSUME NEW b \in [Slots -> Cells], NEW h \in Slots, NEW n \in 0 .. Capacity
  PROVE  /\ Elements(b, h, n) \in Seq(Cells)
         /\ Len(Elements(b, h, n)) = n
         /\ \A i \in 1 .. n : Elements(b, h, n)[i] = b[SlotOf(h, i - 1)]
         /\ Elements(b, h, n) = <<>> <=> n = 0
  <1>0. n \in Nat
    BY CapacityAssumption
  <1>1. \A i \in 1 .. n : i - 1 \in 0 .. Capacity
    BY CapacityAssumption
  <1>2. \A i \in 1 .. n : b[SlotOf(h, i - 1)] \in Cells
    BY <1>1, SlotOfValue
  <1>3. Elements(b, h, n) \in [1 .. n -> Cells]
    BY <1>2 DEF Elements
  <1>4. Elements(b, h, n) \in Seq(Cells)
    BY <1>0, <1>3, SeqDef
  <1>5. Len(Elements(b, h, n)) = n
    <2>1. DOMAIN Elements(b, h, n) = 1 .. Len(Elements(b, h, n))
          /\ Len(Elements(b, h, n)) \in Nat
      BY <1>4, LenProperties
    <2>2. DOMAIN Elements(b, h, n) = 1 .. n
      BY DEF Elements
    <2> DEFINE m == Len(Elements(b, h, n))
    <2>3. m \in Nat /\ \A i \in Nat : i \in 1 .. m <=> i \in 1 .. n
      BY <2>1, <2>2
    <2> HIDE DEF m
    <2>4. m >= n
      BY <2>3, <1>0
    <2>5. n >= m
      BY <2>3, <1>0
    <2> QED
      BY <2>3, <2>4, <2>5, <1>0 DEF m
  <1>6. Elements(b, h, n) = <<>> <=> n = 0
    BY <1>4, <1>5, EmptySeq, <1>0
  <1> QED
    BY <1>4, <1>5, <1>6 DEF Elements

(* Writing the slot behind the elements appends.                           *)
LEMMA ElementsAppend ==
  ASSUME NEW b \in [Slots -> Cells], NEW c \in [Slots -> Cells],
         NEW h \in Slots, NEW n \in 0 .. Capacity - 1, NEW v \in Cells,
         \A s \in Slots : c[s] = IF s = SlotOf(h, n) THEN v ELSE b[s]
  PROVE  Elements(c, h, n + 1) = Append(Elements(b, h, n), v)
  <1>1. n \in 0 .. Capacity /\ n + 1 \in 0 .. Capacity
    BY CapacityAssumption
  <1> DEFINE old == Elements(b, h, n)
             new == Elements(c, h, n + 1)
  <1>2. /\ old \in Seq(Cells) /\ Len(old) = n
        /\ \A i \in 1 .. n : old[i] = b[SlotOf(h, i - 1)]
    BY <1>1, ElementsSeq
  <1>3. /\ new \in Seq(Cells) /\ Len(new) = n + 1
        /\ \A i \in 1 .. n + 1 : new[i] = c[SlotOf(h, i - 1)]
    BY <1>1, ElementsSeq
  <1>4. SlotOf(h, n) \in Slots /\ Distance(h, SlotOf(h, n)) = n
    BY <1>1, SlotOfValue, DistanceInverse
  <1>5. ASSUME NEW i \in 1 .. n
        PROVE  new[i] = old[i]
    <2>1. i - 1 \in 0 .. Capacity - 1 /\ i - 1 \in 0 .. Capacity /\ i - 1 # n
      BY <1>1, CapacityAssumption
    <2>2. SlotOf(h, i - 1) \in Slots
      BY <2>1, SlotOfValue
    <2>3. Distance(h, SlotOf(h, i - 1)) = i - 1
      BY <2>1, DistanceInverse
    <2>4. SlotOf(h, i - 1) # SlotOf(h, n)
      BY <2>1, <2>3, <1>4
    <2>5. i \in 1 .. n + 1
      BY <1>1
    <2> HIDE DEF old, new
    <2> QED
      BY <2>2, <2>4, <2>5, <1>2, <1>3
  <1>6. new[n + 1] = v
    <2>1. n + 1 \in 1 .. n + 1 /\ (n + 1) - 1 = n
      BY <1>1
    <2>2. new[n + 1] = c[SlotOf(h, n)]
      BY <2>1, <1>3
    <2> QED
      BY <2>2, <1>4
  <1> HIDE DEF old, new
  <1>7. /\ Append(old, v) \in Seq(Cells) /\ Len(Append(old, v)) = n + 1
        /\ \A i \in 1 .. n : Append(old, v)[i] = old[i]
        /\ Append(old, v)[n + 1] = v
    BY <1>2, AppendProperties
  <1>8. \A i \in 1 .. n + 1 : new[i] = Append(old, v)[i]
    <2>1. \A i \in 1 .. n + 1 : i \in 1 .. n \/ i = n + 1
      BY <1>1
    <2> QED
      BY <2>1, <1>5, <1>6, <1>7
  <1>9. new = Append(old, v)
    BY <1>3, <1>7, <1>8, SeqEqual
  <1> QED
    BY <1>9 DEF old, new

(* Moving the front on by one slot takes the head off, whatever happens to *)
(* the old front slot.                                                     *)
LEMMA ElementsTail ==
  ASSUME NEW b \in [Slots -> Cells], NEW c \in [Slots -> Cells],
         NEW h \in Slots, NEW n \in 1 .. Capacity,
         \A s \in Slots : s # h => c[s] = b[s]
  PROVE  /\ Elements(c, (h + 1) % Capacity, n - 1) = Tail(Elements(b, h, n))
         /\ Head(Elements(b, h, n)) = b[h]
         /\ Elements(b, h, n) # <<>>
  <1> DEFINE g == (h + 1) % Capacity
             old == Elements(b, h, n)
             new == Elements(c, g, n - 1)
  <1>1. /\ n \in 0 .. Capacity /\ n - 1 \in 0 .. Capacity
        /\ n - 1 \in Nat /\ 1 \in 1 .. n
    BY CapacityAssumption
  <1>2. g \in Slots /\ g = IF h + 1 = Capacity THEN 0 ELSE h + 1
    BY Step
  <1> HIDE DEF g
  <1>3. /\ old \in Seq(Cells) /\ Len(old) = n /\ old # <<>>
        /\ \A i \in 1 .. n : old[i] = b[SlotOf(h, i - 1)]
    BY <1>1, ElementsSeq
  <1>4. /\ new \in Seq(Cells) /\ Len(new) = n - 1
        /\ \A i \in 1 .. n - 1 : new[i] = c[SlotOf(g, i - 1)]
    BY <1>1, <1>2, ElementsSeq
  <1> HIDE DEF old, new
  <1>5. /\ Tail(old) \in Seq(Cells) /\ Len(Tail(old)) = n - 1
        /\ \A i \in 1 .. n - 1 : Tail(old)[i] = old[i + 1]
    BY <1>3, HeadTailProperties
  <1>6. ASSUME NEW i \in 1 .. n - 1
        PROVE  new[i] = Tail(old)[i]
    <2>1. /\ i \in 0 .. Capacity /\ i \in 0 .. Capacity - 1 /\ i # 0
          /\ i - 1 \in 0 .. Capacity /\ i + 1 \in 1 .. n /\ (i + 1) - 1 = i
      BY <1>1, CapacityAssumption
    <2>2. SlotOf(h, i) \in Slots
          /\ SlotOf(h, i) = IF h + i < Capacity THEN h + i ELSE h + i - Capacity
      BY <2>1, SlotOfValue
    <2>3. SlotOf(g, i - 1)
            = IF g + (i - 1) < Capacity THEN g + (i - 1)
              ELSE g + (i - 1) - Capacity
      BY <2>1, <1>2, SlotOfValue
    <2>4. SlotOf(g, i - 1) = SlotOf(h, i)
      BY <2>1, <2>2, <2>3, <1>2, CapacityAssumption DEF Slots
    <2>5. SlotOf(h, i) # h
      BY <2>1, <2>2, CapacityAssumption DEF Slots
    <2>6. new[i] = b[SlotOf(h, i)]
      BY <2>2, <2>4, <2>5, <1>4
    <2>7. Tail(old)[i] = b[SlotOf(h, i)]
      <3>1. old[i + 1] = b[SlotOf(h, (i + 1) - 1)]
        BY <2>1, <1>3
      <3> QED
        BY <3>1, <2>1, <1>5
    <2> QED
      BY <2>6, <2>7
  <1>7. new = Tail(old)
    BY <1>4, <1>5, <1>6, SeqEqual
  <1>8. Head(old) = b[h]
    <2>1. Head(old) = old[1]
      BY <1>3
    <2>2. 0 \in 0 .. Capacity /\ h + 0 = h
      BY CapacityAssumption DEF Slots
    <2>3. SlotOf(h, 0) = IF h + 0 < Capacity THEN h + 0 ELSE h + 0 - Capacity
      BY <2>2, SlotOfValue
    <2>4. SlotOf(h, 0) = h
      BY <2>3, CapacityAssumption DEF Slots
    <2>5. old[1] = b[SlotOf(h, 1 - 1)] /\ 1 - 1 = 0
      BY <1>1, <1>3
    <2> QED
      BY <2>1, <2>4, <2>5
  <1> QED
    BY <1>3, <1>7, <1>8 DEF old, new, g

(* In a full storage, overwriting the front slot and moving on takes the   *)
(* head off and appends.                                                   *)
LEMMA ElementsOverwrite ==
  ASSUME NEW b \in [Slots -> Cells], NEW c \in [Slots -> Cells],
         NEW h \in Slots, NEW v \in Cells,
         \A s \in Slots : c[s] = IF s = h THEN v ELSE b[s]
  PROVE  Elements(c, (h + 1) % Capacity, Capacity)
           = Append(Tail(Elements(b, h, Capacity)), v)
  <1> DEFINE g == (h + 1) % Capacity
  <1>1. /\ Capacity \in 1 .. Capacity
        /\ Capacity - 1 \in 0 .. Capacity - 1 /\ Capacity - 1 \in 0 .. Capacity
        /\ (Capacity - 1) + 1 = Capacity
    BY CapacityAssumption
  <1>2. g \in Slots /\ g = IF h + 1 = Capacity THEN 0 ELSE h + 1
    BY Step
  <1> HIDE DEF g
  <1>3. SlotOf(g, Capacity - 1) = h
    <2>1. SlotOf(g, Capacity - 1)
            = IF g + (Capacity - 1) < Capacity THEN g + (Capacity - 1)
              ELSE g + (Capacity - 1) - Capacity
      BY <1>1, <1>2, SlotOfValue
    <2> QED
      BY <2>1, <1>2, CapacityAssumption DEF Slots
  <1>4. Elements(c, g, Capacity - 1) = Tail(Elements(b, h, Capacity))
    BY <1>1, ElementsTail DEF g
  <1>5. \A s \in Slots : c[s] = IF s = SlotOf(g, Capacity - 1) THEN v ELSE c[s]
    BY <1>3
  <1>6. Elements(c, g, (Capacity - 1) + 1) = Append(Elements(c, g, Capacity - 1), v)
    BY <1>1, <1>2, <1>5, ElementsAppend
  <1> QED
    BY <1>1, <1>4, <1>6 DEF g
-----------------------------------------------------------------------------
(* Each call of the code is the call of the same name of SlidingWindow.    *)

WindowVars == <<Contents, out>>

(* What IndexInv says of the members, in the form the steps need.          *)
LEMMA MembersTyped ==
  ASSUME IndexInv
  PROVE  /\ buffer_ \in [Slots -> Cells] /\ head_ \in Slots /\ tail_ \in Slots
         /\ count_ \in 0 .. Capacity /\ count_ \in Nat /\ full_ \in BOOLEAN
         /\ full_ <=> count_ = Capacity
  BY CapacityAssumption
     DEF IndexInv, RingBufferTypeOK, FullFlagExact

LEMMA ContentsTyped ==
  ASSUME IndexInv
  PROVE  /\ Contents \in Seq(Cells) /\ Len(Contents) = count_
         /\ \A i \in 1 .. count_ : Contents[i] = buffer_[SlotOf(head_, i - 1)]
         /\ Contents = <<>> <=> empty
  BY MembersTyped, ElementsSeq, ContentsIsElements DEF empty

LEMMA EnqueueStep ==
  ASSUME IndexInv, IndexInv', TailUsable,
         NEW v \in Cells, push_back(v) \/ emplace_back(v)
  PROVE  Window_!Enqueue(v)
  <1>0. buffer_' \in [Slots -> Cells]
    BY DEF IndexInv, RingBufferTypeOK
  <1>1. CASE full_ /\ buffer_' = [buffer_ EXCEPT ![head_] = v]
             /\ overwrite_advance_head
    <2>1. count_ = Capacity /\ count_' = count_ /\ head_' = (head_ + 1) % Capacity
      BY <1>1, MembersTyped DEF overwrite_advance_head
    <2>2. \A s \in Slots : buffer_'[s] = IF s = head_ THEN v ELSE buffer_[s]
      BY <1>1, MembersTyped
    <2>3. Elements(buffer_', (head_ + 1) % Capacity, Capacity)
            = Append(Tail(Elements(buffer_, head_, Capacity)), v)
      BY <1>0, <2>2, MembersTyped, ElementsOverwrite
    <2>4. Contents' = Append(Tail(Contents), v)
      BY <2>1, <2>3, ContentsIsElements, ContentsIsElementsNext
    <2> QED
      BY <2>1, <2>4, ContentsTyped DEF Window_!Enqueue
  <1>2. CASE ~full_ /\ buffer_' = [buffer_ EXCEPT ![tail_] = v] /\ increment_tail
    <2>1. /\ count_ \in 0 .. Capacity - 1 /\ count_ # Capacity
          /\ count_' = count_ + 1 /\ head_' = head_
      BY <1>2, MembersTyped, CapacityAssumption DEF increment_tail
    <2>2. tail_ = SlotOf(head_, count_)
      BY <1>0, <1>2, TailInPlace DEF TailUsable
    <2>3. \A s \in Slots :
            buffer_'[s] = IF s = SlotOf(head_, count_) THEN v ELSE buffer_[s]
      BY <1>2, <2>2, MembersTyped
    <2>4. Elements(buffer_', head_, count_ + 1)
            = Append(Elements(buffer_, head_, count_), v)
      BY <1>0, <2>1, <2>3, MembersTyped, ElementsAppend
    <2>5. Contents' = Append(Contents, v)
      BY <2>1, <2>4, ContentsIsElements, ContentsIsElementsNext
    <2> QED
      BY <2>1, <2>5, ContentsTyped DEF Window_!Enqueue
  <1> QED
    BY <1>0, <1>1, <1>2, InsertEffect

(* What the calls find in the elements and do to them; PopStep and the     *)
(* others below add the result that the call delivers.                     *)
LEMMA ContentsUnchanged ==
  ASSUME UNCHANGED rbVars
  PROVE  Contents' = Contents
  BY ContentsIsElements, ContentsIsElementsNext DEF rbVars

LEMMA PopContents ==
  ASSUME IndexInv, IndexInv', pop_front
  PROVE  Contents' = Tail(Contents) /\ Head(Contents) = front /\ Contents # <<>>
  <1>1. /\ buffer_' \in [Slots -> Cells] /\ count_ \in 1 .. Capacity
        /\ count_' = count_ - 1 /\ head_' = (head_ + 1) % Capacity
        /\ \A s \in Slots : s # head_ => buffer_'[s] = buffer_[s]
    BY MembersTyped, CapacityAssumption
       DEF IndexInv, RingBufferTypeOK, pop_front, empty, increment_head
  <1>2. /\ Elements(buffer_', (head_ + 1) % Capacity, count_ - 1)
             = Tail(Elements(buffer_, head_, count_))
        /\ Head(Elements(buffer_, head_, count_)) = buffer_[head_]
        /\ Elements(buffer_, head_, count_) # <<>>
    BY <1>1, MembersTyped, ElementsTail
  <1> QED
    BY <1>1, <1>2, ContentsIsElements, ContentsIsElementsNext DEF front

LEMMA ClearContents ==
  ASSUME clear
  PROVE  Contents' = <<>>
  <1>1. count_' = 0
    BY DEF clear
  <1>2. Contents' = [i \in {} |-> Elements(buffer_', head_', 0)[i]]
    BY <1>1, ContentsIsElementsNext DEF Elements
  <1> QED
    BY <1>2

LEMMA FrontContents ==
  ASSUME IndexInv, ~empty
  PROVE  Head(Contents) = front
  <1>1. count_ \in 1 .. Capacity
    BY MembersTyped, CapacityAssumption DEF empty
  <1>2. Head(Elements(buffer_, head_, count_)) = buffer_[head_]
    BY <1>1, MembersTyped, ElementsTail
  <1> QED
    BY <1>2, ContentsIsElements DEF front

LEMMA AtContents ==
  ASSUME IndexInv, NEW i \in 0 .. Capacity, ~(i >= count_)
  PROVE  at(i) = Contents[i + 1]
  <1>1. i + 1 \in 1 .. count_ /\ (i + 1) - 1 = i
    BY MembersTyped, CapacityAssumption
  <1>2. Contents[i + 1] = buffer_[SlotOf(head_, (i + 1) - 1)]
    BY <1>1, ContentsTyped
  <1> QED
    BY <1>1, <1>2 DEF at, slot_at, SlotOf

LEMMA SizeContents ==
  ASSUME IndexInv
  PROVE  /\ size = Len(Contents)
         /\ available = Capacity - Len(Contents)
         /\ empty = (Len(Contents) = 0)
         /\ full_ = (Len(Contents) = Capacity)
  <1>1. /\ size = Len(Contents)
        /\ available = Capacity - Len(Contents)
        /\ empty <=> Len(Contents) = 0
        /\ full_ <=> Len(Contents) = Capacity
    BY MembersTyped, ContentsTyped, CapacityAssumption DEF size, available, empty
  <1>2. empty = (Len(Contents) = 0)
    BY <1>1 DEF empty
  <1>3. full_ = (Len(Contents) = Capacity)
    BY <1>1, MembersTyped
  <1> QED
    BY <1>1, <1>2, <1>3

LEMMA PopStep ==
  ASSUME IndexInv, IndexInv', PopFront
  PROVE  Window_!PopFront
  <1>1. CASE empty /\ out' = Window_!Report(<<"pop_front">>, Window_!Thrown)
             /\ UNCHANGED <<rbVars, lag>>
    BY <1>1, ContentsUnchanged, ContentsTyped DEF Window_!PopFront
  <1>2. CASE pop_front /\ out' = Window_!Report(<<"pop_front">>, Window_!Element(front))
    BY <1>2, PopContents DEF Window_!PopFront
  <1> QED
    BY <1>1, <1>2 DEF PopFront

LEMMA ClearStep ==
  ASSUME Clear
  PROVE  Window_!Clear
  BY ClearContents DEF Clear, Window_!Clear

(* The slot back() reads is that of the newest element.                    *)
LEMMA BackSlotNewest ==
  ASSUME DisciplineInv, TailUsable, ~empty
  PROVE  back_slot = SlotOf(head_, count_ - 1)
  <1>0. IndexInv
    BY DEF DisciplineInv
  <1>1. /\ count_ \in 1 .. Capacity /\ count_ - 1 \in 0 .. Capacity
        /\ head_ \in Slots /\ tail_ \in Slots
    BY <1>0, MembersTyped, CapacityAssumption DEF empty
  <1>2. SlotOf(head_, count_ - 1)
          = IF head_ + (count_ - 1) < Capacity THEN head_ + (count_ - 1)
            ELSE head_ + (count_ - 1) - Capacity
    BY <1>1, SlotOfValue
  <1>3. CASE just_overwrote_
    <2>1. count_ = Capacity /\ overwrite_position_ = decrement_index(head_)
      BY <1>0, <1>3, MembersTyped DEF DisciplineInv, IndexInv, OverwriteMark
    <2>2. decrement_index(head_) = SlotOf(head_, count_ - 1)
      BY <1>1, <1>2, <2>1, CapacityAssumption DEF decrement_index, Slots
    <2> QED
      BY <1>3, <2>1, <2>2 DEF back_slot
  <1>4. CASE ~just_overwrote_
    <2>1. lag = 0 /\ IndexInv
      BY <1>4 DEF DisciplineInv, TailUsable
    <2>2. tail_ = SlotOf(head_, count_)
      BY <2>1, TailInPlace
    <2>3. tail_ = IF head_ + count_ < Capacity THEN head_ + count_
                  ELSE head_ + count_ - Capacity
      BY <1>0, <2>2, MembersTyped, SlotOfValue
    <2>4. decrement_index(tail_) = SlotOf(head_, count_ - 1)
      BY <1>1, <1>2, <2>3, CapacityAssumption DEF decrement_index, Slots
    <2> QED
      BY <1>4, <2>4 DEF back_slot
  <1> QED
    BY <1>3, <1>4

LEMMA ObserverStep ==
  ASSUME NEW call, NEW result, Answer(call, result)
  PROVE  Window_!Answer(call, result)
  BY ContentsUnchanged DEF Answer, Window_!Answer

LEMMA BackContents ==
  ASSUME DisciplineInv, TailUsable, ~empty
  PROVE  back = Contents[Len(Contents)]
  <1>0. IndexInv
    BY DEF DisciplineInv
  <1>1. count_ \in 1 .. count_
    BY <1>0, MembersTyped DEF empty
  <1>2. Contents[count_] = buffer_[SlotOf(head_, count_ - 1)]
    BY <1>0, <1>1, ContentsTyped
  <1> QED
    BY <1>0, <1>1, <1>2, BackSlotNewest, ContentsTyped DEF back

LEMMA BackStep ==
  ASSUME DisciplineInv, TailUsable, Back
  PROVE  Window_!Back
  <1>1. (IF empty THEN Window_!Thrown ELSE Window_!Element(back))
          = IF Contents = <<>> THEN Window_!Thrown
            ELSE Window_!Element(Contents[Len(Contents)])
    BY BackContents, ContentsTyped DEF DisciplineInv
  <1> QED
    BY <1>1, ObserverStep DEF Back, Window_!Back

(* The observers that read from the front, and the size queries.           *)
LEMMA FrontStep ==
  ASSUME IndexInv, Front
  PROVE  Window_!Front
  <1>1. (IF empty THEN Window_!Thrown ELSE Window_!Element(front))
          = IF Contents = <<>> THEN Window_!Thrown
            ELSE Window_!Element(Head(Contents))
    BY FrontContents, ContentsTyped
  <1> QED
    BY <1>1, ObserverStep DEF Front, Window_!Front

LEMMA AtStep ==
  ASSUME IndexInv, NEW i \in 0 .. Capacity, At(i)
  PROVE  Window_!At(i)
  <1>1. (IF i >= count_ THEN Window_!Thrown ELSE Window_!Element(at(i)))
          = IF i >= Len(Contents) THEN Window_!Thrown
            ELSE Window_!Element(Contents[i + 1])
    BY AtContents, ContentsTyped
  <1> QED
    BY <1>1, ObserverStep DEF At, Window_!At

LEMMA SizeStep ==
  ASSUME IndexInv, Size \/ Available \/ Empty \/ Full
  PROVE  Window_!Size \/ Window_!Available \/ Window_!Empty \/ Window_!Full
  <1>1. CASE Size
    BY <1>1, SizeContents, ObserverStep DEF Size, Window_!Size
  <1>2. CASE Available
    BY <1>2, SizeContents, ObserverStep DEF Available, Window_!Available
  <1>3. CASE Empty
    BY <1>3, SizeContents, ObserverStep DEF Empty, Window_!Empty
  <1>4. CASE Full
    BY <1>4, SizeContents, ObserverStep DEF Full, Window_!Full
  <1> QED
    BY <1>1, <1>2, <1>3, <1>4

LEMMA WindowStep ==
  ASSUME DisciplineInv, IndexInv', [DisciplinedNext]_vars
  PROVE  [Window_!Next]_WindowVars
  <1>0. IndexInv /\ \A v \in Values : v \in Cells
    BY DEF DisciplineInv, Cells
  <1>1. ASSUME TailUsable, NEW v \in Values, PushBack(v)
        PROVE  Window_!PushBack(v)
    BY <1>0, <1>1, EnqueueStep DEF PushBack, Window_!PushBack
  <1>2. ASSUME TailUsable, NEW v \in Values, EmplaceBack(v)
        PROVE  Window_!EmplaceBack(v)
    BY <1>0, <1>2, EnqueueStep DEF EmplaceBack, Window_!EmplaceBack
  <1>3. CASE TailUsable /\ TailCalls
    BY <1>3, <1>1, <1>2, BackStep DEF TailCalls, Window_!Next, Window_!Observe
  <1>4. CASE HeadCalls
    BY <1>0, <1>4, PopStep, ClearStep, FrontStep, AtStep, SizeStep
       DEF HeadCalls, Window_!Next, Window_!Observe
  <1>5. CASE UNCHANGED vars
    <2>1. UNCHANGED rbVars
      BY <1>5 DEF vars, rbVars
    <2> QED
      BY <1>5, <2>1, ContentsUnchanged DEF vars, WindowVars
  <1> QED
    BY <1>3, <1>4, <1>5 DEF DisciplinedNext

LEMMA WindowInit == Init => Window_!Init
  <1> SUFFICES ASSUME Init PROVE Window_!Init
    OBVIOUS
  <1>1. IndexInv /\ empty
    BY DisciplineInvInit DEF Init, ring_buffer, empty, DisciplineInv
  <1> QED
    BY <1>1, ContentsTyped DEF Init, Window_!Init

(* For every capacity and every set of values: as long as the client keeps *)
(* off the back of the buffer between an overwrite-then-pop and the next   *)
(* clear(), every call of ring_buffer changes the elements and answers as  *)
(* the same call on a bounded sequence that drops its oldest value.        *)
THEOREM DisciplinedRefinesWindow == DisciplinedSpec => ImplementsWindow
  <1>1. DisciplineInv => IndexInv
    BY DEF DisciplineInv
  <1>2. DisciplineInv /\ DisciplineInv' /\ [DisciplinedNext]_vars
          => [Window_!Next]_WindowVars
    BY <1>1, WindowStep DEF DisciplineInv
  <1> QED
    BY <1>2, WindowInit, DisciplinedInv, PTL
       DEF DisciplinedSpec, ImplementsWindow, Window_!Spec, WindowVars
=============================================================================
