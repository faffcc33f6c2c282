---------------------- MODULE RingBufferHandlesProofs -----------------------
(***************************************************************************)
(* Proofs about RingBufferLockstep and RingBufferHandles, for every        *)
(* capacity, every set of values and every client, exceptions of the       *)
(* element type included.  First the buffer beside the ideal sequence: the *)
(* number of elements is always right, the elements are right until a push *)
(* tears them, the results until the client strays.  Then the handles:     *)
(* holding a reference or an iterator changes nothing for the buffer, a    *)
(* reference stays good until its element is removed, and a loop whose     *)
(* body removes nothing visits every element.                              *)
(***************************************************************************)
EXTENDS RingBufferHandles, RingBufferClientProofs

-----------------------------------------------------------------------------
(* Results of different kinds differ.                                      *)
LEMMA ResultKinds ==
  /\ Window_!Void # Window_!Thrown /\ Window_!Void[1] \notin {"number", "flag"}
  /\ Window_!Thrown[1] \notin {"number", "flag"}
  /\ \A v : /\ Window_!Element(v) # Window_!Thrown
            /\ Window_!Element(v)[1] \notin {"number", "flag"}
  /\ \A n : Window_!Number(n) # Window_!Thrown /\ Window_!Flag(n) # Window_!Thrown
  BY DEF Window_!Void, Window_!Thrown, Window_!Element, Window_!Number, Window_!Flag

(* The ideal sequence delivers results of the same form.                   *)
LEMMA SameResults ==
  /\ Ideal!Void = Window_!Void /\ Ideal!Thrown = Window_!Thrown
  /\ \A v : Ideal!Element(v) = Window_!Element(v)
  /\ \A n : Ideal!Number(n) = Window_!Number(n) /\ Ideal!Flag(n) = Window_!Flag(n)
  /\ \A c, r : Ideal!Report(c, r) = Window_!Report(c, r)
  BY DEF Ideal!Void, Ideal!Thrown, Ideal!Element, Ideal!Number, Ideal!Flag,
         Ideal!Report, Window_!Void, Window_!Thrown, Window_!Element,
         Window_!Number, Window_!Flag, Window_!Report

ResultsAgree ==
  /\ expected.result = Window_!Thrown <=> out.result = Window_!Thrown
  /\ expected.result[1] \in {"number", "flag"} => out = expected

-----------------------------------------------------------------------------
(* The inductive invariant.  Without the discipline, only what depends on  *)
(* neither tail_ nor the elements is known of every state; the elements    *)
(* are known while nothing is torn, and everything a disciplined client    *)
(* relies on while nothing has strayed.                                    *)
LockstepInv ==
  /\ IndexInv
  /\ out.result \in Results
  /\ ideal \in Seq(Values) /\ Len(ideal) = count_
  /\ ResultsAgree
  /\ torn \in BOOLEAN /\ strayed \in BOOLEAN
  /\ torn => strayed
  /\ ~torn => Contents = ideal
  /\ ~strayed => DisciplineInv /\ out = expected

LEMMA LockstepInvInit == LockstepInit => LockstepInv
  <1> SUFFICES ASSUME LockstepInit PROVE LockstepInv
    OBVIOUS
  <1>1. /\ Init /\ ideal = <<>> /\ expected = out
        /\ out = Window_!Report(<<"ring_buffer">>, Window_!Void)
        /\ torn = FALSE /\ strayed = FALSE
    BY SameResults DEF LockstepInit, Init, Ideal!Init
  <1>2. DisciplineInv /\ IndexInv /\ count_ = 0 /\ empty
    BY <1>1, DisciplineInvInit DEF Init, ring_buffer, empty, DisciplineInv
  <1>3. Contents = <<>>
    BY <1>2, ContentsTyped
  <1>4. out.result = Window_!Void /\ out.result \in Results
    BY <1>1 DEF Window_!Report, Results
  <1>5. ResultsAgree
    BY <1>1, <1>4, ResultKinds DEF ResultsAgree
  <1>6. ideal \in Seq(Values) /\ Len(ideal) = 0
    BY <1>1
  <1> QED
    BY <1>1, <1>2, <1>3, <1>4, <1>5, <1>6 DEF LockstepInv

-----------------------------------------------------------------------------
(* Modifiers.                                                              *)

(* The ideal sequence grows by one, to the capacity at most.               *)
LEMMA IdealGrows ==
  ASSUME LockstepInv, NEW w \in Values, Ideal!Enqueue(w)
  PROVE  /\ ideal' \in Seq(Values)
         /\ Len(ideal') = IF full_ THEN count_ ELSE count_ + 1
  <1>1. /\ ideal \in Seq(Values) /\ Len(ideal) = count_ /\ count_ \in Nat
        /\ (full_ <=> count_ = Capacity)
    BY MembersTyped DEF LockstepInv
  <1>2. CASE full_
    <2>1. Len(ideal) = Capacity /\ ideal # <<>> /\ Len(ideal) \in Nat \ {0}
      BY <1>1, <1>2, CapacityAssumption, EmptySeq
    <2>2. ideal' = Append(Tail(ideal), w)
      BY <2>1 DEF Ideal!Enqueue
    <2>3. Tail(ideal) \in Seq(Values) /\ Len(Tail(ideal)) = Len(ideal) - 1
      BY <1>1, <2>1, HeadTailProperties
    <2>4. ideal' \in Seq(Values) /\ Len(ideal') = Len(Tail(ideal)) + 1
      BY <2>2, <2>3, AppendProperties
    <2> QED
      BY <1>1, <1>2, <2>1, <2>3, <2>4
  <1>3. CASE ~full_
    <2>1. ideal' = Append(ideal, w)
      BY <1>1, <1>3 DEF Ideal!Enqueue
    <2> QED
      BY <1>1, <1>3, <2>1, AppendProperties
  <1> QED
    BY <1>2, <1>3

LEMMA CountGrows ==
  ASSUME IndexInv, NEW v \in Cells, push_back(v) \/ emplace_back(v)
  PROVE  count_' = IF full_ THEN count_ ELSE count_ + 1
  BY InsertEffect DEF overwrite_advance_head, increment_tail

(* An insertion: v enters the buffer and w the ideal sequence, and they    *)
(* differ only if the step is recorded as tearing.                         *)
LEMMA InsertStep ==
  ASSUME LockstepInv, NEW v \in Cells, NEW w \in Values, NEW tears \in BOOLEAN,
         push_back(v) \/ emplace_back(v), Overwriting, Ideal!Enqueue(w),
         out'.result = Window_!Void, expected'.result = Window_!Void,
         Tears(tears),
         ~torn /\ ~tears => TailUsable /\ v = w /\ out' = expected'
  PROVE  LockstepInv'
  <1>1. /\ IndexInv /\ Len(ideal) = count_ /\ torn \in BOOLEAN /\ strayed \in BOOLEAN
        /\ torn => strayed
        /\ ~torn => Contents = ideal
        /\ ~strayed => DisciplineInv
    BY DEF LockstepInv
  <1>2. IndexInv'
    BY <1>1, IndexInvInsert
  <1>3. ideal' \in Seq(Values) /\ Len(ideal') = count_'
    BY <1>1, IdealGrows, CountGrows
  <1>4. torn' = (torn \/ tears) /\ strayed' = (strayed \/ tears)
    BY DEF Tears
  <1>5. /\ torn' \in BOOLEAN /\ strayed' \in BOOLEAN
        /\ torn' => strayed'
        /\ ~torn' => ~torn /\ ~tears
        /\ ~strayed' => ~strayed /\ ~tears
    BY <1>1, <1>4
  <1>6. ASSUME ~torn' PROVE Contents' = ideal'
    <2>1. Window_!Enqueue(v) /\ Contents = ideal /\ v = w
      BY <1>1, <1>2, <1>5, <1>6, EnqueueStep
    <2> QED
      BY <2>1 DEF Window_!Enqueue, Ideal!Enqueue
  <1>7. ASSUME ~strayed' PROVE DisciplineInv' /\ out' = expected'
    <2>1. DisciplineInv /\ TailUsable /\ v \in Values /\ out' = expected'
      BY <1>1, <1>5, <1>7
    <2> QED
      BY <1>2, <2>1, DisciplineInvInsert
  <1>8. ResultsAgree' /\ out'.result \in Results'
    BY ResultKinds DEF ResultsAgree, Results
  <1> QED
    BY <1>2, <1>3, <1>5, <1>6, <1>7, <1>8 DEF LockstepInv

LEMMA PushStep ==
  ASSUME LockstepInv, NEW v \in Values, Push(v)
  PROVE  LockstepInv'
  <1>1. v \in Cells /\ (~TailUsable) \in BOOLEAN
    BY DEF Cells
  <1>2. PICK name \in {"push_back", "emplace_back"} :
          /\ out' = Window_!Report(<<name, v>>, Window_!Void)
          /\ expected' = Window_!Report(<<name, v>>, Window_!Void)
    BY SameResults DEF Push, PushBack, EmplaceBack, Ideal!PushBack, Ideal!EmplaceBack
  <1>3. /\ out'.result = Window_!Void /\ expected'.result = Window_!Void
        /\ out' = expected'
    BY <1>2 DEF Window_!Report
  <1>4. /\ push_back(v) \/ emplace_back(v)
        /\ Overwriting /\ Ideal!Enqueue(v) /\ Tears(~TailUsable)
    BY DEF Push, PushBack, EmplaceBack, Ideal!PushBack, Ideal!EmplaceBack
  <1> QED
    BY <1>1, <1>3, <1>4, InsertStep

LEMMA EmplaceOwnStep ==
  ASSUME LockstepInv, NEW i \in 0 .. Capacity - 1, EmplaceOwn(i)
  PROVE  LockstepInv'
  <1> DEFINE tears == ~TailUsable \/ Emplaced(i) = Raw
  <1>1. /\ IndexInv /\ count_ \in Nat /\ head_ \in Slots
        /\ buffer_ \in [Slots -> Cells]
        /\ ideal \in Seq(Values) /\ Len(ideal) = count_
        /\ torn => strayed
        /\ ~torn => Contents = ideal
    BY MembersTyped DEF LockstepInv
  <1>2. i < count_ /\ i + 1 \in 1 .. count_ /\ i \in 0 .. Capacity
    BY <1>1, CapacityAssumption DEF EmplaceOwn
  <1>3. ideal[i + 1] \in Values
    BY <1>1, <1>2
  <1>4. at(i) = buffer_[SlotOf(head_, i)] /\ at(i) \in Cells /\ (i + 1) - 1 = i
    BY <1>1, <1>2, SlotOfValue DEF at, slot_at, SlotOf
  <1>5. Emplaced(i) \in Cells
    BY <1>4 DEF Emplaced, Cells
  <1>6. /\ emplace_back(Emplaced(i)) /\ Overwriting /\ Ideal!Enqueue(ideal[i + 1])
        /\ out' = Window_!Report(<<"emplace_back", Emplaced(i)>>, Window_!Void)
        /\ expected' = Window_!Report(<<"emplace_back", ideal[i + 1]>>, Window_!Void)
        /\ Tears(tears)
    BY SameResults DEF EmplaceOwn, EmplaceBack, Ideal!EmplaceBack
  <1>7. out'.result = Window_!Void /\ expected'.result = Window_!Void
    BY <1>6 DEF Window_!Report
  <1>8. ASSUME ~torn, ~tears
        PROVE  /\ TailUsable /\ Emplaced(i) = ideal[i + 1]
               /\ out' = expected'
    <2>1. Emplaced(i) = at(i) /\ Contents = ideal
      BY <1>1, <1>8 DEF Emplaced
    <2>2. Contents[i + 1] = buffer_[SlotOf(head_, (i + 1) - 1)]
      BY <1>1, <1>2, ContentsTyped
    <2>3. Emplaced(i) = ideal[i + 1]
      BY <1>4, <1>8, <2>1, <2>2
    <2> QED
      BY <1>6, <1>8, <2>3
  <1>9. tears \in BOOLEAN
    OBVIOUS
  <1> HIDE DEF tears
  <1> QED
    BY <1>3, <1>5, <1>6, <1>7, <1>8, <1>9, InsertStep

LEMMA PopLockstep ==
  ASSUME LockstepInv, Pop
  PROVE  LockstepInv'
  <1>1. /\ IndexInv /\ ideal \in Seq(Values) /\ Len(ideal) = count_ /\ count_ \in Nat
        /\ torn' = torn /\ strayed' = strayed /\ torn \in BOOLEAN /\ strayed \in BOOLEAN
        /\ torn => strayed
        /\ ~torn => Contents = ideal
        /\ ~strayed => DisciplineInv
        /\ (empty <=> ideal = <<>>)
        /\ PopFront /\ Ideal!PopFront
    BY MembersTyped, EmptySeq DEF LockstepInv, Pop, empty
  <1>2. IndexInv'
    BY <1>1, IndexInvPop, IndexInvUnchanged DEF PopFront
  <1>3. CASE empty
    <2>1. /\ UNCHANGED <<rbVars, lag, ideal>>
          /\ out'.result = Window_!Thrown /\ expected' = out'
      BY <1>1, <1>3, SameResults
         DEF PopFront, pop_front, Ideal!PopFront, Window_!Report
    <2>2. Contents' = Contents /\ count_' = count_
      BY <2>1, ContentsIsElements, ContentsIsElementsNext DEF rbVars
    <2>3. ~strayed => DisciplineInv'
      BY <1>1, <1>2, <2>1, DisciplineInvUnchanged
    <2>4. ResultsAgree' /\ out'.result \in Results'
      BY <2>1, ResultKinds DEF ResultsAgree, Results
    <2> QED
      BY <1>1, <1>2, <2>1, <2>2, <2>3, <2>4 DEF LockstepInv
  <1>4. CASE ~empty
    <2>1. /\ pop_front /\ UNCHANGED lag
          /\ out' = Window_!Report(<<"pop_front">>, Window_!Element(front))
          /\ expected' = Window_!Report(<<"pop_front">>, Window_!Element(Head(ideal)))
          /\ ideal' = Tail(ideal) /\ ideal # <<>>
      BY <1>1, <1>4, SameResults DEF PopFront, Ideal!PopFront
    <2>2. ideal' \in Seq(Values) /\ Len(ideal') = count_ - 1
      BY <1>1, <2>1, HeadTailProperties
    <2>3. count_' = count_ - 1
      BY <1>1, <1>4, <2>1 DEF pop_front, increment_head, empty
    <2>4. ASSUME ~torn PROVE Contents' = ideal' /\ out' = expected'
      <3>1. /\ out' = Window_!Report(<<"pop_front">>, Window_!Element(Head(Contents)))
            /\ Contents' = Tail(Contents)
        <4>1. Window_!PopFront /\ Contents # <<>>
          BY <1>1, <1>2, <1>4, PopStep, ContentsTyped
        <4> QED
          BY <4>1 DEF Window_!PopFront
      <3> QED
        BY <1>1, <2>1, <2>4, <3>1
    <2>5. ASSUME ~strayed PROVE DisciplineInv'
      <3>1. full_' = FALSE
        BY <2>1 DEF pop_front, increment_head
      <3> QED
        BY <1>1, <1>2, <2>1, <2>5, <3>1, LivePop DEF DisciplineInv
    <2>6. ResultsAgree' /\ out'.result \in Results'
      <3>1. front \in Cells
        BY <1>1, MembersTyped DEF front
      <3>2. out'.result = Window_!Element(front) /\ Window_!Element(front) \in Results
        BY <2>1, <3>1 DEF Window_!Report, Window_!Element, Results
      <3>3. expected'.result = Window_!Element(Head(ideal))
        BY <2>1 DEF Window_!Report
      <3>4. ResultsAgree'
        BY <3>2, <3>3, ResultKinds DEF ResultsAgree
      <3> QED
        BY <3>2, <3>4 DEF Results
    <2> QED
      BY <1>1, <1>2, <2>2, <2>3, <2>4, <2>5, <2>6 DEF LockstepInv
  <1> QED
    BY <1>3, <1>4

LEMMA ResetLockstep ==
  ASSUME LockstepInv, Reset
  PROVE  LockstepInv'
  <1>1. /\ clear /\ lag' = 0 /\ ideal' = <<>> /\ torn' = FALSE /\ strayed' = strayed
        /\ out' = Window_!Report(<<"clear">>, Window_!Void) /\ expected' = out'
        /\ Clear
    BY SameResults DEF Reset, Clear, Ideal!Clear
  <1>2. IndexInv /\ IndexInv' /\ count_' = 0 /\ full_' = FALSE
    BY <1>1, IndexInvClear DEF LockstepInv, clear
  <1>3. Contents' = <<>>
    BY <1>1, ClearStep DEF Window_!Clear
  <1>4. ASSUME ~strayed PROVE DisciplineInv'
    <2>1. DisciplineInv
      BY <1>4 DEF LockstepInv
    <2> QED
      BY <1>1, <1>2, <2>1, LiveClear DEF DisciplineInv
  <1>5. out'.result = Window_!Void
    BY <1>1 DEF Window_!Report
  <1>6. ResultsAgree' /\ out'.result \in Results'
    BY <1>1, <1>5, ResultKinds DEF ResultsAgree, Results
  <1>7. ideal' \in Seq(Values) /\ Len(ideal') = 0
    BY <1>1
  <1> QED
    BY <1>1, <1>2, <1>3, <1>4, <1>6, <1>7 DEF LockstepInv

(* A call that throws as the element type does.                            *)
LEMMA ThrowStep ==
  ASSUME LockstepInv, NEW op \in {"push_back", "emplace_back", "pop_front"},
         ElementThrows(op)
  PROVE  LockstepInv'
  <1> DEFINE tears == LeftBehind(op) # buffer_
  <1>1. /\ buffer_' = LeftBehind(op) /\ Tears(tears) /\ ideal' = ideal /\ lag' = lag
        /\ UNCHANGED <<head_, tail_, count_, full_, just_overwrote_,
                       overwrite_position_>>
        /\ out'.result = Window_!Thrown /\ expected' = out'
    BY DEF ElementThrows, Window_!Report
  <1>2. /\ IndexInv /\ ideal \in Seq(Values) /\ Len(ideal) = count_
        /\ torn \in BOOLEAN /\ strayed \in BOOLEAN /\ (torn => strayed)
        /\ ~torn => Contents = ideal
        /\ ~strayed => DisciplineInv
    BY DEF LockstepInv
  <1>3. IndexInv'
    <2>1. buffer_' \in [Slots -> Cells]
      BY <1>1, <1>2, MembersTyped DEF LeftBehind, Cells
    <2>2. RingBufferTypeOK /\ lag \in Slots /\ FullFlagExact /\ TailLag
          /\ OverwriteMark
      BY <1>2 DEF IndexInv
    <2>3. RingBufferTypeOK' /\ lag' \in Slots
      BY <1>1, <2>1, <2>2 DEF RingBufferTypeOK
    <2>4. FullFlagExact' /\ TailLag' /\ OverwriteMark'
      BY <1>1, <2>2 DEF FullFlagExact, TailLag, OverwriteMark, decrement_index,
                        empty
    <2> QED
      BY <2>3, <2>4 DEF IndexInv
  <1>4. /\ torn' \in BOOLEAN /\ strayed' \in BOOLEAN /\ (torn' => strayed')
        /\ ~torn' => ~torn /\ ~tears
        /\ ~strayed' => ~strayed /\ ~tears
    BY <1>1, <1>2 DEF Tears
  <1>5. ASSUME ~tears
        PROVE  Contents' = Contents /\ UNCHANGED <<rbVars, lag>>
    BY <1>1, <1>5, ContentsIsElements, ContentsIsElementsNext DEF rbVars
  <1>6. ResultsAgree' /\ out'.result \in Results'
    BY <1>1, ResultKinds DEF ResultsAgree, Results
  <1> HIDE DEF tears
  <1> QED
    BY <1>1, <1>2, <1>3, <1>4, <1>5, <1>6, DisciplineInvUnchanged DEF LockstepInv

-----------------------------------------------------------------------------
(* Observers.                                                              *)

LEMMA ObserveStep ==
  ASSUME LockstepInv, UNCHANGED <<rbVars, lag, ideal, torn>>,
         strayed' \in BOOLEAN, strayed => strayed',
         out'.result \in Results, ResultsAgree',
         ~strayed' => out' = expected'
  PROVE  LockstepInv'
  <1>1. /\ IndexInv /\ (torn => strayed)
        /\ ~torn => Contents = ideal
        /\ ~strayed => DisciplineInv
        /\ UNCHANGED <<rbVars, lag>>
    BY DEF LockstepInv
  <1>2. IndexInv'
    BY <1>1, IndexInvUnchanged
  <1>3. Contents' = Contents /\ count_' = count_ /\ Results' = Results
    BY ContentsIsElements, ContentsIsElementsNext DEF rbVars, Results
  <1>4. ~strayed => DisciplineInv'
    BY <1>1, <1>2, DisciplineInvUnchanged
  <1> QED
    BY <1>1, <1>2, <1>3, <1>4 DEF LockstepInv

(* Both answers are an element or both are an exception.                   *)
LEMMA ElementAnswer ==
  ASSUME LockstepInv, NEW call, NEW throws \in BOOLEAN, NEW c \in Cells, NEW e,
         Answer(call, IF throws THEN Window_!Thrown ELSE Window_!Element(c)),
         Ideal!Answer(call, IF throws THEN Ideal!Thrown ELSE Ideal!Element(e)),
         UNCHANGED torn, strayed' \in BOOLEAN, strayed => strayed',
         ~strayed' /\ ~throws => c = e
  PROVE  LockstepInv'
  <1> DEFINE mine == IF throws THEN Window_!Thrown ELSE Window_!Element(c)
             other == IF throws THEN Window_!Thrown ELSE Window_!Element(e)
  <1>1. /\ UNCHANGED <<rbVars, lag, ideal>>
        /\ out' = Window_!Report(call, mine)
        /\ expected' = Window_!Report(call, other)
    BY SameResults DEF Answer, Ideal!Answer
  <1>2. mine \in Results
    <2>1. Window_!Element(c) \in Results /\ Window_!Thrown \in Results
      BY DEF Window_!Element, Results
    <2> QED
      BY <2>1
  <1>3. out'.result = mine /\ expected'.result = other
    BY <1>1 DEF Window_!Report
  <1>4. /\ mine = Window_!Thrown <=> throws
        /\ other = Window_!Thrown <=> throws
        /\ other[1] \notin {"number", "flag"}
    BY ResultKinds
  <1>5. ~strayed' => mine = other
    OBVIOUS
  <1> HIDE DEF mine, other
  <1>6. ResultsAgree'
    BY <1>3, <1>4 DEF ResultsAgree
  <1>7. ~strayed' => out' = expected'
    BY <1>1, <1>5
  <1>8. out'.result \in Results
    BY <1>2, <1>3
  <1> QED
    BY <1>1, <1>6, <1>7, <1>8, ObserveStep

(* Both answers are the same.                                              *)
LEMMA EqualAnswer ==
  ASSUME LockstepInv, NEW call, NEW result \in Results,
         Answer(call, result), Ideal!Answer(call, result),
         UNCHANGED <<torn, strayed>>
  PROVE  LockstepInv'
  <1>1. /\ UNCHANGED <<rbVars, lag, ideal>> /\ out' = expected'
        /\ out'.result = result
    BY SameResults DEF Answer, Ideal!Answer, Window_!Report
  <1>2. ResultsAgree'
    BY <1>1 DEF ResultsAgree
  <1>3. strayed' \in BOOLEAN /\ (strayed => strayed') /\ torn' = torn
    BY DEF LockstepInv
  <1>4. out'.result \in Results
    BY <1>1
  <1> QED
    BY <1>1, <1>2, <1>3, <1>4, ObserveStep

LEMMA LookStep ==
  ASSUME LockstepInv, Look
  PROVE  LockstepInv'
  <1>1. /\ IndexInv /\ ideal \in Seq(Values) /\ Len(ideal) = count_
        /\ (torn => strayed)
        /\ (~torn => Contents = ideal)
        /\ UNCHANGED <<torn, strayed>>
        /\ strayed' \in BOOLEAN /\ (strayed => strayed')
        /\ buffer_ \in [Slots -> Cells] /\ head_ \in Slots
        /\ count_ \in 0 .. Capacity /\ full_ \in BOOLEAN
        /\ (full_ <=> count_ = Capacity)
        /\ (empty <=> ideal = <<>>)
    BY MembersTyped, EmptySeq DEF LockstepInv, Look, empty
  <1>2. CASE Front /\ Ideal!Front
    <2>1. front \in Cells
      BY <1>1 DEF front
    <2>2. ASSUME ~strayed', ~empty PROVE front = Head(ideal)
      <3>1. Contents = ideal /\ count_ \in 1 .. Capacity
        BY <1>1, <2>2, CapacityAssumption DEF empty
      <3>2. Head(Elements(buffer_, head_, count_)) = buffer_[head_]
        BY <1>1, <3>1, ElementsTail
      <3> QED
        BY <3>1, <3>2, ContentsIsElements DEF front
    <2>3. /\ Answer(<<"front">>, IF empty THEN Window_!Thrown
                                 ELSE Window_!Element(front))
          /\ Ideal!Answer(<<"front">>, IF empty THEN Ideal!Thrown
                                       ELSE Ideal!Element(Head(ideal)))
      BY <1>1, <1>2 DEF Front, Ideal!Front
    <2>4. empty \in BOOLEAN
      BY DEF empty
    <2> QED
      BY <1>1, <2>1, <2>2, <2>3, <2>4, ElementAnswer
  <1>3. ASSUME NEW i \in 0 .. Capacity, At(i), Ideal!At(i)
        PROVE  LockstepInv'
    <2>1. at(i) = buffer_[SlotOf(head_, i)] /\ at(i) \in Cells
      BY <1>1, SlotOfValue DEF at, slot_at, SlotOf
    <2>2. ASSUME ~strayed', ~(i >= count_) PROVE at(i) = ideal[i + 1]
      <3>1. i + 1 \in 1 .. count_ /\ (i + 1) - 1 = i /\ Contents = ideal
        BY <1>1, <2>2, CapacityAssumption
      <3>2. Contents[i + 1] = buffer_[SlotOf(head_, (i + 1) - 1)]
        BY <1>1, <3>1, ContentsTyped
      <3> QED
        BY <2>1, <3>1, <3>2
    <2>3. /\ Answer(<<"at", i>>, IF i >= count_ THEN Window_!Thrown
                                 ELSE Window_!Element(at(i)))
          /\ Ideal!Answer(<<"at", i>>, IF i >= count_ THEN Ideal!Thrown
                                       ELSE Ideal!Element(ideal[i + 1]))
      BY <1>1, <1>3 DEF At, Ideal!At
    <2>4. (i >= count_) \in BOOLEAN
      OBVIOUS
    <2> QED
      BY <1>1, <2>1, <2>2, <2>3, <2>4, ElementAnswer
  <1>4. CASE Size /\ Ideal!Size
    <2>1. Window_!Number(size) \in Results
      BY <1>1 DEF Window_!Number, Results, size
    <2>2. Answer(<<"size">>, Window_!Number(size))
          /\ Ideal!Answer(<<"size">>, Window_!Number(size))
      BY <1>1, <1>4, SameResults DEF Size, Ideal!Size, size
    <2> QED
      BY <1>1, <2>1, <2>2, EqualAnswer
  <1>5. CASE Available /\ Ideal!Available
    <2>1. available = Capacity - Len(ideal) /\ available \in 0 .. Capacity
      BY <1>1, CapacityAssumption DEF available
    <2>2. Window_!Number(available) \in Results
      BY <2>1 DEF Window_!Number, Results
    <2>3. Answer(<<"available">>, Window_!Number(available))
          /\ Ideal!Answer(<<"available">>, Window_!Number(available))
      BY <1>5, <2>1, SameResults DEF Available, Ideal!Available
    <2> QED
      BY <1>1, <2>2, <2>3, EqualAnswer
  <1>6. CASE Empty /\ Ideal!Empty
    <2>1. empty = (Len(ideal) = 0) /\ empty \in BOOLEAN
      BY <1>1 DEF empty
    <2>2. Window_!Flag(empty) \in Results
      BY <2>1 DEF Window_!Flag, Results
    <2>3. Answer(<<"empty">>, Window_!Flag(empty))
          /\ Ideal!Answer(<<"empty">>, Window_!Flag(empty))
      BY <1>6, <2>1, SameResults DEF Empty, Ideal!Empty
    <2> QED
      BY <1>1, <2>2, <2>3, EqualAnswer
  <1>7. CASE Full /\ Ideal!Full
    <2>1. full_ = (Len(ideal) = Capacity)
      BY <1>1
    <2>2. Window_!Flag(full_) \in Results
      BY <1>1 DEF Window_!Flag, Results
    <2>3. Answer(<<"full">>, Window_!Flag(full_))
          /\ Ideal!Answer(<<"full">>, Window_!Flag(full_))
      BY <1>7, <2>1, SameResults DEF Full, Ideal!Full
    <2> QED
      BY <1>1, <2>2, <2>3, EqualAnswer
  <1> QED
    BY <1>2, <1>3, <1>4, <1>5, <1>6, <1>7 DEF Look

LEMMA LookBackStep ==
  ASSUME LockstepInv, LookBack
  PROVE  LockstepInv'
  <1>1. /\ IndexInv /\ ideal \in Seq(Values) /\ Len(ideal) = count_
        /\ (torn => strayed) /\ strayed \in BOOLEAN
        /\ (~torn => Contents = ideal)
        /\ (~strayed => DisciplineInv)
        /\ torn' = torn /\ strayed' = (strayed \/ ~TailUsable)
        /\ buffer_ \in [Slots -> Cells] /\ count_ \in 0 .. Capacity
        /\ tail_ \in Slots /\ overwrite_position_ \in Slots
        /\ (empty <=> ideal = <<>>)
    BY MembersTyped, EmptySeq
       DEF LockstepInv, LookBack, empty, IndexInv, RingBufferTypeOK
  <1>2. strayed' \in BOOLEAN /\ (strayed => strayed')
        /\ (~strayed' => ~strayed /\ TailUsable)
    BY <1>1
  <1>3. back \in Cells
    <2>1. decrement_index(tail_) \in Slots
      BY <1>1, CapacityAssumption DEF decrement_index, Slots
    <2> QED
      BY <1>1, <2>1 DEF back, back_slot
  <1>4. ASSUME ~strayed', ~empty PROVE back = ideal[Len(ideal)]
    <2>1. DisciplineInv /\ TailUsable /\ Contents = ideal /\ count_ \in 1 .. count_
      BY <1>1, <1>2, <1>4 DEF empty
    <2>2. back = buffer_[SlotOf(head_, count_ - 1)]
      BY <1>4, <2>1, BackSlotNewest DEF back
    <2>3. Contents[count_] = buffer_[SlotOf(head_, count_ - 1)]
      BY <1>1, <2>1, ContentsTyped
    <2> QED
      BY <1>1, <2>1, <2>2, <2>3
  <1>5. /\ Answer(<<"back">>, IF empty THEN Window_!Thrown ELSE Window_!Element(back))
        /\ Ideal!Answer(<<"back">>, IF empty THEN Ideal!Thrown
                                    ELSE Ideal!Element(ideal[Len(ideal)]))
    BY <1>1 DEF LookBack, Back, Ideal!Back
  <1>6. empty \in BOOLEAN
    BY DEF empty
  <1> QED
    BY <1>1, <1>2, <1>3, <1>4, <1>5, <1>6, ElementAnswer

-----------------------------------------------------------------------------
LEMMA LockstepInvUnchanged ==
  ASSUME LockstepInv, UNCHANGED allVars
  PROVE  LockstepInv'
  <1>1. /\ UNCHANGED <<rbVars, lag, ideal, torn, strayed, out, expected>>
    BY DEF allVars, vars, rbVars
  <1>2. /\ Results' = Results /\ (ResultsAgree <=> ResultsAgree')
    BY <1>1 DEF Results, ResultsAgree
  <1> QED
    BY <1>1, <1>2, ObserveStep DEF LockstepInv

(* Every call on both buffers preserves the invariant.                     *)
LEMMA LockstepInvStep == LockstepInv /\ [LockstepNext]_allVars => LockstepInv'
  <1> SUFFICES ASSUME LockstepInv, [LockstepNext]_allVars PROVE LockstepInv'
    OBVIOUS
  <1>1. CASE Modify
    BY <1>1, PushStep, EmplaceOwnStep, PopLockstep, ResetLockstep, ThrowStep
       DEF Modify
  <1> QED
    BY <1>1, LookStep, LookBackStep, LockstepInvUnchanged DEF LockstepNext

(* In every state of every client, exceptions of the element type          *)
(* included, the invariant holds.                                          *)
THEOREM LockstepInvariant == LockstepSpec => []LockstepInv
  BY LockstepInvInit, LockstepInvStep, PTL DEF LockstepSpec

(* The members and results stay within their types, the flags and indices  *)
(* agree, for every client and capacity, even if elements throw.           *)
THEOREM LockstepTypeOK == LockstepSpec => []TypeOK
  <1>1. LockstepInv => TypeOK
    BY DEF LockstepInv, IndexInv, TypeOK
  <1> QED
    BY <1>1, LockstepInvariant, PTL

(* full_ is set exactly when count_ has reached the capacity, tail_ trails *)
(* by exactly the overwrites, the overwrite mark is never stale: none of   *)
(* it is disturbed by an exception.                                        *)
THEOREM LockstepIndices ==
  LockstepSpec => [](FullFlagExact /\ TailLag /\ OverwriteMark)
  <1>1. LockstepInv => FullFlagExact /\ TailLag /\ OverwriteMark
    BY DEF LockstepInv, IndexInv
  <1> QED
    BY <1>1, LockstepInvariant, PTL

(* Every client sees the right number of elements and throws exactly when  *)
(* the ideal sequence does.                                                *)
THEOREM LockstepSizesAgree == LockstepSpec => []SizesAgree
  <1>1. LockstepInv => SizesAgree
    BY SameResults DEF LockstepInv, ResultsAgree, SizesAgree
  <1> QED
    BY <1>1, LockstepInvariant, PTL

(* The elements are those of the ideal sequence until a push, or an        *)
(* exception of T in one, tears them.                                      *)
THEOREM LockstepIntact == LockstepSpec => []IntactUntilTorn
  <1>1. LockstepInv => IntactUntilTorn
    BY DEF LockstepInv, IntactUntilTorn
  <1> QED
    BY <1>1, LockstepInvariant, PTL

(* All results are right and no element leaks or dies twice, until the     *)
(* client strays.                                                          *)
THEOREM LockstepRight == LockstepSpec => []RightUntilStrayed
  <1>1. LockstepInv => RightUntilStrayed
    BY DEF LockstepInv, RightUntilStrayed, DisciplineInv
  <1> QED
    BY <1>1, LockstepInvariant, PTL

-----------------------------------------------------------------------------
(* Handles.                                                                *)

(* Taking and using a handle is a stuttering step of the buffer.           *)
LEMMA HandleStepIsLockstep ==
  [HandleNext]_handleVars => [LockstepNext]_allVars
  BY DEF HandleNext, ModifyUnder, LookAround, Refer, Begin, Visit, End,
         LockstepNext, handleVars

(* A client that holds references and iterators is one of those for which  *)
(* everything is proved about the buffer.                                  *)
THEOREM HandlesAreLockstep == HandleSpec => LockstepSpec
  <1>1. HandleInit => LockstepInit
    BY DEF HandleInit
  <1> QED
    BY <1>1, HandleStepIsLockstep, PTL DEF HandleSpec, LockstepSpec

(* The invariant of the two buffers, with handles around.                  *)
THEOREM HandlesLockstepInv == HandleSpec => []LockstepInv
  BY HandlesAreLockstep, LockstepInvariant, PTL

(* What the run any_client checks of the buffer itself holds for every     *)
(* capacity: types, sizes, elements, and results.                          *)
THEOREM HandlesTypeOK == HandleSpec => []TypeOK
  BY HandlesAreLockstep, LockstepTypeOK, PTL

(* full_ is set exactly when count_ has reached the capacity.              *)
THEOREM HandlesFullFlagExact == HandleSpec => []FullFlagExact
  BY HandlesAreLockstep, LockstepIndices, PTL

(* tail_ trails the end of the elements by exactly the overwrites.         *)
THEOREM HandlesTailLag == HandleSpec => []TailLag
  BY HandlesAreLockstep, LockstepIndices, PTL

(* The overwrite mark that back() trusts is never stale.                   *)
THEOREM HandlesOverwriteMark == HandleSpec => []OverwriteMark
  BY HandlesAreLockstep, LockstepIndices, PTL

(* Every client sees the right number of elements, exceptions included.    *)
THEOREM HandlesSizesAgree == HandleSpec => []SizesAgree
  BY HandlesAreLockstep, LockstepSizesAgree, PTL

(* The elements are the ideal sequence's until a push, or an exception of  *)
(* T in one, tears them.                                                   *)
THEOREM HandlesIntact == HandleSpec => []IntactUntilTorn
  BY HandlesAreLockstep, LockstepIntact, PTL

(* All results are right until the client strays.                          *)
THEOREM HandlesRight == HandleSpec => []RightUntilStrayed
  BY HandlesAreLockstep, LockstepRight, PTL

-----------------------------------------------------------------------------
(* How far a modification moves the elements.                              *)

(* The next slot's elements are the elements from the next index on.       *)
LEMMA SlotOfNext ==
  ASSUME NEW h \in Slots, NEW k \in 0 .. Capacity - 1
  PROVE  SlotOf((h + 1) % Capacity, k) = SlotOf(h, k + 1)
  <1>1. k \in 0 .. Capacity /\ h + k + 1 = h + (k + 1)
    BY CapacityAssumption DEF Slots
  <1>2. (((h + 1) % Capacity) + k) % Capacity = (h + k + 1) % Capacity
    BY <1>1, StepInSum
  <1> QED
    BY <1>1, <1>2 DEF SlotOf

(* What one modification removes, where it moves head_, and how many       *)
(* elements it leaves.  Unless the buffer is emptied, the elements that    *)
(* stay keep their slots.                                                  *)
Shifted ==
  /\ Removed \in 0 .. count_
  /\ count_' \in Nat /\ count_' >= count_ - Removed
  /\ Removed # count_ => Removed \in {0, 1} /\ head_' = SlotOf(head_, Removed)

(* Unless there were none, the elements are still there.                   *)
PrefixKept ==
  Removed = 0 /\ count_ > 0 /\ ~torn' =>
    ~torn /\ \A i \in 1 .. count_ : Contents'[i] = Contents[i]

LEMMA InsertShifts ==
  ASSUME LockstepInv, NEW v \in Cells, push_back(v) \/ emplace_back(v),
         NEW tears \in BOOLEAN, Tears(tears), ~tears => TailUsable, IndexInv',
         out'.call[1] \in {"push_back", "emplace_back"},
         out'.result = Window_!Void
  PROVE  Shifted /\ PrefixKept
  <1>1. /\ IndexInv /\ head_ \in Slots /\ count_ \in Nat /\ full_ \in BOOLEAN
        /\ count_ \in 0 .. Capacity /\ (full_ <=> count_ = Capacity)
        /\ torn \in BOOLEAN
    BY MembersTyped DEF LockstepInv
  <1>2. Removed = IF full_ THEN 1 ELSE 0
    BY ResultKinds DEF Removed
  <1>3. CASE full_
    <2>1. head_' = (head_ + 1) % Capacity /\ count_' = count_ /\ Removed = 1
      BY <1>2, <1>3, InsertEffect, <1>1 DEF overwrite_advance_head
    <2> QED
      BY <1>1, <1>3, <2>1, CapacityAssumption DEF Shifted, PrefixKept, SlotOf
  <1>4. CASE ~full_
    <2>1. head_' = head_ /\ count_' = count_ + 1 /\ Removed = 0
      BY <1>1, <1>2, <1>4, InsertEffect DEF increment_tail
    <2>2. SlotOf(head_, 0) = head_
      <3>1. 0 \in 0 .. Capacity
        BY CapacityAssumption
      <3>2. SlotOf(head_, 0) = IF head_ + 0 < Capacity THEN head_ + 0
                               ELSE head_ + 0 - Capacity
        BY <1>1, <3>1, SlotOfValue
      <3> QED
        BY <1>1, <3>2, CapacityAssumption DEF Slots
    <2>3. Shifted
      BY <1>1, <2>1, <2>2 DEF Shifted
    <2>4. ASSUME ~torn'
          PROVE  ~torn /\ \A i \in 1 .. count_ : Contents'[i] = Contents[i]
      <3>1. ~torn /\ TailUsable
        BY <1>1, <2>4 DEF Tears
      <3>2. Window_!Enqueue(v) /\ Contents \in Seq(Cells) /\ Len(Contents) = count_
        BY <1>1, <3>1, EnqueueStep, ContentsTyped
      <3>3. Contents' = Append(Contents, v)
        BY <1>1, <1>4, <3>2 DEF Window_!Enqueue
      <3> QED
        BY <3>1, <3>2, <3>3, AppendProperties
    <2> QED
      BY <2>3, <2>4 DEF PrefixKept
  <1> QED
    BY <1>3, <1>4

LEMMA ModifyShifts ==
  ASSUME LockstepInv, LockstepInv', Modify
  PROVE  Shifted /\ PrefixKept
  <1>1. /\ IndexInv /\ IndexInv' /\ head_ \in Slots /\ count_ \in Nat
        /\ full_ \in BOOLEAN
        /\ count_ \in 0 .. Capacity /\ (full_ <=> count_ = Capacity)
        /\ torn \in BOOLEAN
        /\ (empty <=> count_ = 0)
    BY MembersTyped DEF LockstepInv, empty
  <1>2. SlotOf(head_, 0) = head_
    <2>1. 0 \in 0 .. Capacity
      BY CapacityAssumption
    <2>2. SlotOf(head_, 0) = IF head_ + 0 < Capacity THEN head_ + 0
                             ELSE head_ + 0 - Capacity
      BY <1>1, <2>1, SlotOfValue
    <2> QED
      BY <1>1, <2>2, CapacityAssumption DEF Slots
  <1>3. ASSUME out'.result = Window_!Thrown, UNCHANGED <<head_, count_>>
        PROVE  Shifted /\ Removed = 0
    <2>1. Removed = 0
      BY <1>3 DEF Removed
    <2> QED
      BY <1>1, <1>2, <1>3, <2>1 DEF Shifted
  <1>4. ASSUME NEW v \in Values, Push(v)
        PROVE  Shifted /\ PrefixKept
    <2> DEFINE tears == ~TailUsable
    <2>1. v \in Cells /\ tears \in BOOLEAN /\ (~tears => TailUsable)
      BY DEF Cells
    <2>2. PICK name \in {"push_back", "emplace_back"} :
            out' = Window_!Report(<<name, v>>, Window_!Void)
      BY <1>4 DEF Push, PushBack, EmplaceBack
    <2>3. out'.result = Window_!Void /\ out'.call[1] \in {"push_back", "emplace_back"}
      BY <2>2 DEF Window_!Report
    <2>4. (push_back(v) \/ emplace_back(v)) /\ Tears(tears)
      BY <1>4 DEF Push, PushBack, EmplaceBack
    <2> HIDE DEF tears
    <2> QED
      BY <1>1, <2>1, <2>3, <2>4, InsertShifts
  <1>5. ASSUME NEW i \in 0 .. Capacity - 1, EmplaceOwn(i)
        PROVE  Shifted /\ PrefixKept
    <2> DEFINE tears == ~TailUsable \/ Emplaced(i) = Raw
    <2>1. slot_at(i) \in Slots
      BY <1>1, CapacityAssumption DEF slot_at, Slots
    <2>2. Emplaced(i) \in Cells
      BY <1>1, <2>1, MembersTyped DEF Emplaced, Cells, at
    <2>3. /\ emplace_back(Emplaced(i)) /\ Tears(tears)
          /\ out' = Window_!Report(<<"emplace_back", Emplaced(i)>>, Window_!Void)
      BY <1>5 DEF EmplaceOwn, EmplaceBack
    <2>4. out'.result = Window_!Void /\ out'.call[1] \in {"push_back", "emplace_back"}
      BY <2>3 DEF Window_!Report
    <2>5. tears \in BOOLEAN /\ (~tears => TailUsable)
      OBVIOUS
    <2> HIDE DEF tears
    <2> QED
      BY <1>1, <2>2, <2>3, <2>4, <2>5, InsertShifts
  <1>6. CASE Pop
    <2>1. CASE empty
      <3>1. /\ out'.result = Window_!Thrown
            /\ UNCHANGED <<head_, count_>> /\ count_ = 0
        BY <1>1, <1>6, <2>1 DEF Pop, PopFront, pop_front, rbVars, Window_!Report
      <3> QED
        BY <1>3, <3>1 DEF PrefixKept
    <2>2. CASE ~empty
      <3>1. /\ pop_front
            /\ out' = Window_!Report(<<"pop_front">>, Window_!Element(front))
        BY <1>6, <2>2 DEF Pop, PopFront
      <3>2. /\ out'.result # Window_!Thrown /\ out'.call = <<"pop_front">>
            /\ out'.call # <<"clear">>
        BY <3>1, ResultKinds DEF Window_!Report
      <3>3. Removed = 1
        BY <3>2 DEF Removed
      <3>4. count_' = count_ - 1 /\ head_' = SlotOf(head_, 1) /\ count_ > 0
        BY <1>1, <2>2, <3>1 DEF pop_front, increment_head, SlotOf
      <3> QED
        BY <1>1, <3>3, <3>4 DEF Shifted, PrefixKept
    <2> QED
      BY <2>1, <2>2
  <1>7. CASE Reset
    <2>1. out' = Window_!Report(<<"clear">>, Window_!Void) /\ count_' = 0
      BY <1>7 DEF Reset, Clear, clear
    <2>2. out'.result # Window_!Thrown /\ out'.call = <<"clear">>
      BY <2>1, ResultKinds DEF Window_!Report
    <2>3. Removed = count_
      BY <2>2 DEF Removed
    <2> QED
      BY <1>1, <2>1, <2>3 DEF Shifted, PrefixKept
  <1>8. ASSUME NEW op \in {"push_back", "emplace_back", "pop_front"}, ElementThrows(op)
        PROVE  Shifted /\ PrefixKept
    <2>1. /\ out'.result = Window_!Thrown /\ UNCHANGED <<head_, count_>>
          /\ buffer_' = LeftBehind(op)
          /\ Tears(LeftBehind(op) # buffer_)
      BY <1>8 DEF ElementThrows, Window_!Report
    <2>2. ~torn' => ~torn /\ buffer_' = buffer_
      BY <1>1, <2>1 DEF Tears
    <2>3. ~torn' => ~torn /\ Contents' = Contents
      BY <2>1, <2>2, ContentsIsElements, ContentsIsElementsNext
    <2> QED
      BY <1>3, <2>1, <2>3 DEF PrefixKept
  <1> QED
    BY <1>4, <1>5, <1>6, <1>7, <1>8 DEF Modify

-----------------------------------------------------------------------------
(* References.                                                             *)

(* A reference that is held refers to the slot of an element.              *)
RefInv ==
  /\ ref \in [slot : Nat, nth : Nat]
  /\ \/ ref = Gone
     \/ ref.nth \in 1 .. count_ /\ ref.slot = SlotOf(head_, ref.nth - 1)

LEMMA RefInvStep ==
  LockstepInv /\ LockstepInv' /\ RefInv /\ [HandleNext]_handleVars => RefInv'
  <1> SUFFICES ASSUME LockstepInv, LockstepInv', RefInv, [HandleNext]_handleVars
               PROVE  RefInv'
    OBVIOUS
  <1>1. /\ head_ \in Slots /\ count_ \in Nat /\ count_ \in 0 .. Capacity
        /\ Gone \in [slot : Nat, nth : Nat] /\ Gone.nth = 0
    BY MembersTyped DEF LockstepInv, Gone
  <1>2. CASE ModifyUnder
    <2>1. Shifted
      BY <1>2, ModifyShifts DEF ModifyUnder
    <2>2. CASE ref.nth > Removed
      <3> DEFINE n == ref.nth
                 r == Removed
      <3>1. /\ n \in 1 .. count_ /\ ref.slot = SlotOf(head_, n - 1)
            /\ ref' = [ref EXCEPT !.nth = n - r]
        BY <1>1, <1>2, <2>1, <2>2 DEF RefInv, ModifyUnder, Shifted
      <3>2. r \in {0, 1} /\ head_' = SlotOf(head_, r) /\ count_' >= count_ - r
            /\ count_' \in Nat /\ n > r
        BY <1>1, <2>1, <2>2, <3>1 DEF Shifted
      <3>3. ref'.slot = ref.slot /\ ref'.nth = n - r
        BY <3>1 DEF RefInv
      <3> HIDE DEF n, r
      <3>4. n - r \in Nat /\ n - r \in 1 .. count_'
        BY <1>1, <3>1, <3>2
      <3>5. ref' \in [slot : Nat, nth : Nat]
        BY <3>1, <3>4 DEF RefInv
      <3>6. SlotOf(head_', (n - r) - 1) = SlotOf(head_, n - 1)
        <4>1. CASE r = 0
          <5>1. SlotOf(head_, 0) = head_
            <6>1. 0 \in 0 .. Capacity
              BY CapacityAssumption
            <6>2. SlotOf(head_, 0) = IF head_ + 0 < Capacity THEN head_ + 0
                                     ELSE head_ + 0 - Capacity
              BY <1>1, <6>1, SlotOfValue
            <6> QED
              BY <1>1, <6>2, CapacityAssumption DEF Slots
          <5>2. n - r = n
            BY <3>1, <4>1
          <5> QED
            BY <3>2, <4>1, <5>1, <5>2
        <4>2. CASE r = 1
          <5>1. n - 2 \in 0 .. Capacity - 1 /\ (n - 2) + 1 = n - 1 /\ (n - r) - 1 = n - 2
            BY <1>1, <3>1, <3>2, <4>2, CapacityAssumption
          <5>2. SlotOf((head_ + 1) % Capacity, n - 2) = SlotOf(head_, (n - 2) + 1)
            BY <1>1, <5>1, SlotOfNext
          <5>3. head_' = (head_ + 1) % Capacity
            BY <3>2, <4>2 DEF SlotOf
          <5> QED
            BY <5>1, <5>2, <5>3
        <4> QED
          BY <3>2, <4>1, <4>2
      <3> QED
        BY <3>1, <3>3, <3>4, <3>5, <3>6 DEF RefInv
    <2>3. CASE ~(ref.nth > Removed)
      <3>1. ref' = Gone
        BY <1>2, <2>3 DEF ModifyUnder
      <3> QED
        BY <1>1, <3>1 DEF RefInv, Gone
    <2> QED
      BY <2>2, <2>3
  <1>3. ASSUME NEW i \in 0 .. Capacity - 1, Refer(i)
        PROVE  RefInv'
    <2>1. /\ ref' = [slot |-> slot_at(i), nth |-> i + 1] /\ i < count_
          /\ UNCHANGED <<head_, count_>>
      BY <1>3 DEF Refer, allVars, vars
    <2>2. slot_at(i) = SlotOf(head_, (i + 1) - 1) /\ slot_at(i) \in Nat
      <3>1. (i + 1) - 1 = i /\ slot_at(i) \in Slots
        BY <1>1, CapacityAssumption DEF slot_at, Slots
      <3> QED
        BY <3>1 DEF slot_at, SlotOf, Slots
    <2>3. ref'.nth \in 1 .. count_' /\ ref'.slot = SlotOf(head_', ref'.nth - 1)
      BY <1>1, <2>1, <2>2
    <2> QED
      BY <2>1, <2>2, <2>3 DEF RefInv
  <1>4. CASE UNCHANGED <<head_, count_, ref>>
    BY <1>4 DEF RefInv, Gone
  <1>5. CASE LookAround
    <2>1. UNCHANGED <<rbVars, ref>>
      BY <1>5 DEF LookAround, Look, LookBack, Front, Back, At, Size, Available,
                  Empty, Full, Answer
    <2> QED
      BY <1>4, <2>1 DEF rbVars
  <1>6. CASE Begin \/ Visit \/ End
    BY <1>4, <1>6 DEF Begin, Visit, End, allVars, vars
  <1>7. CASE UNCHANGED handleVars
    BY <1>4, <1>7 DEF handleVars, allVars, vars
  <1> QED
    BY <1>2, <1>3, <1>5, <1>6, <1>7 DEF HandleNext

(* For every capacity and every client a reference stays good until its    *)
(* own element is removed, unless the elements were torn.                  *)
THEOREM HandlesReferencesHold == HandleSpec => []ReferencesHold
  <1>1. HandleInit => RefInv
    BY DEF HandleInit, RefInv, Gone
  <1>2. LockstepInv /\ RefInv => ReferencesHold
    <2> SUFFICES ASSUME LockstepInv, RefInv, ref.nth > 0, ~torn
                 PROVE  buffer_[ref.slot] = ideal[ref.nth]
      BY DEF ReferencesHold
    <2>1. ref.nth \in 1 .. count_ /\ ref.slot = SlotOf(head_, ref.nth - 1)
      BY DEF RefInv, Gone
    <2>2. IndexInv /\ Contents = ideal
      BY DEF LockstepInv
    <2> QED
      BY <2>1, <2>2, ContentsTyped
  <1> QED
    BY <1>1, <1>2, RefInvStep, HandlesLockstepInv, PTL DEF HandleSpec

-----------------------------------------------------------------------------
(* Loops.                                                                  *)

LEMMA PrefixAppend ==
  ASSUME NEW S, NEW s \in Seq(S), NEW k \in 0 .. Len(s) - 1
  PROVE  SubSeq(s, 1, k + 1) = Append(SubSeq(s, 1, k), s[k + 1])
  <1>1. Len(s) \in Nat /\ k + 1 \in 1 .. Len(s) /\ (k + 1) - 1 = k /\ 1 \in 1 .. Len(s)
    BY LenProperties
  <1>2. SubSeq(s, 1, k + 1) = SubSeq(s, 1, k) \o <<s[k + 1]>>
    <2>1. k + 1 \in 1 .. Len(s)
      BY <1>1
    <2>2. SubSeq(s, 1, k + 1) = SubSeq(s, 1, (k + 1) - 1) \o <<s[k + 1]>>
      BY <1>1, <2>1, SubSeqRecursiveSecond
    <2> QED
      BY <1>1, <2>2
  <1>3. s[k + 1] \in S /\ SubSeq(s, 1, k) \in Seq(S)
    <2>1. \A i \in 1 .. k : s[i] \in S
      BY <1>1
    <2>2. SubSeq(s, 1, k) \in Seq(S)
      BY <2>1, <1>1, SubSeqProperties
    <2> QED
      BY <1>1, <2>2
  <1> QED
    BY <1>2, <1>3, AppendIsConcat

Loops == [index : Nat, end : Nat, due : Seq(Cells), seen : Seq(Cells),
          removed : BOOLEAN]

LEMMA LoopFields ==
  ASSUME NEW l \in Loops
  PROVE  /\ l.index \in Nat /\ l.end \in Nat /\ l.due \in Seq(Cells)
         /\ l.seen \in Seq(Cells) /\ l.removed \in BOOLEAN
  BY DEF Loops

LEMMA LoopMade ==
  ASSUME NEW i \in Nat, NEW e \in Nat, NEW d \in Seq(Cells), NEW s \in Seq(Cells),
         NEW r \in BOOLEAN
  PROVE  /\ Loop(i, e, d, s, r) \in Loops
         /\ Loop(i, e, d, s, r).index = i /\ Loop(i, e, d, s, r).end = e
         /\ Loop(i, e, d, s, r).due = d /\ Loop(i, e, d, s, r).seen = s
         /\ Loop(i, e, d, s, r).removed = r
  BY DEF Loops, Loop

(* A loop during which nothing was removed is at one of the elements the   *)
(* buffer had at begin(), which are there and in place.                    *)
LoopInv ==
  /\ loop \in Loops
  /\ ~loop.removed => loop.index <= loop.end /\ loop.end <= count_
  /\ ~loop.removed /\ ~torn =>
       /\ Len(loop.due) = loop.end
       /\ loop.seen = SubSeq(loop.due, 1, loop.index)
       /\ \A i \in 1 .. loop.end : loop.due[i] = Contents[i]

LEMMA NoLoopInv ==
  ASSUME LockstepInv, loop = NoLoop
  PROVE  LoopInv
  <1>1. 0 \in Nat /\ <<>> \in Seq(Cells) /\ FALSE \in BOOLEAN
    OBVIOUS
  <1>2. /\ NoLoop \in Loops
        /\ NoLoop.index = 0 /\ NoLoop.end = 0 /\ NoLoop.due = <<>>
        /\ NoLoop.seen = <<>> /\ NoLoop.removed = FALSE
    BY <1>1 DEF NoLoop, Loop, Loops
  <1>3. SubSeq(<<>>, 1, 0) = <<>>
    BY SubSeqEmpty
  <1>4. count_ \in Nat
    BY MembersTyped DEF LockstepInv
  <1> QED
    BY <1>2, <1>3, <1>4 DEF LoopInv

LEMMA NoLoopNext ==
  ASSUME LockstepInv', (loop = NoLoop)'
  PROVE  LoopInv'
  BY NoLoopInv, PTL

LEMMA LoopInvModify ==
  ASSUME LockstepInv, LockstepInv', LoopInv, ModifyUnder
  PROVE  LoopInv'
  <1>1. /\ Shifted /\ PrefixKept /\ Removed \in Nat
        /\ count_ \in Nat /\ count_' \in Nat /\ torn \in BOOLEAN /\ torn' \in BOOLEAN
    <2>1. Shifted /\ PrefixKept
      BY ModifyShifts DEF ModifyUnder
    <2> QED
      BY <2>1, MembersTyped DEF LockstepInv, Shifted
  <1>2. CASE loop = NoLoop
    <2>1. InLoop = FALSE
      BY <1>2 DEF InLoop, NoLoop, Loop
    <2>2. loop' = NoLoop
      <3>1. NoLoop.index = 0 /\ NoLoop.end = 0
        BY DEF NoLoop, Loop
      <3>2. loop' = loop \/ loop' = Loop(loop.index, loop.end, <<>>, <<>>, FALSE)
        BY <2>1 DEF ModifyUnder
      <3> QED
        BY <1>2, <3>1, <3>2 DEF NoLoop
    <2>3. (loop = NoLoop)'
      BY <2>2 DEF NoLoop
    <2> QED
      BY <2>3, NoLoopNext
  <1>3. CASE InLoop
    <2>1. CASE Removed = 0
      <3>1. loop' = loop
        BY <2>1 DEF ModifyUnder
      <3>2. ASSUME ~loop.removed
            PROVE  /\ count_ > 0 /\ loop.end <= count_'
                   /\ loop.end \in Nat /\ loop.end <= count_
        BY <1>1, <1>3, <2>1, <3>2, LoopFields DEF LoopInv, InLoop, Shifted
      <3>3. ASSUME ~loop.removed, ~torn'
            PROVE  ~torn /\ \A i \in 1 .. loop.end : Contents'[i] = Contents[i]
        BY <1>1, <2>1, <3>2, <3>3 DEF PrefixKept
      <3>4. loop' \in Loops' /\ loop.removed \in BOOLEAN
        BY <3>1, LoopFields DEF LoopInv, Loops, Cells
      <3> QED
        BY <3>1, <3>2, <3>3, <3>4 DEF LoopInv
    <2>2. CASE Removed # 0
      <3>1. /\ loop' = Loop(loop.index, loop.end, <<>>, <<>>, InLoop)
            /\ InLoop = TRUE
        BY <1>3, <2>2 DEF ModifyUnder
      <3>2. loop.index \in Nat /\ loop.end \in Nat /\ <<>> \in Seq(Cells)
        BY LoopFields DEF LoopInv
      <3>3. loop'.removed = TRUE /\ loop' \in Loops
        BY <3>1, <3>2, LoopMade
      <3> QED
        BY <3>3 DEF LoopInv, Loops, Cells
    <2> QED
      BY <2>1, <2>2
  <1> QED
    BY <1>2, <1>3 DEF ModifyUnder

LEMMA LoopInvVisit ==
  ASSUME LockstepInv, LockstepInv', LoopInv, Visit
  PROVE  LoopInv'
  <1>1. /\ IndexInv /\ count_ \in Nat /\ count_ \in 0 .. Capacity
        /\ head_ \in Slots /\ buffer_ \in [Slots -> Cells]
        /\ UNCHANGED <<buffer_, head_, count_, torn>>
        /\ Contents' = Contents
    <2>1. UNCHANGED <<buffer_, head_, count_, torn>>
      BY DEF Visit, allVars, vars
    <2> QED
      BY <2>1, MembersTyped, ContentsIsElements, ContentsIsElementsNext
         DEF LockstepInv
  <1>2. CASE loop.index >= count_
    <2>1. (loop = NoLoop)'
      BY <1>2 DEF Visit, NoLoop
    <2> QED
      BY <2>1, NoLoopNext
  <1>3. CASE ~(loop.index >= count_)
    <2> DEFINE k == loop.index
               next == IF loop.removed THEN <<>> ELSE Append(loop.seen, at(k))
    <2>1. /\ loop' = Loop(k + 1, loop.end, loop.due, next, loop.removed)
          /\ k # loop.end
      BY <1>3 DEF Visit, InLoop, Dereferenced
    <2>2. /\ k \in Nat /\ loop.end \in Nat /\ k < count_ /\ loop.seen \in Seq(Cells)
          /\ loop.due \in Seq(Cells) /\ loop.removed \in BOOLEAN /\ k + 1 \in Nat
      BY <1>1, <1>3, LoopFields DEF LoopInv
    <2>3. at(k) \in Cells /\ at(k) = Contents[k + 1]
      <3>1. k \in 0 .. Capacity /\ k + 1 \in 1 .. count_ /\ (k + 1) - 1 = k
        BY <1>1, <2>2, CapacityAssumption
      <3>2. slot_at(k) = SlotOf(head_, k) /\ SlotOf(head_, k) \in Slots
        BY <1>1, <3>1, SlotOfValue DEF slot_at, SlotOf
      <3>3. Contents[k + 1] = buffer_[SlotOf(head_, (k + 1) - 1)]
        BY <1>1, <3>1, ContentsTyped
      <3> QED
        BY <1>1, <3>1, <3>2, <3>3 DEF at
    <2>4. next \in Seq(Cells)
      BY <2>2, <2>3, AppendProperties
    <2> HIDE DEF next, k
    <2>5. /\ loop' \in Loops
          /\ loop'.index = k + 1 /\ loop'.seen = next
          /\ loop'.end = loop.end /\ loop'.due = loop.due
          /\ loop'.removed = loop.removed
      BY <2>1, <2>2, <2>4 DEF Loop, Loops
    <2> USE DEF next, k
    <2>6. ASSUME ~loop.removed
          PROVE  k + 1 <= loop.end /\ loop.end <= count_
      BY <1>1, <2>1, <2>2, <2>6 DEF LoopInv
    <2>7. ASSUME ~loop.removed, ~torn
          PROVE  next = SubSeq(loop.due, 1, k + 1)
      <3>1. /\ Len(loop.due) = loop.end
            /\ loop.seen = SubSeq(loop.due, 1, k)
            /\ \A i \in 1 .. loop.end : loop.due[i] = Contents[i]
        BY <2>7 DEF LoopInv
      <3>2. k \in 0 .. Len(loop.due) - 1 /\ k + 1 \in 1 .. loop.end
        BY <2>2, <2>6, <2>7, <3>1
      <3>3. SubSeq(loop.due, 1, k + 1)
              = Append(SubSeq(loop.due, 1, k), loop.due[k + 1])
        BY <2>2, <3>2, PrefixAppend
      <3> QED
        BY <2>3, <2>7, <3>1, <3>2, <3>3
    <2>8. Loops' = Loops
      BY DEF Loops, Cells
    <2> HIDE DEF next, k
    <2> QED
      BY <1>1, <2>5, <2>6, <2>7, <2>8 DEF LoopInv
  <1> QED
    BY <1>2, <1>3

LEMMA LoopInvBegin ==
  ASSUME LockstepInv, LockstepInv', Begin
  PROVE  LoopInv'
  <1>1. /\ loop' = Loop(0, count_, Contents, <<>>, FALSE)
        /\ UNCHANGED <<buffer_, head_, count_, torn>>
    BY DEF Begin, allVars, vars
  <1>2. Contents' = Contents /\ Loops' = Loops
    BY <1>1, ContentsIsElements, ContentsIsElementsNext DEF Loops, Cells
  <1>3. Contents \in Seq(Cells) /\ Len(Contents) = count_ /\ count_ \in Nat
    BY MembersTyped, ContentsTyped DEF LockstepInv
  <1>4. /\ loop' \in Loops /\ loop'.index = 0 /\ loop'.end = count_
        /\ loop'.due = Contents /\ loop'.seen = <<>> /\ loop'.removed = FALSE
    <2>1. 0 \in Nat /\ <<>> \in Seq(Cells) /\ FALSE \in BOOLEAN
      OBVIOUS
    <2> QED
      BY <1>1, <1>3, <2>1 DEF Loop, Loops
  <1>5. SubSeq(Contents, 1, 0) = <<>>
    BY SubSeqEmpty
  <1>6. loop'.index <= loop'.end /\ loop'.end <= count_'
    <2>1. 0 <= count_ /\ count_ <= count_ /\ count_' = count_
      BY <1>1, <1>3
    <2>2. loop'.index = 0 /\ loop'.end = count_
      BY <1>4
    <2> QED
      BY <2>1, <2>2
  <1>7. /\ Len(loop'.due) = loop'.end
        /\ loop'.seen = SubSeq(loop'.due, 1, loop'.index)
    BY <1>3, <1>4, <1>5
  <1>8. \A i \in 1 .. loop'.end : loop'.due[i] = Contents'[i]
    BY <1>2, <1>4
  <1> QED
    BY <1>2, <1>4, <1>6, <1>7, <1>8 DEF LoopInv

LEMMA LoopInvStep ==
  LockstepInv /\ LockstepInv' /\ LoopInv /\ [HandleNext]_handleVars => LoopInv'
  <1> SUFFICES ASSUME LockstepInv, LockstepInv', LoopInv, [HandleNext]_handleVars
               PROVE  LoopInv'
    OBVIOUS
  <1>1. CASE UNCHANGED <<buffer_, head_, count_, torn, loop>>
    <2>1. Contents' = Contents
      BY <1>1, ContentsIsElements, ContentsIsElementsNext
    <2>2. Loops' = Loops
      BY DEF Loops, Cells
    <2> QED
      BY <1>1, <2>1, <2>2 DEF LoopInv
  <1>2. CASE LookAround
    <2>1. UNCHANGED <<rbVars, torn, loop>>
      BY <1>2 DEF LookAround, Look, LookBack, Front, Back, At, Size, Available,
                  Empty, Full, Answer
    <2> QED
      BY <1>1, <2>1 DEF rbVars
  <1>3. ASSUME NEW i \in 0 .. Capacity - 1, Refer(i)
        PROVE  LoopInv'
    BY <1>1, <1>3 DEF Refer, allVars, vars
  <1>4. CASE End
    <2>1. (loop = NoLoop)'
      BY <1>4 DEF End, NoLoop
    <2> QED
      BY <2>1, NoLoopNext
  <1>5. CASE UNCHANGED handleVars
    BY <1>1, <1>5 DEF handleVars, allVars, vars
  <1> QED
    BY <1>2, <1>3, <1>4, <1>5, LoopInvModify, LoopInvVisit, LoopInvBegin
       DEF HandleNext

(* For every capacity and every client a loop whose body removes nothing   *)
(* never throws and, unless the elements were torn, visits those of        *)
(* begin(), each once, in order.                                           *)
THEOREM HandlesLoopsComplete == HandleSpec => []LoopsComplete
  <1>1. HandleInit => LoopInv
    BY LockstepInvInit, NoLoopInv DEF HandleInit
  <1>2. LockstepInv /\ LoopInv => LoopsComplete
    <2> SUFFICES ASSUME LockstepInv, LoopInv, ~loop.removed
                 PROVE  /\ InLoop => loop.index < count_
                        /\ ~torn => loop.seen = SubSeq(loop.due, 1, loop.index)
      BY DEF LoopsComplete
    <2>1. /\ loop.index \in Nat /\ loop.end \in Nat /\ count_ \in Nat
          /\ loop.index <= loop.end /\ loop.end <= count_
      BY LoopFields, MembersTyped DEF LoopInv, LockstepInv
    <2> QED
      BY <2>1 DEF InLoop, LoopInv
  <1> QED
    BY <1>1, <1>2, LoopInvStep, HandlesLockstepInv, PTL DEF HandleSpec
=============================================================================
