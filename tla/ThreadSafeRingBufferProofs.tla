--------------------- MODULE ThreadSafeRingBufferProofs ---------------------
(***************************************************************************)
(* The wrapper ring_buffer_thread_safe, for every capacity, every set of   *)
(* values and every finite set of threads, each calling what it likes.     *)
(*                                                                         *)
(* Under the mutex the buffer is that of a disciplined client which never  *)
(* overwrites (lag is always 0), so that what RingBufferClientProofs       *)
(* proves of one call holds of it.                                         *)
(***************************************************************************)
EXTENDS ThreadSafeRingBuffer, FiniteSetTheorems, TLAPS

Client == INSTANCE RingBufferClientProofs WITH lag <- 0

-----------------------------------------------------------------------------
(* The buffer.                                                             *)

(* The elements are in place and the slots outside them are dead.          *)
BufferInv == Client!DisciplineInv

(* The observers and the modifiers are those of the client.                *)
LEMMA SameObservers ==
  /\ Client!Cells = Cells
  /\ Client!Contents = Contents /\ Client!Contents' = Contents'
  /\ Client!empty = empty
  /\ Client!front = front
  /\ Client!back = back
  /\ \A i : Client!at(i) = at(i)
  /\ Client!size = size
  /\ Client!available = available
  /\ Client!rbVars = rbVars /\ Client!rbVars' = rbVars'
  BY DEF Client!Cells, Cells, Client!Contents, Contents, Client!at, at,
         Client!slot_at, slot_at, Client!empty, empty, Client!front, front,
         Client!back, back, Client!back_slot, back_slot,
         Client!decrement_index, decrement_index, Client!size, size,
         Client!available, available, Client!rbVars, rbVars

LEMMA SameModifiers ==
  /\ \A v : push_back(v) => Client!push_back(v)
  /\ \A v : emplace_back(v) => Client!emplace_back(v)
  /\ pop_front => Client!pop_front
  /\ clear => Client!clear
  <1>1. overwrite_advance_head => Client!overwrite_advance_head
    BY DEF overwrite_advance_head, Client!overwrite_advance_head
  <1>2. increment_tail => Client!increment_tail
    BY DEF increment_tail, Client!increment_tail
  <1>3. ASSUME NEW v PROVE push_back(v) => Client!push_back(v)
    BY <1>1, <1>2 DEF push_back, Client!push_back
  <1>4. ASSUME NEW v PROVE emplace_back(v) => Client!emplace_back(v)
    BY <1>1, <1>2 DEF emplace_back, Client!emplace_back
  <1>5. pop_front => Client!pop_front
    BY DEF pop_front, Client!pop_front, empty, Client!empty,
           increment_head, Client!increment_head
  <1>6. clear => Client!clear
    BY DEF clear, Client!clear, Window, Client!Window, slot_at, Client!slot_at,
           Slots, Client!Slots
  <1> QED
    BY <1>3, <1>4, <1>5, <1>6

LEMMA ClientInv == BufferInv => Client!IndexInv /\ Client!DisciplineInv
  BY DEF BufferInv, Client!DisciplineInv

LEMMA BufferTyped ==
  ASSUME BufferInv
  PROVE  /\ RingBufferTypeOK
         /\ count_ \in 0 .. Capacity /\ full_ \in BOOLEAN
         /\ full_ <=> count_ = Capacity
         /\ Contents \in Seq(Cells) /\ Len(Contents) = count_
         /\ Contents = <<>> <=> empty
  <1>1. Client!IndexInv
    BY ClientInv
  <1>2. RingBufferTypeOK
    BY <1>1 DEF Client!IndexInv, Client!RingBufferTypeOK, RingBufferTypeOK,
                Client!Slots, Slots, Client!Cells, Cells
  <1>3. /\ Client!Contents \in Seq(Client!Cells) /\ Len(Client!Contents) = count_
        /\ Client!Contents = <<>> <=> Client!empty
    BY <1>1, Client!ContentsTyped, CapacityAssumption, RawAssumption
  <1>4. /\ count_ \in 0 .. Capacity /\ full_ \in BOOLEAN
        /\ full_ <=> count_ = Capacity
    BY <1>1, Client!MembersTyped, CapacityAssumption, RawAssumption
  <1> QED
    BY <1>2, <1>3, <1>4, SameObservers

LEMMA BufferInit == Init => BufferInv
  <1>1. Init => Client!Init
    BY DEF Init, Client!Init, ring_buffer, Client!ring_buffer, Slots, Client!Slots,
           W!Report, W!Void, Client!Window_!Report, Client!Window_!Void
  <1> QED
    BY <1>1, Client!DisciplineInvInit, CapacityAssumption, RawAssumption
       DEF BufferInv

LEMMA BufferUnchanged ==
  ASSUME BufferInv, UNCHANGED rbVars
  PROVE  BufferInv' /\ Contents' = Contents /\ count_' = count_
  <1>1. UNCHANGED <<Client!rbVars, 0>>
    BY SameObservers
  <1>2. Client!IndexInv'
    BY <1>1, ClientInv, Client!IndexInvUnchanged, CapacityAssumption, RawAssumption
  <1>3. Client!DisciplineInv'
    BY <1>1, <1>2, ClientInv, Client!DisciplineInvUnchanged,
       CapacityAssumption, RawAssumption
  <1>4. Client!Contents' = Client!Contents
    BY <1>1, Client!ContentsUnchanged, CapacityAssumption, RawAssumption
  <1> QED
    BY <1>3, <1>4, SameObservers DEF BufferInv, rbVars

LEMMA BufferInsert ==
  ASSUME BufferInv, ~full_, NEW v \in Values, push_back(v) \/ emplace_back(v)
  PROVE  /\ BufferInv'
         /\ Contents' = Append(Contents, v) /\ Len(Contents) < Capacity
         /\ count_' = count_ + 1
  <1>1. Client!push_back(v) \/ Client!emplace_back(v)
    BY SameModifiers
  <1>2. Client!TailUsable /\ Client!Overwriting /\ v \in Client!Cells
    BY DEF Client!TailUsable, Client!Overwriting, Client!Cells
  <1>3. Client!IndexInv'
    BY <1>1, <1>2, ClientInv, Client!IndexInvInsert, CapacityAssumption, RawAssumption
  <1>4. Client!DisciplineInv'
    BY <1>1, <1>2, <1>3, ClientInv, Client!DisciplineInvInsert,
       CapacityAssumption, RawAssumption
  <1>5. Client!Window_!Enqueue(v)
    BY <1>1, <1>2, <1>3, ClientInv, Client!EnqueueStep,
       CapacityAssumption, RawAssumption
  <1>6. Len(Contents) = count_ /\ count_ < Capacity
    BY BufferTyped, CapacityAssumption
  <1>7. Contents' = Append(Contents, v)
    BY <1>5, <1>6, SameObservers DEF Client!Window_!Enqueue
  <1>8. count_' = count_ + 1
    BY DEF push_back, emplace_back, increment_tail
  <1> QED
    BY <1>4, <1>6, <1>7, <1>8 DEF BufferInv

(* A throwing insertion finds no element in the slot it constructs into.   *)
LEMMA NothingLeftBehind ==
  ASSUME BufferInv, ~full_
  PROVE  LeftBehind("push_back") = buffer_
  <1>1. tail_ \in Slots /\ buffer_ \in [Slots -> Cells] /\ buffer_[tail_] = Raw
    <2>1. /\ tail_ \in Client!Slots /\ buffer_ \in [Client!Slots -> Client!Cells]
          /\ buffer_[tail_] = Raw
      BY ClientInv, Client!TailIsDead, CapacityAssumption, RawAssumption
    <2> QED
      BY <2>1, SameObservers DEF Client!Slots, Slots
  <1>2. LeftBehind("push_back") = [buffer_ EXCEPT ![tail_] = Raw]
    BY DEF LeftBehind
  <1> QED
    BY <1>1, <1>2

LEMMA BufferPop ==
  ASSUME BufferInv, pop_front
  PROVE  /\ BufferInv'
         /\ Contents' = Tail(Contents) /\ Head(Contents) = front
         /\ Contents # <<>>
         /\ count_' = count_ - 1
  <1>1. Client!pop_front
    BY SameModifiers
  <1>2. Client!IndexInv'
    BY <1>1, ClientInv, Client!IndexInvPop, CapacityAssumption, RawAssumption
  <1>3. Client!LiveExactly'
    BY <1>1, <1>2, ClientInv, Client!LivePop, CapacityAssumption, RawAssumption
  <1>4. Client!DisciplineInv'
    BY <1>2, <1>3 DEF Client!DisciplineInv
  <1>5. /\ Client!Contents' = Tail(Client!Contents)
        /\ Head(Client!Contents) = Client!front
        /\ Client!Contents # <<>>
    BY <1>1, <1>2, ClientInv, Client!PopContents, CapacityAssumption, RawAssumption
  <1>6. count_' = count_ - 1
    BY BufferTyped, CapacityAssumption DEF pop_front, increment_head, empty
  <1> QED
    BY <1>4, <1>5, <1>6, SameObservers DEF BufferInv

LEMMA BufferClear ==
  ASSUME BufferInv, clear
  PROVE  BufferInv' /\ Contents' = <<>>
  <1>1. Client!clear
    BY SameModifiers
  <1>2. Client!IndexInv'
    BY <1>1, ClientInv, Client!IndexInvClear, CapacityAssumption, RawAssumption
  <1>3. Client!LiveExactly'
    BY <1>1, ClientInv, Client!LiveClear, CapacityAssumption, RawAssumption
  <1>4. Client!Contents' = <<>>
    BY <1>1, Client!ClearContents, CapacityAssumption, RawAssumption
  <1> QED
    BY <1>2, <1>3, <1>4, SameObservers DEF BufferInv, Client!DisciplineInv
-----------------------------------------------------------------------------
(* The threads.                                                            *)

(* The owner of the mutex is the thread in a critical section; a thread    *)
(* is in a wait set exactly while it waits, in the one its function uses;  *)
(* only a thread that is idle is in no call.                               *)
ControlInv ==
  \A t \in Threads :
    /\ pc[t] = "owner" <=> mutex_ = t
    /\ pc[t] = "idle" <=> call[t].op = "none"
    /\ call[t].op \in Calls[t] \cup {"none"}
    /\ pc[t] = "waiting" <=> t \in not_full_ \cup not_empty_
    /\ t \in not_full_ => call[t].op \in Inserts \cup {"wait_until_not_full"}
    /\ t \in not_empty_ => call[t].op = "wait_until_not_empty"

(* The inductive invariant.                                                *)
WrapperInv == TypeOK /\ BufferInv /\ ControlInv

LEMMA CallTyped ==
  ASSUME call \in [Threads -> CallRecords], NEW t \in Threads
  PROVE  /\ call[t].op \in Operations \cup {"none"}
         /\ call[t].op \in Inserts \cup {"try_push_back"} => call[t].arg \in Values
         /\ call[t].op = "at" => call[t].arg \in 0 .. Capacity
  <1>1. CASE call[t] = NoCall
    BY <1>1 DEF NoCall, Inserts
  <1>2. CASE \E op \in Operations : call[t] \in [op : {op}, arg : Args(op)]
    BY <1>2 DEF Args, Inserts
  <1> QED
    BY <1>1, <1>2 DEF CallRecords

LEMMA CallRecordsHas ==
  /\ NoCall \in CallRecords
  /\ \A op \in Operations : \A arg \in Args(op) :
       [op |-> op, arg |-> arg] \in CallRecords
  BY DEF CallRecords

(* The part of the types that is about the threads.                        *)
ThreadsTyped ==
  /\ mutex_ \in Threads \cup {Nobody}
  /\ not_full_ \subseteq Threads
  /\ not_empty_ \subseteq Threads
  /\ pc \in [Threads -> {"idle", "lock", "owner", "waiting", "relock"}]
  /\ call \in [Threads -> CallRecords]
  /\ expired \in [Threads -> BOOLEAN]
  /\ thrown \in 0 .. Capacity

(* What every return does; woken holds the threads a notify has removed    *)
(* from their wait set.                                                    *)
Leaves(t, woken) ==
  /\ mutex_' = Nobody
  /\ pc' = [u \in Threads |-> IF u = t THEN "idle"
                              ELSE IF u \in woken THEN "relock" ELSE pc[u]]
  /\ call' = [call EXCEPT ![t] = NoCall]
  /\ expired' = [expired EXCEPT ![t] = FALSE]
  /\ not_full_' = not_full_ \ woken
  /\ not_empty_' = not_empty_ \ woken

LEMMA WaitSetsDisjoint ==
  ASSUME ThreadsTyped, ControlInv
  PROVE  not_full_ \cap not_empty_ = {}
  BY DEF ThreadsTyped, ControlInv, Inserts

LEMMA ReturnNotEmptyLeaves ==
  ASSUME ThreadsTyped, ControlInv, NEW t \in Threads, NEW r, ReturnNotEmpty(t, r)
  PROVE  \E woken \in SUBSET not_empty_ : Leaves(t, woken) /\ thrown' = thrown
  <1>1. PICK woken \in notify_one(not_empty_) :
          not_empty_' = not_empty_ \ woken /\ Return(t, r, woken)
    BY DEF ReturnNotEmpty
  <1>2. woken \in SUBSET not_empty_
    BY <1>1 DEF notify_one
  <1>3. not_full_' = not_full_ \ woken
    BY <1>2, WaitSetsDisjoint DEF ReturnNotEmpty
  <1> QED
    BY <1>1, <1>2, <1>3 DEF Leaves, Return, ReturnNotEmpty

LEMMA ReturnNotFullLeaves ==
  ASSUME ThreadsTyped, ControlInv, NEW t \in Threads, NEW r, ReturnNotFull(t, r)
  PROVE  \E woken \in SUBSET not_full_ :
           /\ Leaves(t, woken) /\ thrown' = thrown
           /\ not_full_ = {} \/ \E w \in not_full_ : woken = {w}
  <1>1. PICK woken \in notify_one(not_full_) :
          not_full_' = not_full_ \ woken /\ Return(t, r, woken)
    BY DEF ReturnNotFull
  <1>2. /\ woken \in SUBSET not_full_
        /\ not_full_ = {} \/ \E w \in not_full_ : woken = {w}
    BY <1>1 DEF notify_one
  <1>3. not_empty_' = not_empty_ \ woken
    BY <1>2, WaitSetsDisjoint DEF ReturnNotFull
  <1> QED
    BY <1>1, <1>2, <1>3 DEF Leaves, Return, ReturnNotFull

LEMMA ReturnOnlyLeaves ==
  ASSUME NEW t \in Threads, NEW r, ReturnOnly(t, r)
  PROVE  Leaves(t, {}) /\ UNCHANGED rbVars /\ thrown' = thrown
  BY DEF ReturnOnly, Leaves, Return

LEMMA InsertThrowsLeaves ==
  ASSUME BufferInv, NEW t \in Threads, InsertThrows(t)
  PROVE  /\ Leaves(t, {}) /\ UNCHANGED rbVars
         /\ thrown' = IF call[t].op \in Inserts /\ thrown < Capacity
                      THEN thrown + 1 ELSE thrown
  <1>1. ~full_ /\ buffer_' = buffer_
    BY NothingLeftBehind DEF InsertThrows
  <1> QED
    BY <1>1 DEF InsertThrows, Return, Leaves, rbVars

LEMMA ClearLeaves ==
  ASSUME ThreadsTyped, ControlInv, NEW t \in Threads, Clear(t)
  PROVE  Leaves(t, not_full_) /\ thrown' = thrown
  <1>1. not_empty_' = not_empty_ \ not_full_
    BY WaitSetsDisjoint DEF Clear
  <1> QED
    BY <1>1 DEF Clear, Leaves, Return

LEMMA LeavesControl ==
  ASSUME ThreadsTyped, ControlInv, NEW t \in Threads, pc[t] = "owner",
         NEW woken \in SUBSET (not_full_ \cup not_empty_), Leaves(t, woken),
         thrown' \in 0 .. Capacity
  PROVE  ThreadsTyped' /\ ControlInv'
  <1>1. t \notin not_full_ \cup not_empty_ /\ mutex_ = t
    BY DEF ControlInv
  <1>2. NoCall.op = "none" /\ NoCall \in CallRecords
    BY CallRecordsHas DEF NoCall
  <1>3. ThreadsTyped'
    BY <1>2 DEF ThreadsTyped, Leaves
  <1>4. ASSUME NEW u \in Threads
        PROVE  /\ call'[u] = IF u = t THEN NoCall ELSE call[u]
               /\ pc'[u] = IF u = t THEN "idle"
                           ELSE IF u \in woken THEN "relock" ELSE pc[u]
    BY DEF ThreadsTyped, Leaves
  <1>5. ASSUME NEW u \in Threads
        PROVE  /\ pc'[u] = "owner" <=> mutex_' = u
               /\ pc'[u] = "idle" <=> call'[u].op = "none"
               /\ call'[u].op \in Calls[u] \cup {"none"}
               /\ pc'[u] = "waiting" <=> u \in not_full_' \cup not_empty_'
               /\ u \in not_full_' =>
                    call'[u].op \in Inserts \cup {"wait_until_not_full"}
               /\ u \in not_empty_' => call'[u].op = "wait_until_not_empty"
    BY <1>1, <1>2, <1>4, ThreadAssumption DEF Leaves, ControlInv, Inserts
  <1> QED
    BY <1>3, <1>5 DEF ControlInv

LEMMA BlockControl ==
  ASSUME ThreadsTyped, ControlInv, NEW t \in Threads, pc[t] = "owner", Block(t),
         \/ /\ not_full_' = not_full_ \cup {t} /\ not_empty_' = not_empty_
            /\ call[t].op \in Inserts \cup {"wait_until_not_full"}
         \/ /\ not_empty_' = not_empty_ \cup {t} /\ not_full_' = not_full_
            /\ call[t].op = "wait_until_not_empty",
         thrown' \in {0, thrown}
  PROVE  ThreadsTyped' /\ ControlInv'
  <1>1. t \notin not_full_ \cup not_empty_ /\ mutex_ = t /\ call[t].op # "none"
    BY DEF ControlInv
  <1>2. ThreadsTyped'
    BY CapacityAssumption DEF ThreadsTyped, Block
  <1>3. ASSUME NEW u \in Threads
        PROVE  pc'[u] = IF u = t THEN "waiting" ELSE pc[u]
    BY DEF ThreadsTyped, Block
  <1>4. ASSUME NEW u \in Threads
        PROVE  /\ pc'[u] = "owner" <=> mutex_' = u
               /\ pc'[u] = "idle" <=> call'[u].op = "none"
               /\ call'[u].op \in Calls[u] \cup {"none"}
               /\ pc'[u] = "waiting" <=> u \in not_full_' \cup not_empty_'
               /\ u \in not_full_' =>
                    call'[u].op \in Inserts \cup {"wait_until_not_full"}
               /\ u \in not_empty_' => call'[u].op = "wait_until_not_empty"
    BY <1>1, <1>3, ThreadAssumption DEF Block, ControlInv, Inserts
  <1> QED
    BY <1>2, <1>4 DEF ControlInv

(* How a critical section ends: in a return or in a wait.                  *)
LEMMA CriticalControl ==
  ASSUME ThreadsTyped, BufferInv, ControlInv, NEW t \in Threads, Critical(t)
  PROVE  ThreadsTyped' /\ ControlInv'
  <1>0. ASSUME NEW woken \in SUBSET (not_full_ \cup not_empty_),
               pc[t] = "owner", Leaves(t, woken), thrown' \in 0 .. Capacity
        PROVE  ThreadsTyped' /\ ControlInv'
    BY <1>0, LeavesControl
  <1>t. thrown \in 0 .. Capacity
    BY DEF ThreadsTyped
  <1>1. CASE \E r : ReturnNotEmpty(t, r) /\ pc[t] = "owner"
    BY <1>0, <1>t, <1>1, ReturnNotEmptyLeaves
  <1>2. CASE \E r : ReturnNotFull(t, r) /\ pc[t] = "owner"
    BY <1>0, <1>t, <1>2, ReturnNotFullLeaves
  <1>3. CASE \E r : ReturnOnly(t, r) /\ pc[t] = "owner"
    BY <1>0, <1>t, <1>3, ReturnOnlyLeaves
  <1>4. CASE Clear(t)
    BY <1>0, <1>t, <1>4, ClearLeaves DEF Clear, Inside
  <1>5. CASE PushBackWaits(t)
    BY <1>5, BlockControl DEF PushBackWaits, Inside, Inserts
  <1>6. CASE WaitUntilNotFull(t)
    BY <1>3, <1>6, BlockControl DEF WaitUntilNotFull, Inside
  <1>7. CASE WaitUntilNotEmpty(t)
    BY <1>3, <1>7, BlockControl DEF WaitUntilNotEmpty, Inside
  <1>8. CASE PushBack(t) \/ TryPushBack(t)
    BY <1>1, <1>3, <1>8 DEF PushBack, TryPushBack, Inside
  <1>9. CASE PopFront(t) \/ TryPopFront(t)
    BY <1>2, <1>3, <1>9 DEF PopFront, TryPopFront, Inside
  <1>10. CASE Access(t)
    BY <1>3, <1>10 DEF Access, Inside, ReturnElement
  <1>11. CASE Query(t)
    BY <1>3, <1>11 DEF Query, Inside
  <1>12. CASE InsertThrows(t)
    <2>1. thrown' \in 0 .. Capacity
      BY <1>t, <1>12, InsertThrowsLeaves, CapacityAssumption
    <2> QED
      BY <1>0, <1>12, <2>1, InsertThrowsLeaves DEF InsertThrows, Inside
  <1>13. CASE RemoveThrows(t)
    BY <1>2, <1>3, <1>13 DEF RemoveThrows, Inside
  <1> QED
    BY <1>4, <1>5, <1>6, <1>7, <1>8, <1>9, <1>10, <1>11, <1>12, <1>13 DEF Critical

(* What a critical section does to the buffer.                             *)
LEMMA CriticalBuffer ==
  ASSUME ThreadsTyped, BufferInv, NEW t \in Threads, Critical(t)
  PROVE  \/ UNCHANGED rbVars
         \/ ~full_ /\ \E v \in Values : push_back(v) \/ emplace_back(v)
         \/ pop_front
         \/ clear
  <1>1. call[t].op \in Inserts \cup {"try_push_back"} => call[t].arg \in Values
    BY CallTyped DEF ThreadsTyped
  <1>2. CASE PushBack(t) \/ TryPushBack(t)
    BY <1>1, <1>2 DEF PushBack, TryPushBack, Inside, ReturnOnly
  <1>3. CASE PushBackWaits(t) \/ WaitUntilNotFull(t) \/ WaitUntilNotEmpty(t)
    BY <1>3 DEF PushBackWaits, WaitUntilNotFull, WaitUntilNotEmpty, Block, ReturnOnly
  <1>4. CASE PopFront(t) \/ TryPopFront(t)
    BY <1>4 DEF PopFront, TryPopFront, ReturnOnly
  <1>7. CASE InsertThrows(t)
    BY <1>7, InsertThrowsLeaves
  <1>8. CASE RemoveThrows(t)
    BY <1>8 DEF RemoveThrows, ReturnOnly
  <1>5. CASE Clear(t)
    BY <1>5 DEF Clear
  <1>6. CASE Access(t) \/ Query(t)
    BY <1>6 DEF Access, Query, ReturnElement, ReturnOnly
  <1> QED
    BY <1>2, <1>3, <1>4, <1>5, <1>6, <1>7, <1>8 DEF Critical

LEMMA BufferStep ==
  ASSUME ThreadsTyped, BufferInv, [Next]_vars
  PROVE  BufferInv'
  <1>1. ASSUME NEW t \in Threads, Critical(t)
        PROVE  BufferInv'
    BY <1>1, CriticalBuffer, BufferUnchanged, BufferInsert, BufferPop, BufferClear
  <1>2. CASE UNCHANGED rbVars
    BY <1>2, BufferUnchanged
  <1>3. CASE UNCHANGED vars
    BY <1>2, <1>3 DEF vars, rbVars
  <1> QED
    BY <1>1, <1>2, <1>3
       DEF Next, Call, Lock, Timeout, SpuriousWakeup, LeaveWait

LEMMA ControlStep ==
  ASSUME ThreadsTyped, BufferInv, ControlInv, [Next]_vars
  PROVE  ThreadsTyped' /\ ControlInv'
  <1>1. ASSUME NEW t \in Threads, NEW op \in Calls[t], NEW arg \in Args(op),
               Call(t, op, arg)
        PROVE  ThreadsTyped' /\ ControlInv'
    <2>1. op \in Operations /\ op # "none"
      BY CallsAssumption DEF Operations, Inserts, TimedWaits
    <2>2. [op |-> op, arg |-> arg] \in CallRecords
      BY <2>1, CallRecordsHas
    <2>3. ThreadsTyped'
      BY <1>1, <2>2 DEF ThreadsTyped, Call
    <2>4. ASSUME NEW u \in Threads
          PROVE  /\ pc'[u] = IF u = t THEN "lock" ELSE pc[u]
                 /\ call'[u] = IF u = t THEN [op |-> op, arg |-> arg] ELSE call[u]
      BY <1>1 DEF ThreadsTyped, Call
    <2>5. /\ pc[t] = "idle" /\ mutex_' = mutex_
          /\ not_full_' = not_full_ /\ not_empty_' = not_empty_
      BY <1>1 DEF Call
    <2>6. [op |-> op, arg |-> arg].op = op
      OBVIOUS
    <2>7. ControlInv'
      BY <2>1, <2>4, <2>5, <2>6 DEF ControlInv
    <2> QED
      BY <2>3, <2>7
  <1>2. ASSUME NEW t \in Threads, Lock(t)
        PROVE  ThreadsTyped' /\ ControlInv'
    <2>1. ThreadsTyped'
      BY <1>2 DEF ThreadsTyped, Lock
    <2>2. ASSUME NEW u \in Threads
          PROVE  pc'[u] = IF u = t THEN "owner" ELSE pc[u]
      BY <1>2 DEF ThreadsTyped, Lock
    <2>3. ControlInv'
      BY <1>2, <2>2, ThreadAssumption DEF ControlInv, Lock
    <2> QED
      BY <2>1, <2>3
  <1>3. ASSUME NEW t \in Threads, Timeout(t) \/ SpuriousWakeup(t)
        PROVE  ThreadsTyped' /\ ControlInv'
    <2>1. LeaveWait(t)
      BY <1>3 DEF Timeout, SpuriousWakeup
    <2>2. expired' \in [Threads -> BOOLEAN]
      BY <1>3 DEF ThreadsTyped, Timeout, SpuriousWakeup
    <2>3. ThreadsTyped'
      BY <2>1, <2>2 DEF ThreadsTyped, LeaveWait
    <2>4. ASSUME NEW u \in Threads
          PROVE  pc'[u] = IF u = t THEN "relock" ELSE pc[u]
      BY <2>1 DEF ThreadsTyped, LeaveWait
    <2>5. ControlInv'
      BY <2>1, <2>4 DEF ControlInv, LeaveWait
    <2> QED
      BY <2>3, <2>5
  <1>4. CASE UNCHANGED vars
    BY <1>4 DEF vars, ThreadsTyped, ControlInv
  <1> QED
    BY <1>1, <1>2, <1>3, <1>4, CriticalControl DEF Next

LEMMA WrapperInvTypes == WrapperInv <=> ThreadsTyped /\ BufferInv /\ ControlInv
  BY BufferTyped DEF WrapperInv, TypeOK, ThreadsTyped

LEMMA WrapperInvInit == Init => WrapperInv
  <1> SUFFICES ASSUME Init PROVE WrapperInv
    OBVIOUS
  <1>1. BufferInv
    BY BufferInit
  <1>2. NoCall.op = "none" /\ NoCall \in CallRecords
    BY CallRecordsHas DEF NoCall
  <1>3. ThreadsTyped
    BY <1>2, CapacityAssumption DEF Init, ThreadsTyped
  <1>4. ControlInv
    BY <1>2, ThreadAssumption DEF Init, ControlInv
  <1> QED
    BY <1>1, <1>3, <1>4, WrapperInvTypes

LEMMA WrapperInvStep == WrapperInv /\ [Next]_vars => WrapperInv'
  <1>1. ThreadsTyped /\ BufferInv /\ ControlInv /\ [Next]_vars
          => (ThreadsTyped /\ BufferInv /\ ControlInv)'
    BY BufferStep, ControlStep
  <1> QED
    BY <1>1, WrapperInvTypes, PTL

(* For every capacity, every set of threads and whatever they call, the    *)
(* buffer under the mutex is in order, and mutex, wait sets and calls in   *)
(* progress agree.                                                         *)
THEOREM WrapperInvariant == Spec => []WrapperInv
  BY WrapperInvInit, WrapperInvStep, PTL DEF Spec

(* Members, mutex, wait sets and calls stay in their ranges.               *)
THEOREM WrapperTypeOK == Spec => []TypeOK
  <1>1. WrapperInv => TypeOK
    BY DEF WrapperInv
  <1> QED
    BY <1>1, WrapperInvariant, PTL

-----------------------------------------------------------------------------
(* Refinement: every critical section is one call of BoundedChannel, or,   *)
(* if it ends in a wait, none.                                             *)

LEMMA SameReports ==
  /\ \A c, r : Channel!W!Report(c, r) = W!Report(c, r)
  /\ Channel!W!Void = W!Void /\ Channel!W!Thrown = W!Thrown
  /\ \A v : Channel!W!Element(v) = W!Element(v)
  /\ \A n : Channel!W!Number(n) = W!Number(n)
  BY DEF Channel!W!Report, W!Report, Channel!W!Void, W!Void, Channel!W!Thrown,
         W!Thrown, Channel!W!Element, W!Element, Channel!W!Number, W!Number

(* The result that every return records.                                   *)
LEMMA ReturnReports ==
  ASSUME NEW t \in Threads, NEW r,
         ReturnNotEmpty(t, r) \/ ReturnNotFull(t, r) \/ ReturnOnly(t, r)
  PROVE  out' = Channel!W!Report(CallOf(t), r)
  BY SameReports DEF ReturnNotEmpty, ReturnNotFull, ReturnOnly, Return

(* A call that changes nothing answers.                                    *)
LEMMA AnswerStep ==
  ASSUME BufferInv, NEW t \in Threads, NEW r, ReturnOnly(t, r)
  PROVE  Channel!W!Answer(CallOf(t), r)
  <1>1. UNCHANGED rbVars
    BY DEF ReturnOnly
  <1> QED
    BY <1>1, ReturnReports, BufferUnchanged DEF Channel!W!Answer

LEMMA InsertStep ==
  ASSUME ThreadsTyped, BufferInv, NEW t \in Threads, 
         PushBack(t) \/ TryPushBack(t) \/ InsertThrows(t)
  PROVE  Channel!Next
  <1>0. call[t].op \in Inserts \cup {"try_push_back"} => call[t].arg \in Values
    BY CallTyped DEF ThreadsTyped
  <1> DEFINE v == call[t].arg
  <1>1. CASE PushBack(t)
    <2>1. /\ ~full_ /\ call[t].op \in Inserts /\ v \in Values
          /\ push_back(v) \/ emplace_back(v)
          /\ ReturnNotEmpty(t, W!Void)
      BY <1>0, <1>1 DEF PushBack, Inside
    <2>2. Contents' = Append(Contents, v) /\ Len(Contents) < Capacity
      BY <2>1, BufferInsert
    <2>3. out' = Channel!W!Report(<<call[t].op, v>>, Channel!W!Void)
      BY <2>1, ReturnReports, SameReports DEF CallOf, Inserts
    <2> QED
      BY <2>1, <2>2, <2>3 DEF Channel!Next, Channel!Insert, Inserts
  <1>2. CASE TryPushBack(t) /\ ~full_
    <2>1. /\ call[t].op = "try_push_back" /\ v \in Values
          /\ push_back(v) /\ ReturnNotEmpty(t, W!Flag(TRUE))
      BY <1>0, <1>2 DEF TryPushBack, Inside
    <2>2. Contents' = Append(Contents, v) /\ Len(Contents) < Capacity
      BY <1>2, <2>1, BufferInsert
    <2>3. out' = Channel!W!Report(<<"try_push_back", v>>, Channel!W!Flag(TRUE))
      BY <2>1, ReturnReports DEF CallOf, W!Flag, Channel!W!Flag
    <2> QED
      BY <2>1, <2>2, <2>3 DEF Channel!Next, Channel!Insert
  <1>3. CASE TryPushBack(t) /\ full_
    <2>1. v \in Values /\ Channel!W!Answer(<<"try_push_back", v>>, Channel!W!Flag(FALSE))
      BY <1>0, <1>3, AnswerStep
         DEF TryPushBack, Inside, CallOf, W!Flag, Channel!W!Flag
    <2>2. Len(Contents) = Capacity
      BY <1>3, BufferTyped
    <2> QED
      BY <2>1, <2>2 DEF Channel!Next, Channel!Reject
  <1>4. CASE InsertThrows(t)
    <2>1. /\ call[t].op \in Inserts \cup {"try_push_back"} /\ v \in Values
          /\ UNCHANGED rbVars
      BY <1>0, <1>4, InsertThrowsLeaves DEF InsertThrows, Inside
    <2>2. Len(Contents) < Capacity
      BY <1>4, BufferTyped, CapacityAssumption DEF InsertThrows
    <2>3. out' = Channel!W!Report(<<call[t].op, v>>, Channel!W!Thrown)
      BY <1>4, <2>1, SameReports DEF InsertThrows, Return, CallOf
    <2>4. Channel!W!Answer(<<call[t].op, v>>, Channel!W!Thrown)
      BY <2>1, <2>3, BufferUnchanged DEF Channel!W!Answer
    <2> QED
      BY <2>1, <2>2, <2>4 DEF Channel!Next, Channel!InsertThrows, Inserts
  <1> QED
    BY <1>1, <1>2, <1>3, <1>4

LEMMA RemoveStep ==
  ASSUME BufferInv, NEW t \in Threads,
         PopFront(t) \/ TryPopFront(t) \/ RemoveThrows(t) \/ Clear(t)
  PROVE  Channel!Next
  <1>1. CASE PopFront(t) /\ pop_front /\ ReturnNotFull(t, W!Element(front))
    <2>1. out' = Channel!W!Report(<<"pop_front">>, Channel!W!Element(Head(Contents)))
      BY <1>1, ReturnReports, SameReports, BufferPop DEF PopFront, Inside, CallOf, Inserts
    <2> QED
      BY <1>1, <2>1, BufferPop DEF Channel!Next, Channel!W!PopFront
  <1>2. CASE TryPopFront(t) /\ pop_front /\ ReturnNotFull(t, W!Element(front))
    <2>1. out' = Channel!W!Report(<<"try_pop_front">>,
                                  Channel!W!Element(Head(Contents)))
      BY <1>2, ReturnReports, SameReports, BufferPop DEF TryPopFront, Inside, CallOf, Inserts
    <2> QED
      BY <1>2, <2>1, BufferPop DEF Channel!Next, Channel!TryPopFront
  <1>3. CASE PopFront(t) /\ empty /\ ReturnOnly(t, W!Thrown)
    <2>1. Channel!W!Answer(<<"pop_front">>, Channel!W!Thrown)
      BY <1>3, AnswerStep, SameReports DEF PopFront, Inside, CallOf, Inserts
    <2> QED
      BY <1>3, <2>1, BufferTyped DEF Channel!Next, Channel!W!PopFront, Channel!W!Answer
  <1>4. CASE TryPopFront(t) /\ empty /\ ReturnOnly(t, Channel!Nullopt)
    <2>1. Channel!W!Answer(<<"try_pop_front">>, Channel!Nullopt)
      BY <1>4, AnswerStep DEF TryPopFront, Inside, CallOf, Inserts
    <2> QED
      BY <1>4, <2>1, BufferTyped DEF Channel!Next, Channel!TryPopFront
  <1>5. CASE Clear(t)
    <2>1. out' = Channel!W!Report(<<"clear">>, Channel!W!Void)
      BY <1>5, SameReports DEF Clear, Inside, Return, CallOf, Inserts
    <2>2. Contents' = <<>>
      BY <1>5, BufferClear DEF Clear
    <2> QED
      BY <2>1, <2>2 DEF Channel!Next, Channel!W!Clear
  <1>6. CASE /\ Inside(t, {"pop_front", "try_pop_front"}) /\ ~empty
             /\ ReturnOnly(t, W!Thrown)
    <2>1. /\ call[t].op \in {"pop_front", "try_pop_front"}
          /\ Channel!W!Answer(<<call[t].op>>, Channel!W!Thrown)
      BY <1>6, AnswerStep, SameReports DEF Inside, CallOf, Inserts
    <2> QED
      BY <1>6, <2>1, BufferTyped DEF Channel!Next, Channel!RemoveThrows
  <1>7. CASE /\ Inside(t, {"try_pop_front"}) /\ pop_front
             /\ ReturnNotFull(t, W!Thrown)
    <2>1. out' = Channel!W!Report(<<"try_pop_front">>, Channel!W!Thrown)
      BY <1>7, ReturnReports, SameReports DEF Inside, CallOf, Inserts
    <2> QED
      BY <1>7, <2>1, BufferPop DEF Channel!Next, Channel!RemoveThrows
  <1> QED
    BY <1>1, <1>2, <1>3, <1>4, <1>5, <1>6, <1>7 DEF PopFront, TryPopFront, RemoveThrows

(* The observers find in the buffer what they find in the sequence.        *)
LEMMA ObserverValues ==
  ASSUME BufferInv
  PROVE  /\ size = Len(Contents)
         /\ available = Capacity - Len(Contents)
         /\ empty = (Len(Contents) = 0)
         /\ full_ = (Len(Contents) = Capacity)
         /\ ~empty => /\ buffer_[head_] = Head(Contents)
                      /\ buffer_[back_slot] = Contents[Len(Contents)]
         /\ \A i \in 0 .. Capacity :
              i < count_ => buffer_[slot_at(i)] = Contents[i + 1]
  <1>1. Client!IndexInv /\ Client!DisciplineInv /\ Client!TailUsable
    BY ClientInv DEF Client!TailUsable
  <1>2. /\ Client!size = Len(Client!Contents)
        /\ Client!available = Capacity - Len(Client!Contents)
        /\ Client!empty = (Len(Client!Contents) = 0)
        /\ full_ = (Len(Client!Contents) = Capacity)
    BY <1>1, Client!SizeContents, CapacityAssumption, RawAssumption
  <1>3. ~Client!empty => /\ Head(Client!Contents) = Client!front
                         /\ Client!back = Client!Contents[Len(Client!Contents)]
    BY <1>1, Client!FrontContents, Client!BackContents,
       CapacityAssumption, RawAssumption
  <1>4. \A i \in 0 .. Capacity :
          ~(i >= count_) => Client!at(i) = Client!Contents[i + 1]
    BY <1>1, Client!AtContents, CapacityAssumption, RawAssumption
  <1>5. \A i \in 0 .. Capacity : i < count_ <=> ~(i >= count_)
    BY BufferTyped, CapacityAssumption
  <1> QED
    BY <1>2, <1>3, <1>4, <1>5, SameObservers DEF front, back, at

LEMMA ObserveStep ==
  ASSUME ThreadsTyped, BufferInv, NEW t \in Threads, Access(t) \/ Query(t)
  PROVE  Channel!Next
  <1> SUFFICES Channel!W!Observe
    BY DEF Channel!Next
  <1>0. count_ \in 0 .. Capacity /\ Len(Contents) = count_ /\ Len(Contents) \in Nat
        /\ (Contents = <<>> <=> empty)
    BY BufferTyped, CapacityAssumption
  <1>1. CASE Inside(t, {"front", "back"}) /\ empty /\ ReturnOnly(t, W!Thrown)
    <2>1. Channel!W!Answer(<<call[t].op>>, Channel!W!Thrown)
      BY <1>1, AnswerStep, SameReports DEF Inside, CallOf, Inserts
    <2> QED
      BY <1>0, <1>1, <2>1
         DEF Inside, Channel!W!Observe, Channel!W!Front, Channel!W!Back
  <1>2. CASE Inside(t, {"front"}) /\ ~empty /\ ReturnElement(t, head_)
    <2>1. Channel!W!Answer(<<"front">>, Channel!W!Element(Head(Contents)))
      BY <1>2, AnswerStep, SameReports, ObserverValues
         DEF Inside, CallOf, Inserts, ReturnElement
    <2> QED
      BY <1>0, <1>2, <2>1 DEF Channel!W!Observe, Channel!W!Front
  <1>3. CASE Inside(t, {"back"}) /\ ~empty /\ ReturnElement(t, back_slot)
    <2>1. Channel!W!Answer(<<"back">>, Channel!W!Element(Contents[Len(Contents)]))
      BY <1>3, AnswerStep, SameReports, ObserverValues
         DEF Inside, CallOf, Inserts, ReturnElement
    <2> QED
      BY <1>0, <1>3, <2>1 DEF Channel!W!Observe, Channel!W!Back
  <1>4. CASE /\ Inside(t, {"at"})
             /\ \/ call[t].arg >= count_ /\ ReturnOnly(t, W!Thrown)
                \/ call[t].arg < count_ /\ ReturnElement(t, slot_at(call[t].arg))
    <2> DEFINE i == call[t].arg
    <2>0. i \in 0 .. Capacity /\ i \in Int /\ count_ \in Int
      BY <1>0, <1>4, CallTyped, CapacityAssumption DEF ThreadsTyped, Inside
    <2>1. CASE i >= count_ /\ ReturnOnly(t, W!Thrown)
      <3>1. Channel!W!Answer(<<"at", i>>, Channel!W!Thrown)
        BY <1>4, <2>1, AnswerStep, SameReports DEF Inside, CallOf, Inserts
      <3> QED
        BY <1>0, <2>0, <2>1, <3>1 DEF Channel!W!Observe, Channel!W!At
    <2>2. CASE i < count_ /\ ReturnElement(t, slot_at(i))
      <3>1. Channel!W!Answer(<<"at", i>>, Channel!W!Element(Contents[i + 1]))
        BY <1>4, <2>0, <2>2, AnswerStep, SameReports, ObserverValues
           DEF Inside, CallOf, Inserts, ReturnElement
      <3>2. ~(i >= Len(Contents))
        BY <1>0, <2>0, <2>2
      <3> QED
        BY <2>0, <3>1, <3>2 DEF Channel!W!Observe, Channel!W!At
    <2> QED
      BY <1>4, <2>1, <2>2
  <1>5. CASE Inside(t, {"size"}) /\ ReturnOnly(t, W!Number(size))
    BY <1>5, AnswerStep, SameReports, ObserverValues
       DEF Inside, CallOf, Inserts, Channel!W!Observe, Channel!W!Size
  <1>6. CASE Inside(t, {"available"}) /\ ReturnOnly(t, W!Number(available))
    BY <1>6, AnswerStep, SameReports, ObserverValues
       DEF Inside, CallOf, Inserts, Channel!W!Observe, Channel!W!Available
  <1>7. CASE Inside(t, {"empty"}) /\ ReturnOnly(t, W!Flag(empty))
    BY <1>7, AnswerStep, ObserverValues
       DEF Inside, CallOf, Inserts, Channel!W!Observe, Channel!W!Empty,
           W!Flag, Channel!W!Flag
  <1>8. CASE Inside(t, {"full"}) /\ ReturnOnly(t, W!Flag(full_))
    BY <1>8, AnswerStep, ObserverValues
       DEF Inside, CallOf, Inserts, Channel!W!Observe, Channel!W!Full,
           W!Flag, Channel!W!Flag
  <1> QED
    BY <1>1, <1>2, <1>3, <1>4, <1>5, <1>6, <1>7, <1>8 DEF Access, Query

LEMMA WaitStep ==
  ASSUME BufferInv, NEW t \in Threads,
         PushBackWaits(t) \/ WaitUntilNotFull(t) \/ WaitUntilNotEmpty(t)
  PROVE  Channel!Next \/ UNCHANGED <<Contents, out>>
  <1>0. /\ Len(Contents) = count_ /\ count_ \in 0 .. Capacity
        /\ full_ = (Len(Contents) = Capacity) /\ empty = (Len(Contents) = 0)
    BY BufferTyped, ObserverValues
  <1>1. CASE Block(t)
    BY <1>1, BufferUnchanged DEF Block
  <1>2. CASE Inside(t, {"wait_until_not_full"}) /\ ReturnOnly(t, W!Flag(~full_))
    <2>1. (~full_) = (Len(Contents) < Capacity)
      <3>1. Len(Contents) < Capacity <=> count_ # Capacity
        BY <1>0, CapacityAssumption
      <3>2. full_ \in BOOLEAN /\ (full_ <=> count_ = Capacity)
        BY BufferTyped
      <3> QED
        BY <3>1, <3>2
    <2>2. Channel!W!Answer(CallOf(t), W!Flag(~full_))
      BY <1>2, AnswerStep
    <2>3. CallOf(t) = <<"wait_until_not_full">>
      BY <1>2 DEF Inside, CallOf, Inserts
    <2> QED
      BY <2>1, <2>2, <2>3
         DEF Channel!Next, Channel!AwaitNotFull, W!Flag, Channel!W!Flag
  <1>3. CASE Inside(t, {"wait_until_not_empty"}) /\ ReturnOnly(t, W!Flag(~empty))
    <2>1. (~empty) = (Len(Contents) > 0)
      <3>1. Len(Contents) > 0 <=> count_ # 0
        BY <1>0, CapacityAssumption
      <3> QED
        BY <3>1 DEF empty
    <2>2. Channel!W!Answer(CallOf(t), W!Flag(~empty))
      BY <1>3, AnswerStep
    <2>3. CallOf(t) = <<"wait_until_not_empty">>
      BY <1>3 DEF Inside, CallOf, Inserts
    <2> QED
      BY <2>1, <2>2, <2>3
         DEF Channel!Next, Channel!AwaitNotEmpty, W!Flag, Channel!W!Flag
  <1> QED
    BY <1>1, <1>2, <1>3 DEF PushBackWaits, WaitUntilNotFull, WaitUntilNotEmpty

LEMMA ChannelStep ==
  ASSUME WrapperInv, [Next]_vars
  PROVE  [Channel!Next]_<<Contents, out>>
  <1>0. ThreadsTyped /\ BufferInv
    BY WrapperInvTypes
  <1>1. ASSUME NEW t \in Threads, Critical(t)
        PROVE  [Channel!Next]_<<Contents, out>>
    BY <1>0, <1>1, InsertStep, RemoveStep, ObserveStep, WaitStep DEF Critical
  <1>2. CASE UNCHANGED rbVars /\ UNCHANGED out
    BY <1>0, <1>2, BufferUnchanged
  <1>3. CASE UNCHANGED vars
    BY <1>2, <1>3 DEF vars, rbVars
  <1> QED
    BY <1>1, <1>2, <1>3
       DEF Next, Call, Lock, Timeout, SpuriousWakeup, LeaveWait

LEMMA ChannelInit == Init => Channel!Init
  <1> SUFFICES ASSUME Init PROVE Channel!Init
    OBVIOUS
  <1>1. empty
    BY DEF Init, ring_buffer, empty
  <1>2. Contents = <<>>
    BY <1>1, BufferInit, BufferTyped
  <1> QED
    BY <1>2, SameReports DEF Init, Channel!Init, Channel!W!Init

(* For every capacity, every set of values and any threads calling         *)
(* anything, the wrapper is a linearizable bounded queue: each call has    *)
(* the effect and the result that it has on the elements at the moment it  *)
(* holds the mutex, and none overwrites an element.                        *)
THEOREM WrapperImplementsChannel == Spec => ImplementsChannel
  <1>1. WrapperInv /\ [Next]_vars => [Channel!Next]_<<Contents, out>>
    BY ChannelStep
  <1> QED
    BY <1>1, ChannelInit, WrapperInvariant, PTL
       DEF Spec, ImplementsChannel, Channel!Spec

-----------------------------------------------------------------------------
(* Notifications.                                                          *)

(* Nobody calls wait_until_not_full, whose waiters share not_full_ with    *)
(* the insertions: such a waiter may use up a notification, and then the   *)
(* theorems below are false (run wrapper_stolen).                          *)
NobodyAwaitsRoom == \A t \in Threads : "wait_until_not_full" \notin Calls[t]

LEMMA BlockedIsNotFull ==
  ASSUME ThreadsTyped, ControlInv, NobodyAwaitsRoom
  PROVE  Blocked = not_full_
  BY DEF ThreadsTyped, ControlInv, NobodyAwaitsRoom, Blocked, Inserts

LEMMA UnderwayFinite ==
  /\ IsFiniteSet(Underway) /\ Cardinality(Underway) \in Nat
  /\ IsFiniteSet(Underway') /\ Cardinality(Underway') \in Nat
  <1>1. Underway \subseteq Threads /\ Underway' \subseteq Threads
    BY DEF Underway
  <1> QED
    BY <1>1, ThreadAssumption, FS_Subset, FS_CardinalityType

(* A return takes its thread out of the insertions under way and adds the  *)
(* insertions that it wakes.                                               *)
LEMMA LeavesUnderway ==
  ASSUME ThreadsTyped, ControlInv, NEW t \in Threads, pc[t] = "owner",
         NEW woken \in SUBSET (not_full_ \cup not_empty_), Leaves(t, woken)
  PROVE  Underway' = (Underway \ {t}) \cup {u \in woken : call[u].op \in Inserts}
  <1>1. NoCall.op \notin Inserts
    BY DEF NoCall, Inserts
  <1>2. ASSUME NEW u \in Threads
        PROVE  /\ call'[u] = IF u = t THEN NoCall ELSE call[u]
               /\ pc'[u] = IF u = t THEN "idle"
                           ELSE IF u \in woken THEN "relock" ELSE pc[u]
    BY DEF ThreadsTyped, Leaves
  <1>3. t \notin woken /\ woken \subseteq Threads
    BY DEF ThreadsTyped, ControlInv
  <1>4. \A u \in Threads :
          u \in Underway' <=> \/ u \in Underway /\ u # t
                              \/ u \in woken /\ call[u].op \in Inserts
    BY <1>1, <1>2, <1>3 DEF Underway
  <1>5. Underway \subseteq Threads /\ Underway' \subseteq Threads
    BY DEF Underway
  <1> QED
    BY <1>3, <1>4, <1>5

(* The kinds of return: an insertion that fills a slot gives up its place  *)
(* among those under way, and so does one that throws, which is counted; a *)
(* removal that frees a slot wakes a blocked insertion, if there is one;   *)
(* the others change neither.                                              *)
LEMMA ReturnWakeup ==
  ASSUME ThreadsTyped, BufferInv, ControlInv, NobodyAwaitsRoom, NoLostWakeup,
         NEW t \in Threads, pc[t] = "owner",
         NEW woken \in SUBSET (not_full_ \cup not_empty_), Leaves(t, woken),
         \/ /\ count_' = count_ /\ call[t].op \notin Inserts
            /\ thrown' = thrown
         \/ /\ count_' = count_
            /\ thrown' = IF thrown < Capacity THEN thrown + 1 ELSE thrown
         \/ count_' = count_ + 1 /\ thrown' = thrown
         \/ /\ count_' = count_ - 1 /\ thrown' = thrown
            /\ call[t].op \notin Inserts
            /\ not_full_ = {} \/ \E w \in not_full_ : woken = {w}
  PROVE  NoLostWakeup'
  <1> DEFINE U == Underway
             V == Underway'
  <1>0. /\ IsFiniteSet(U) /\ Cardinality(U) \in Nat
        /\ IsFiniteSet(V) /\ Cardinality(V) \in Nat
        /\ count_ \in Nat /\ Capacity \in Nat /\ thrown \in 0 .. Capacity
    BY UnderwayFinite, BufferTyped, CapacityAssumption DEF ThreadsTyped
  <1>1. V = (U \ {t}) \cup {u \in woken : call[u].op \in Inserts}
    BY LeavesUnderway
  <1>2. t \in U <=> call[t].op \in Inserts
    BY DEF Underway
  <1>3. Blocked' # {} => not_full_' # {} /\ not_full_ # {}
    BY DEF Blocked, Leaves
  <1>4. not_full_ # {} => Cardinality(U) + thrown >= Capacity - count_
    BY BlockedIsNotFull DEF NoLostWakeup
  <1> HIDE DEF U, V
  <1>9. IsFiniteSet(V) /\ Cardinality(V) >= Cardinality(U) - 1
    <2>0. /\ IsFiniteSet(U \ {t})
          /\ Cardinality(U \ {t})
               = IF t \in U THEN Cardinality(U) - 1 ELSE Cardinality(U)
      BY <1>0, FS_RemoveElement
    <2>1. U \ {t} \subseteq V
      BY <1>1
    <2>2. Cardinality(U \ {t}) <= Cardinality(V)
      BY <1>0, <2>1, FS_Subset
    <2> QED
      BY <1>0, <2>0, <2>2
  <1>5. CASE /\ count_' = count_ /\ call[t].op \notin Inserts
             /\ thrown' = thrown
    <2>1. U \subseteq V
      BY <1>1, <1>2, <1>5
    <2>2. Cardinality(U) <= Cardinality(V)
      BY <1>0, <2>1, FS_Subset
    <2> QED
      BY <1>0, <1>3, <1>4, <1>5, <2>2 DEF NoLostWakeup, V
  <1>6. CASE count_' = count_ + 1 /\ thrown' = thrown
    BY <1>0, <1>3, <1>4, <1>6, <1>9 DEF NoLostWakeup, V
  <1>10. CASE /\ count_' = count_
              /\ thrown' = IF thrown < Capacity THEN thrown + 1 ELSE thrown
    BY <1>0, <1>3, <1>4, <1>9, <1>10 DEF NoLostWakeup, V
  <1>7. CASE not_full_ = {}
    BY <1>3, <1>7 DEF NoLostWakeup
  <1>8. ASSUME count_' = count_ - 1, thrown' = thrown, call[t].op \notin Inserts,
               NEW w \in not_full_, woken = {w}
        PROVE  NoLostWakeup'
    <2>1. w \in Threads /\ pc[w] = "waiting" /\ call[w].op \in Inserts
      BY <1>8, BlockedIsNotFull DEF ThreadsTyped, ControlInv, Blocked
    <2>2. w \notin U
      BY <2>1 DEF U, Underway
    <2>3. V = U \cup {w}
      BY <1>1, <1>2, <1>8, <2>1
    <2>4. Cardinality(V) = Cardinality(U) + 1
      BY <1>0, <2>2, <2>3, FS_AddElement
    <2> QED
      BY <1>0, <1>4, <1>8, <2>4 DEF NoLostWakeup, V
  <1> QED
    BY <1>5, <1>6, <1>7, <1>8, <1>10

LEMMA CriticalWakeup ==
  ASSUME ThreadsTyped, BufferInv, ControlInv, NobodyAwaitsRoom, NoLostWakeup,
         NEW t \in Threads, Critical(t)
  PROVE  NoLostWakeup'
  <1>0. /\ pc[t] = "owner" /\ call[t].op \in Calls[t] \cup {"none"}
        /\ count_ \in 0 .. Capacity
    BY BufferTyped
       DEF ControlInv, Critical, PushBack, PushBackWaits, TryPushBack, PopFront,
           TryPopFront, InsertThrows, RemoveThrows, Clear, WaitUntilNotFull,
           WaitUntilNotEmpty, Access, Query, Inside
  <1>1. ASSUME NEW r, ReturnOnly(t, r), call[t].op \notin Inserts
        PROVE  NoLostWakeup'
    BY <1>0, <1>1, ReturnOnlyLeaves, ReturnWakeup, BufferUnchanged
  <1>2. CASE PushBack(t) \/ TryPushBack(t)
    <2>1. ASSUME NEW r, NEW v \in Values, ~full_, push_back(v) \/ emplace_back(v),
                 ReturnNotEmpty(t, r)
          PROVE  NoLostWakeup'
      BY <1>0, <2>1, ReturnNotEmptyLeaves, ReturnWakeup, BufferInsert
    <2>2. call[t].op \in Inserts \cup {"try_push_back"} => call[t].arg \in Values
      BY CallTyped DEF ThreadsTyped
    <2> QED
      BY <1>1, <1>2, <2>1, <2>2 DEF PushBack, TryPushBack, Inside, Inserts
  <1>3. CASE PopFront(t) \/ TryPopFront(t) \/ RemoveThrows(t)
    <2>1. ASSUME NEW r, pop_front, ReturnNotFull(t, r), call[t].op \notin Inserts
          PROVE  NoLostWakeup'
      BY <1>0, <2>1, ReturnNotFullLeaves, ReturnWakeup, BufferPop
    <2> QED
      BY <1>1, <1>3, <2>1 DEF PopFront, TryPopFront, RemoveThrows, Inside, Inserts
  <1>10. CASE InsertThrows(t)
    <2>1. count_' = count_ /\ Leaves(t, {})
      BY <1>10, InsertThrowsLeaves, BufferUnchanged
    <2>2. \/ thrown' = thrown /\ call[t].op \notin Inserts
          \/ thrown' = IF thrown < Capacity THEN thrown + 1 ELSE thrown
      BY <1>10, InsertThrowsLeaves
    <2> QED
      BY <1>0, <2>1, <2>2, ReturnWakeup
  <1>4. CASE Clear(t)
    BY <1>4 DEF Clear, NoLostWakeup, Blocked
  <1>5. CASE PushBackWaits(t)
    <2>1. count_' = Capacity
      BY <1>5, BufferTyped, BufferUnchanged DEF PushBackWaits, Block
    <2>2. thrown' = 0
      BY <1>5 DEF PushBackWaits
    <2> QED
      BY <2>1, <2>2, UnderwayFinite, CapacityAssumption DEF NoLostWakeup
  <1>6. CASE WaitUntilNotFull(t)
    BY <1>0, <1>6 DEF NobodyAwaitsRoom, WaitUntilNotFull, Inside
  <1>7. CASE /\ WaitUntilNotEmpty(t) /\ Block(t)
             /\ not_full_' = not_full_ /\ thrown' = thrown
    <2>1. count_' = count_ /\ call' = call /\ call[t].op \notin Inserts
      BY <1>7, BufferUnchanged DEF Block, WaitUntilNotEmpty, Inside, Inserts
    <2>2. \A u \in Threads \ {t} : pc'[u] = pc[u]
      BY <1>7 DEF Block, ThreadsTyped
    <2>3. Underway' = Underway /\ Blocked' = Blocked
      BY <1>7, <2>1, <2>2 DEF Underway, Blocked
    <2> QED
      BY <1>7, <2>1, <2>3 DEF NoLostWakeup
  <1>8. CASE WaitUntilNotEmpty(t)
    BY <1>1, <1>7, <1>8 DEF WaitUntilNotEmpty, Inside, Inserts
  <1>9. CASE Access(t) \/ Query(t)
    BY <1>1, <1>9 DEF Access, Query, Inside, ReturnElement, Inserts
  <1> QED
    BY <1>2, <1>3, <1>4, <1>5, <1>6, <1>8, <1>9, <1>10 DEF Critical

LEMMA WakeupStep ==
  ASSUME WrapperInv, NobodyAwaitsRoom, NoLostWakeup, [Next]_vars
  PROVE  NoLostWakeup'
  <1>0. ThreadsTyped /\ BufferInv /\ ControlInv
    BY WrapperInvTypes
  (* Steps that leave the buffer alone, and in which no insertion ceases   *)
  (* to be under way or starts to be blocked.                              *)
  <1>1. ASSUME UNCHANGED rbVars, thrown' = thrown, Underway \subseteq Underway', Blocked' \subseteq Blocked
        PROVE  NoLostWakeup'
    <2>1. Cardinality(Underway) <= Cardinality(Underway')
      BY <1>1, UnderwayFinite, FS_Subset
    <2>2. count_' = count_ /\ count_ \in Nat /\ thrown \in Nat
      BY <1>0, <1>1, BufferTyped, BufferUnchanged, CapacityAssumption DEF ThreadsTyped
    <2> QED
      BY <1>1, <2>1, <2>2, UnderwayFinite, CapacityAssumption DEF NoLostWakeup
  <1>2. ASSUME NEW t \in Threads, NEW op \in Calls[t], NEW arg \in Args(op),
               Call(t, op, arg)
        PROVE  NoLostWakeup'
    <2>1. t \notin Underway /\ t \notin not_full_
      BY <1>0, <1>2 DEF Call, Underway, ControlInv
    <2>2. \A u \in Threads \ {t} : pc'[u] = pc[u] /\ call'[u] = call[u]
      BY <1>0, <1>2 DEF Call, ThreadsTyped
    <2>3. Underway \subseteq Underway'
      BY <2>1, <2>2 DEF Underway
    <2>4. Blocked' \subseteq Blocked
      BY <1>0, <1>2, <2>1, <2>2 DEF Blocked, Call, ThreadsTyped
    <2> QED
      BY <1>1, <1>2, <2>3, <2>4 DEF Call
  <1>3. ASSUME NEW t \in Threads, Lock(t)
        PROVE  NoLostWakeup'
    <2>1. \A u \in Threads : pc'[u] = IF u = t THEN "owner" ELSE pc[u]
      BY <1>0, <1>3 DEF Lock, ThreadsTyped
    <2>2. Underway \subseteq Underway' /\ Blocked' \subseteq Blocked
      BY <1>3, <2>1 DEF Underway, Blocked, Lock
    <2> QED
      BY <1>1, <1>3, <2>2 DEF Lock
  <1>4. ASSUME NEW t \in Threads, Timeout(t) \/ SpuriousWakeup(t)
        PROVE  NoLostWakeup'
    <2>0. LeaveWait(t)
      BY <1>4 DEF Timeout, SpuriousWakeup
    <2>1. \A u \in Threads : pc'[u] = IF u = t THEN "relock" ELSE pc[u]
      BY <1>0, <2>0 DEF LeaveWait, ThreadsTyped
    <2>2. Underway \subseteq Underway' /\ Blocked' \subseteq Blocked
      BY <2>0, <2>1 DEF Underway, Blocked, LeaveWait
    <2> QED
      BY <1>1, <2>0, <2>2 DEF LeaveWait
  <1>5. CASE UNCHANGED vars
    BY <1>5 DEF vars, NoLostWakeup, Blocked, Underway
  <1> QED
    BY <1>0, <1>2, <1>3, <1>4, <1>5, CriticalWakeup DEF Next

(* For every capacity and any finite number of threads: as long as none of *)
(* them calls wait_until_not_full, while an insertion is blocked the       *)
(* insertions under way are at least as many as the free slots, but for    *)
(* one slot for each blocking insertion in which T has thrown since the    *)
(* last went to sleep.  So one notify_one for each removal is enough       *)
(* unless T throws.                                                        *)
THEOREM WrapperNoLostWakeup ==
  ASSUME NobodyAwaitsRoom
  PROVE  Spec => []NoLostWakeup
  <1>1. Init => NoLostWakeup
    BY DEF Init, NoLostWakeup, Blocked
  <1>2. WrapperInv /\ NoLostWakeup /\ [Next]_vars => NoLostWakeup'
    BY WakeupStep
  <1> QED
    BY <1>1, <1>2, WrapperInvariant, PTL DEF Spec

(* Under the same condition push_back's comment is right as long as no     *)
(* blocking insertion has thrown since one last went to sleep: when every  *)
(* thread is outside the wrapper or in a wait, an insertion is blocked     *)
(* only by a full buffer.                                                  *)
THEOREM WrapperWaitsOnlyForSpace ==
  ASSUME NobodyAwaitsRoom
  PROVE  Spec => [](thrown = 0 => WaitsOnlyForSpace)
  <1>1. WrapperInv /\ NoLostWakeup => (thrown = 0 => WaitsOnlyForSpace)
    <2> SUFFICES ASSUME WrapperInv, NoLostWakeup, thrown = 0, Blocked # {},
                        \A t \in Threads : pc[t] \in {"idle", "waiting"}
                 PROVE  full_
      BY DEF WaitsOnlyForSpace
    <2>1. Underway = {}
      BY DEF Underway
    <2>2. Cardinality(Underway) = 0
      BY <2>1, FS_EmptySet
    <2>3. count_ \in 0 .. Capacity /\ (full_ <=> count_ = Capacity)
      BY BufferTyped DEF WrapperInv
    <2> QED
      BY <2>2, <2>3, CapacityAssumption DEF NoLostWakeup
  <1> QED
    BY <1>1, WrapperInvariant, WrapperNoLostWakeup, PTL
=============================================================================
