------------------------ MODULE TimedTransfersProofs ------------------------
(***************************************************************************)
(* What holds of TimedTransfers however its unlocked bodies interleave,    *)
(* and what one body does that has the buffer to itself, for every         *)
(* capacity, every size of size_t and any finite set of threads.           *)
(***************************************************************************)
EXTENDS TimedTransfers, FiniteSetTheorems, TLAPS

-----------------------------------------------------------------------------
(* The types of the transfers.                                             *)

(* The index that is written back lies in the storage, and what is read    *)
(* of head_ or tail_ fits a size_t.                                        *)
LEMMA IndexRanges ==
  /\ Capacity \in Nat \ {0} /\ SizeMax \in Nat /\ 0 \in size_t /\ 0 \in Slots
  /\ \A s \in Slots : s \in size_t
  /\ \A r \in size_t : (r + 1) % Capacity \in Slots
  /\ \A r \in size_t : /\ (r + 1) % (SizeMax + 1) \in size_t
                       /\ (r - 1) % (SizeMax + 1) \in size_t
  <1>1. Capacity \in Nat \ {0} /\ SizeMax \in Nat /\ Capacity <= SizeMax
    BY CapacityAssumption, TransferAssumption
  <1>2. ASSUME NEW r \in size_t PROVE (r + 1) % Capacity \in Slots
    BY <1>1 DEF size_t, Slots
  <1>3. ASSUME NEW r \in size_t
        PROVE  /\ (r + 1) % (SizeMax + 1) \in size_t
               /\ (r - 1) % (SizeMax + 1) \in size_t
    BY <1>1 DEF size_t
  <1> QED
    BY <1>1, <1>2, <1>3 DEF size_t, Slots

(* A step of a body or of a call, as it changes what belongs to a thread.  *)
LEMMA ReturnTypes ==
  ASSUME TypeOK, NEW t \in Threads, NEW woken, Return(t, woken)
  PROVE  TypeOK'
  <1>1. NoCall \in [op : Inserts \cup Removals \cup {"none"}, item : Cells]
    BY DEF NoCall, Cells
  <1>2. pc' \in [Threads -> Labels]
    BY DEF TypeOK, Return, Labels
  <1>3. call' \in [Threads -> [op : Inserts \cup Removals \cup {"none"}, item : Cells]]
    BY <1>1 DEF TypeOK, Return
  <1>4. expired' \in [Threads -> BOOLEAN] /\ reg' \in [Threads -> size_t]
    BY IndexRanges DEF TypeOK, Return
  <1>5. mutex_' \in Threads \cup {Nobody}
    BY DEF TypeOK, Return
  <1> QED
    BY <1>2, <1>3, <1>4, <1>5 DEF TypeOK, Return, rbVars

LEMMA GoTypes ==
  ASSUME TypeOK, NEW t \in Threads, NEW from, NEW to \in Labels, Go(t, from, to)
  PROVE  pc' \in [Threads -> Labels]
  BY DEF TypeOK, Go

LEMMA CallTypes ==
  ASSUME TypeOK, NEW t \in Threads, NEW op \in Inserts \cup Removals,
         NEW item \in Cells, Call(t, op, item)
  PROVE  TypeOK'
  <1>1. pc' \in [Threads -> Labels]
    BY GoTypes DEF Call, Labels
  <1>2. call' \in [Threads -> [op : Inserts \cup Removals \cup {"none"}, item : Cells]]
    BY DEF TypeOK, Call
  <1> QED
    BY <1>1, <1>2 DEF TypeOK, Call, rbVars

LEMMA LockTypes ==
  ASSUME TypeOK, NEW t \in Threads, Lock(t) \/ Timeout(t) \/ SpuriousWakeup(t)
  PROVE  TypeOK'
  <1>1. pc' \in [Threads -> Labels]
    <2>1. "test" \in Labels /\ "lock" \in Labels
      BY DEF Labels
    <2> QED
      BY <2>1, GoTypes DEF Lock, Timeout, SpuriousWakeup, LeaveWait
  <1>2. CASE Lock(t)
    BY <1>1, <1>2 DEF TypeOK, Lock, rbVars
  <1>3. CASE Timeout(t) \/ SpuriousWakeup(t)
    BY <1>1, <1>3 DEF TypeOK, Timeout, SpuriousWakeup, LeaveWait, rbVars
  <1> QED
    BY <1>2, <1>3

LEMMA WaitTypes ==
  ASSUME TypeOK, NEW t \in Threads, Test(t) \/ Block(t) \/ Unlock(t)
  PROVE  TypeOK'
  <1>0. {"unlock", "push", "pop", "block", "waiting"} \subseteq Labels
    BY DEF Labels
  <1>1. CASE Return(t, {})
    BY <1>1, ReturnTypes
  <1>2. CASE Block(t)
    <2>1. pc' \in [Threads -> Labels]
      BY <1>0, <1>2, GoTypes DEF Block
    <2> QED
      BY <1>2, <2>1 DEF TypeOK, Block, rbVars
  <1>3. CASE Unlock(t)
    <2>1. pc' \in [Threads -> Labels]
      BY <1>0, <1>3, GoTypes DEF Unlock
    <2> QED
      BY <1>3, <2>1 DEF TypeOK, Unlock, rbVars
  <1>4. CASE Test(t) /\ ~Return(t, {})
    <2>1. pc' \in [Threads -> Labels]
      BY <1>0, <1>4, GoTypes DEF Test
    <2> QED
      BY <1>4, <2>1 DEF TypeOK, Test, rbVars
  <1> QED
    BY <1>1, <1>2, <1>3, <1>4

(* A statement changes one member, to a value of its type.                 *)
LEMMA StatementTypes ==
  ASSUME TypeOK, NEW changed,
         pc' \in [Threads -> Labels], reg' \in [Threads -> size_t],
         Others(changed),
         changed \in {"none", "buffer_", "head_", "tail_", "count_", "full_",
                      "just_overwrote_", "overwrite_position_", "call"},
         changed = "buffer_" => buffer_' \in [Slots -> Cells],
         changed = "head_" => head_' \in Slots,
         changed = "tail_" => tail_' \in Slots,
         changed = "count_" => count_' \in size_t,
         changed = "full_" => full_' \in BOOLEAN,
         changed = "just_overwrote_" => just_overwrote_' \in BOOLEAN,
         changed = "overwrite_position_" => overwrite_position_' \in Slots,
         changed = "call" => call' \in
           [Threads -> [op : Inserts \cup Removals \cup {"none"}, item : Cells]]
  PROVE  TypeOK'
  <1>1. /\ buffer_' \in [Slots -> Cells] /\ head_' \in Slots /\ tail_' \in Slots
        /\ overwrite_position_' \in Slots
    BY DEF TypeOK, Others
  <1>2. count_' \in size_t /\ full_' \in BOOLEAN /\ just_overwrote_' \in BOOLEAN
    BY DEF TypeOK, Others
  <1>3. call' \in [Threads -> [op : Inserts \cup Removals \cup {"none"}, item : Cells]]
    BY DEF TypeOK, Others
  <1> QED
    BY <1>1, <1>2, <1>3 DEF TypeOK, Others

(* The three forms of a statement: it tests or writes, it reads into reg,  *)
(* it writes back.                                                         *)
LEMMA StatementRegisters ==
  ASSUME TypeOK, NEW t \in Threads
  PROVE  /\ \A c : Only(c) => reg' \in [Threads -> size_t] /\ Others(c)
         /\ \A m \in size_t :
              Read(t, m) => reg' \in [Threads -> size_t] /\ Others("none")
         /\ \A c : WriteBack(t, c) => reg' \in [Threads -> size_t] /\ Others(c)
  BY IndexRanges DEF TypeOK, Only, Read, WriteBack

LEMMA BodyTypes ==
  ASSUME TypeOK, NEW t \in Threads, Push(t) \/ Pop(t) \/ Unmark(t)
  PROVE  TypeOK'
  <1>0. /\ buffer_ \in [Slots -> Cells] /\ head_ \in Slots /\ tail_ \in Slots
        /\ head_ \in size_t /\ tail_ \in size_t /\ count_ \in size_t
        /\ call[t].item \in Cells /\ reg[t] \in size_t /\ NextIndex(t) \in Slots
        /\ Raw \in Cells /\ buffer_[head_] \in Cells
    BY IndexRanges DEF TypeOK, NextIndex, Cells
  <1>1. pc' \in [Threads -> Labels]
    <2>1. \E from, to \in Labels : Go(t, from, to)
      <3>1. {"push", "assign", "construct", "remember", "advance", "advanced", "mark",
             "notify", "tail", "tailed", "count", "unmark", "increment", "counted",
             "compare", "pop", "move", "threw", "destroy", "head", "headed",
             "unfull", "uncount", "decrement", "uncounted"} \subseteq Labels
        BY DEF Labels
      <3>2. CASE Push(t)
        BY <3>1, <3>2 DEF Push
      <3>3. CASE Pop(t)
        BY <3>1, <3>3 DEF Pop
      <3>4. CASE Unmark(t)
        BY <3>1, <3>4 DEF Unmark
      <3> QED
        BY <3>2, <3>3, <3>4
    <2> QED
      BY <2>1, GoTypes
  <1>2. ASSUME Only("none") PROVE TypeOK'
    BY <1>1, <1>2, StatementRegisters, StatementTypes
  <1>3. ASSUME NEW m \in size_t, Read(t, m) PROVE TypeOK'
    BY <1>1, <1>3, StatementRegisters, StatementTypes
  <1>4. ASSUME NEW s \in Slots, NEW c \in Cells, Write(s, c) PROVE TypeOK'
    <2>1. buffer_' \in [Slots -> Cells]
      BY <1>0, <1>4 DEF Write
    <2> QED
      BY <1>1, <1>4, <2>1, StatementRegisters, StatementTypes DEF Write
  <1>5. ASSUME head_' = NextIndex(t), WriteBack(t, "head_") PROVE TypeOK'
    BY <1>0, <1>1, <1>5, StatementRegisters, StatementTypes
  <1>6. ASSUME tail_' = NextIndex(t), WriteBack(t, "tail_") PROVE TypeOK'
    BY <1>0, <1>1, <1>6, StatementRegisters, StatementTypes
  <1>7. ASSUME \/ count_' = (reg[t] + 1) % (SizeMax + 1)
               \/ count_' = (reg[t] - 1) % (SizeMax + 1),
               WriteBack(t, "count_")
        PROVE  TypeOK'
    <2>1. count_' \in size_t
      BY <1>0, <1>7, IndexRanges
    <2> QED
      BY <1>1, <1>7, <2>1, StatementRegisters, StatementTypes
  <1>8. ASSUME full_' \in BOOLEAN, Only("full_") PROVE TypeOK'
    BY <1>1, <1>8, StatementRegisters, StatementTypes
  <1>9. ASSUME just_overwrote_' \in BOOLEAN, Only("just_overwrote_") PROVE TypeOK'
    BY <1>1, <1>9, StatementRegisters, StatementTypes
  <1>10. ASSUME overwrite_position_' = head_, Only("overwrite_position_") PROVE TypeOK'
    BY <1>0, <1>1, <1>10, StatementRegisters, StatementTypes
  <1>11. ASSUME call' = [call EXCEPT ![t].item = buffer_[head_]], Only("call")
         PROVE  TypeOK'
    <2>1. call' \in [Threads -> [op : Inserts \cup Removals \cup {"none"}, item : Cells]]
      BY <1>0, <1>11 DEF TypeOK
    <2> QED
      BY <1>1, <1>11, <2>1, StatementRegisters, StatementTypes
  <1>12. CASE Push(t)
    <2>1. (count_ = Capacity) \in BOOLEAN
      OBVIOUS
    <2> QED
      BY <1>0, <1>2, <1>3, <1>4, <1>5, <1>6, <1>7, <1>8, <1>9, <1>10, <1>12, <2>1 DEF Push
  <1>13. CASE Pop(t)
    BY <1>0, <1>2, <1>3, <1>4, <1>5, <1>7, <1>8, <1>11, <1>13 DEF Pop
  <1>14. CASE Unmark(t)
    BY <1>9, <1>14 DEF Unmark
  <1> QED
    BY <1>12, <1>13, <1>14

LEMMA ProceedTypes ==
  ASSUME TypeOK, NEW t \in Threads, Proceed(t)
  PROVE  TypeOK'
  BY WaitTypes, BodyTypes, ReturnTypes DEF Proceed, Notify, Unwind

LEMMA TypesInit == Init => TypeOK
  <1> SUFFICES ASSUME Init PROVE TypeOK
    OBVIOUS
  <1>1. NoCall \in [op : Inserts \cup Removals \cup {"none"}, item : Cells]
        /\ Raw \in Cells /\ "idle" \in Labels
    BY DEF NoCall, Cells, Labels
  <1>2. /\ call \in [Threads -> [op : Inserts \cup Removals \cup {"none"}, item : Cells]]
        /\ pc \in [Threads -> Labels]
    BY <1>1 DEF Init
  <1> QED
    BY <1>1, <1>2, IndexRanges DEF Init, ring_buffer, TypeOK

LEMMA TypesStep == TypeOK /\ [Next]_vars => TypeOK'
  <1> SUFFICES ASSUME TypeOK, [Next]_vars PROVE TypeOK'
    OBVIOUS
  <1>1. ASSUME NEW t \in Threads, NEW op \in Calls[t], NEW item \in Items(op),
               Call(t, op, item)
        PROVE  TypeOK'
    <2>1. op \in Inserts \cup Removals /\ item \in Cells
      BY TransferAssumption DEF Items, Cells
    <2> QED
      BY <1>1, <2>1, CallTypes
  <1>2. CASE UNCHANGED vars
    BY <1>2 DEF vars, TypeOK
  <1> QED
    BY <1>1, <1>2, LockTypes, ProceedTypes DEF Next

(* Whatever unlocked bodies do to one another, for every capacity and size *)
(* of size_t: head_, tail_ and overwrite_position_ never leave the         *)
(* storage, so that no transfer reads or writes outside it.                *)
THEOREM TransfersTypeOK == Spec => []TypeOK
  BY TypesInit, TypesStep, PTL DEF Spec

-----------------------------------------------------------------------------
(* Places.                                                                 *)

(* Who is in a wait set is waiting.                                        *)
WaitInv == \A t \in Threads : t \in not_full_ \cup not_empty_ => pc[t] = "waiting"

(* What a step of a call does to the places the threads are at.            *)
LEMMA ProceedShape ==
  ASSUME NEW t \in Threads, Proceed(t)
  PROVE  \/ /\ pc[t] \in {"test", "notify", "threw"}
            /\ \E woken \in SUBSET (not_full_ \cup not_empty_) : Return(t, woken)
         \/ /\ pc[t] \notin {"idle", "lock", "waiting", "notify", "threw"}
            /\ \E to \in Labels \ {"idle"} : pc' = [pc EXCEPT ![t] = to]
            /\ not_full_' = not_full_ /\ not_empty_' = not_empty_
         \/ pc[t] = "block" /\ Block(t)
  <1>0. Labels \ {"idle"} =
          {"lock", "test", "block", "waiting", "unlock",
           "push", "assign", "remember", "advance", "advanced", "mark",
           "construct", "tail", "tailed", "count", "increment", "counted", "compare",
           "pop", "move", "destroy", "head", "headed", "unfull", "uncount",
           "decrement", "uncounted", "unmark", "notify", "threw"}
    BY DEF Labels
  <1>1. CASE Test(t)
    BY <1>0, <1>1 DEF Test, Go
  <1>2. CASE Block(t)
    BY <1>2 DEF Block, Go
  <1>3. CASE Unlock(t)
    BY <1>0, <1>3 DEF Unlock, Go
  <1>4. CASE Push(t)
    BY <1>0, <1>4 DEF Push, Go, Others, Only, Read, WriteBack, Write
  <1>5. CASE Pop(t)
    BY <1>0, <1>5 DEF Pop, Go, Others, Only, Read, WriteBack, Write
  <1>6. CASE Unmark(t)
    BY <1>0, <1>6 DEF Unmark, Go, Others, Only
  <1>7. CASE Notify(t)
    <2>1. PICK woken \in notify_one(IF IsInsert(t) THEN not_empty_ ELSE not_full_) :
            Return(t, woken)
      BY <1>7 DEF Notify
    <2>2. woken \subseteq not_full_ \cup not_empty_
      BY <2>1 DEF notify_one
    <2> QED
      BY <1>7, <2>1, <2>2 DEF Notify
  <1>8. CASE Unwind(t)
    BY <1>8 DEF Unwind
  <1> QED
    BY <1>1, <1>2, <1>3, <1>4, <1>5, <1>6, <1>7, <1>8 DEF Proceed

(* What the other threads, and an invariant about one of them, may rely on *)
(* while t runs.                                                           *)
LEMMA ProceedPlaces ==
  ASSUME TypeOK, WaitInv, NEW t \in Threads, Proceed(t)
  PROVE  /\ WaitInv'
         /\ pc[t] \notin {"idle", "lock", "waiting"}
         /\ pc[t] \in {"notify", "threw"} => pc'[t] = "idle"
         /\ \A u \in Threads \ {t} : pc'[u] = "idle" <=> pc[u] = "idle"
  <1>1. CASE pc[t] \in {"test", "notify", "threw"}
             /\ \E woken \in SUBSET (not_full_ \cup not_empty_) : Return(t, woken)
    <2>1. PICK woken \in SUBSET (not_full_ \cup not_empty_) : Return(t, woken)
      BY <1>1
    <2>2. /\ \A u \in Threads : pc'[u] = IF u = t THEN "idle"
                                ELSE IF u \in woken THEN "lock" ELSE pc[u]
          /\ not_full_' = not_full_ \ woken /\ not_empty_' = not_empty_ \ woken
      BY <2>1 DEF Return
    <2>3. t \notin not_full_ \cup not_empty_
      BY <1>1 DEF WaitInv
    <2> QED
      BY <1>1, <2>2, <2>3 DEF WaitInv
  <1>2. CASE /\ pc[t] \notin {"idle", "lock", "waiting", "notify", "threw"}
             /\ \E to \in Labels \ {"idle"} : pc' = [pc EXCEPT ![t] = to]
             /\ not_full_' = not_full_ /\ not_empty_' = not_empty_
    <2>1. \A u \in Threads \ {t} : pc'[u] = pc[u]
      BY <1>2 DEF TypeOK
    <2>2. t \notin not_full_ \cup not_empty_
      BY <1>2 DEF WaitInv
    <2> QED
      BY <1>2, <2>1, <2>2 DEF WaitInv
  <1>3. CASE pc[t] = "block" /\ Block(t)
    <2>1. \A u \in Threads : pc'[u] = IF u = t THEN "waiting" ELSE pc[u]
      BY <1>3 DEF TypeOK, Block, Go
    <2>2. /\ not_full_' \subseteq not_full_ \cup {t}
          /\ not_empty_' \subseteq not_empty_ \cup {t}
      BY <1>3 DEF Block
    <2> QED
      BY <1>3, <2>1, <2>2 DEF WaitInv
  <1> QED
    BY <1>1, <1>2, <1>3, ProceedShape


-----------------------------------------------------------------------------
(* A body that has the buffer to itself.                                   *)
(*                                                                         *)
(* The elements change at one statement of a body, the construction or the *)
(* destruction; until the last of the bookkeeping that follows, head_,     *)
(* tail_ and count_ are behind.  Front, Behind and Held are what they are  *)
(* going to be, from the label of the body; "idle" stands for no body.     *)

Client == INSTANCE RingBufferClientProofs WITH lag <- 0, out <- <<>>

(* Labels at which count_ lacks the new element, or still has the old one. *)
Appended == {"tail", "tailed", "count", "increment", "counted"}

Removed == {"head", "headed", "unfull", "uncount", "decrement", "uncounted"}

Front(label, head) ==
  IF label \in {"head", "headed"} THEN (head + 1) % Capacity ELSE head

Behind(label, tail) ==
  IF label \in {"tail", "tailed"} THEN (tail + 1) % Capacity ELSE tail

Held(label, count) ==
  IF label \in Appended THEN count + 1
  ELSE IF label \in Removed THEN count - 1 ELSE count

(* The elements.                                                           *)
Queue(label, buffer, head, count) ==
  Client!Elements(buffer, Front(label, head), Held(label, count))

(* Where full_ does not yet say, or no longer says, what count_ says.      *)
FullStale == {"compare", "uncount", "decrement", "uncounted"}

(* The live slots are those of the elements, the next one is behind them.  *)
Sound(label, buffer, head, tail, count, full) ==
  /\ count \in 0 .. Capacity /\ Held(label, count) \in 0 .. Capacity
  /\ \A s \in Slots : buffer[s] # Raw
       <=> s \in Client!SlotsOf(Front(label, head), Held(label, count))
  /\ Behind(label, tail) = Client!SlotOf(Front(label, head), Held(label, count))
  /\ full <=> count = Capacity /\ label \notin FullStale

SoundAt(label) == Sound(label, buffer_, head_, tail_, count_, full_)

Inserting == {"push", "construct", "compare"} \cup Appended

Removing == {"pop", "move", "destroy"} \cup Removed

(* Where the body of t may be, what its test found still holds, and what   *)
(* it has read is what it is going to overwrite.                           *)
InPlace(t) ==
  /\ pc[t] \in {"unlock", "unmark", "notify"}
                 \cup (IF IsInsert(t) THEN Inserting ELSE Removing)
  /\ pc[t] \in {"unlock", "push", "construct"} /\ IsInsert(t) => count_ < Capacity
  /\ pc[t] \in {"unlock", "pop", "move", "destroy"} /\ ~IsInsert(t) => count_ > 0
  /\ pc[t] = "destroy" => call[t].item = buffer_[head_]
  /\ pc[t] = "tailed" => reg[t] = tail_
  /\ pc[t] = "headed" => reg[t] = head_
  /\ pc[t] \in {"counted", "uncounted"} => reg[t] = count_

Alone(t) == SoundAt(pc[t]) /\ InPlace(t)

(* A statement that leaves the elements where they are.                    *)
Bookkeeping(t) ==
  /\ buffer_' = buffer_
  /\ Front(pc'[t], head_') = Front(pc[t], head_)
  /\ Behind(pc'[t], tail_') = Behind(pc[t], tail_)
  /\ Held(pc'[t], count_') = Held(pc[t], count_)

-----------------------------------------------------------------------------
(* The slots of a run of elements, from RingBufferClientProofs.            *)

LEMMA StorageIsClients == Client!Slots = Slots /\ Client!Cells = Cells
  BY DEF Client!Slots, Slots, Client!Cells, Cells

LEMMA SlotOfTyped ==
  ASSUME NEW h \in Slots, NEW i \in 0 .. Capacity
  PROVE  Client!SlotOf(h, i) \in Slots
  BY Client!SlotOfValue, StorageIsClients, CapacityAssumption, RawAssumption

(* The slot behind the elements when one is added at the end, and when one *)
(* is taken off at the front.                                              *)
LEMMA SlotBehind ==
  ASSUME NEW h \in Slots, NEW n \in 0 .. Capacity - 1
  PROVE  /\ Client!SlotOf(h, n + 1) = (Client!SlotOf(h, n) + 1) % Capacity
         /\ Client!SlotOf((h + 1) % Capacity, n) = Client!SlotOf(h, n + 1)
  <1>1. n \in 0 .. Capacity /\ n + 1 \in 0 .. Capacity
    BY CapacityAssumption
  <1>2. /\ Client!SlotOf(h, n)
             = IF h + n < Capacity THEN h + n ELSE h + n - Capacity
        /\ Client!SlotOf(h, n + 1)
             = IF h + (n + 1) < Capacity THEN h + (n + 1) ELSE h + (n + 1) - Capacity
    BY <1>1, Client!SlotOfValue, StorageIsClients, CapacityAssumption, RawAssumption
  <1>3. (Client!SlotOf(h, n) + 1) % Capacity
          = IF Client!SlotOf(h, n) + 1 = Capacity THEN 0 ELSE Client!SlotOf(h, n) + 1
    <2>1. Client!SlotOf(h, n) \in Slots
      BY <1>1, SlotOfTyped
    <2> QED
      BY <2>1, Client!Step, StorageIsClients, CapacityAssumption, RawAssumption
  <1>4. Client!SlotOf(h, n + 1) = (Client!SlotOf(h, n) + 1) % Capacity
    BY <1>2, <1>3, CapacityAssumption DEF Slots
  <1>5. Client!SlotOf((h + 1) % Capacity, n) = Client!SlotOf(h, n + 1)
    <2>1. /\ (h + 1) % Capacity \in Slots
          /\ (h + 1) % Capacity = IF h + 1 = Capacity THEN 0 ELSE h + 1
      BY Client!Step, StorageIsClients, CapacityAssumption, RawAssumption
    <2> DEFINE g == (h + 1) % Capacity
    <2>2. g \in Slots /\ g = IF h + 1 = Capacity THEN 0 ELSE h + 1
      BY <2>1
    <2> HIDE DEF g
    <2>3. Client!SlotOf(g, n) = IF g + n < Capacity THEN g + n ELSE g + n - Capacity
      BY <1>1, <2>2, Client!SlotOfValue, StorageIsClients, CapacityAssumption, RawAssumption
    <2>4. Client!SlotOf(g, n) = Client!SlotOf(h, n + 1)
      BY <1>2, <2>2, <2>3, CapacityAssumption DEF Slots
    <2> QED
      BY <2>4 DEF g
  <1> QED
    BY <1>4, <1>5

LEMMA SlotsLonger ==
  ASSUME NEW h \in Slots, NEW n \in 0 .. Capacity - 1, NEW s \in Slots
  PROVE  /\ s \in Client!SlotsOf(h, n + 1)
              <=> s \in Client!SlotsOf(h, n) \/ s = Client!SlotOf(h, n)
         /\ Client!SlotOf(h, n) \notin Client!SlotsOf(h, n)
  BY Client!LongerWindow, StorageIsClients, CapacityAssumption, RawAssumption

LEMMA SlotsShorter ==
  ASSUME NEW h \in Slots, NEW n \in 1 .. Capacity, NEW s \in Slots
  PROVE  s \in Client!SlotsOf((h + 1) % Capacity, n - 1)
           <=> s \in Client!SlotsOf(h, n) /\ s # h
  BY Client!ShorterWindow, StorageIsClients, CapacityAssumption, RawAssumption

-----------------------------------------------------------------------------
(* The three kinds of statements, on the values of the members.            *)

(* Without the first element, whatever its slot now holds.                 *)
LEMMA ElementsShorter ==
  ASSUME NEW b \in [Slots -> Cells], NEW c \in [Slots -> Cells],
         NEW h \in Slots, NEW n \in 1 .. Capacity,
         \A s \in Slots : s # h => c[s] = b[s]
  PROVE  /\ Client!Elements(c, (h + 1) % Capacity, n - 1) = Tail(Client!Elements(b, h, n))
         /\ Head(Client!Elements(b, h, n)) = b[h]
         /\ Client!Elements(b, h, n) # <<>>
  <1>1. /\ b \in [Client!Slots -> Client!Cells] /\ c \in [Client!Slots -> Client!Cells]
        /\ h \in Client!Slots
        /\ \A s \in Client!Slots : s # h => c[s] = b[s]
    BY StorageIsClients
  <1> QED
    BY <1>1, Client!ElementsTail, CapacityAssumption, RawAssumption, ZenonT(30)

LEMMA LabelsDiffer ==
  /\ Appended \cap Removed = {} /\ FullStale \cap Appended = {}
  /\ {"idle", "unlock", "push", "construct", "compare", "pop", "move", "destroy",
      "unmark", "notify"} \cap (Appended \cup Removed) = {}
  BY DEF Appended, Removed, FullStale

(* Bookkeeping leaves the elements in place.                               *)
LEMMA SoundCarries ==
  ASSUME NEW l, NEW m, NEW b, NEW h, NEW tl, NEW n, NEW f,
         NEW h2, NEW tl2, NEW n2, NEW f2,
         Sound(l, b, h, tl, n, f),
         Front(m, h2) = Front(l, h), Behind(m, tl2) = Behind(l, tl),
         Held(m, n2) = Held(l, n),
         n2 \in 0 .. Capacity, f2 <=> n2 = Capacity /\ m \notin FullStale
  PROVE  Sound(m, b, h2, tl2, n2, f2)
  BY DEF Sound

(* The construction of an element in the slot behind the others.           *)
LEMMA SoundAppends ==
  ASSUME NEW b \in [Slots -> Cells], NEW h \in Slots, NEW tl \in Slots,
         NEW n \in 0 .. Capacity - 1, NEW f, NEW v \in Values,
         NEW c \in [Slots -> Cells],
         \A s \in Slots : c[s] = IF s = tl THEN v ELSE b[s],
         Sound("construct", b, h, tl, n, f)
  PROVE  /\ Sound("tail", c, h, tl, n, f)
         /\ b[tl] = Raw
         /\ Queue("tail", c, h, n)
              = Append(Queue("construct", b, h, n), v)
  <1>1. /\ Front("construct", h) = h /\ Front("tail", h) = h
        /\ Behind("construct", tl) = tl /\ Behind("tail", tl) = (tl + 1) % Capacity
        /\ Held("construct", n) = n /\ Held("tail", n) = n + 1
    BY DEF Front, Behind, Held, Appended, Removed
  <1>2. /\ \A s \in Slots : b[s] # Raw <=> s \in Client!SlotsOf(h, n)
        /\ tl = Client!SlotOf(h, n)
        /\ f <=> n = Capacity
    BY <1>1 DEF Sound, FullStale
  <1>3. \A s \in Slots : s \in Client!SlotsOf(h, n + 1)
                           <=> s \in Client!SlotsOf(h, n) \/ s = tl
    BY <1>2, SlotsLonger
  <1>4. b[tl] = Raw
    BY <1>2, SlotsLonger
  <1>5. v # Raw
    BY RawAssumption
  <1>6. \A s \in Slots : c[s] # Raw <=> s \in Client!SlotsOf(h, n + 1)
    BY <1>2, <1>3, <1>5
  <1>7. (tl + 1) % Capacity = Client!SlotOf(h, n + 1)
    BY <1>2, SlotBehind
  <1>8. n + 1 \in 0 .. Capacity
    BY CapacityAssumption
  <1>9. Sound("tail", c, h, tl, n, f)
    BY <1>1, <1>2, <1>6, <1>7, <1>8 DEF Sound, FullStale
  <1>10. Client!Elements(c, h, n + 1) = Append(Client!Elements(b, h, n), v)
    <2>1. v \in Cells
      BY DEF Cells
    <2> QED
      BY <1>2, <2>1, Client!ElementsAppend, StorageIsClients,
         CapacityAssumption, RawAssumption
  <1> QED
    BY <1>1, <1>4, <1>9, <1>10 DEF Queue

(* The destruction of the front element.                                   *)
LEMMA SoundRemoves ==
  ASSUME NEW b \in [Slots -> Cells], NEW h \in Slots, NEW tl \in Slots,
         NEW n \in 1 .. Capacity, NEW f,
         Sound("destroy", b, h, tl, n, f)
  PROVE  /\ Sound("head", [b EXCEPT ![h] = Raw], h, tl, n, f)
         /\ b[h] # Raw
         /\ Queue("destroy", b, h, n) # <<>>
         /\ b[h] = Head(Queue("destroy", b, h, n))
         /\ Queue("head", [b EXCEPT ![h] = Raw], h, n)
              = Tail(Queue("destroy", b, h, n))
  <1> DEFINE c == [b EXCEPT ![h] = Raw]
             g == (h + 1) % Capacity
  <1>1. /\ Front("destroy", h) = h /\ Front("head", h) = g
        /\ Behind("destroy", tl) = tl /\ Behind("head", tl) = tl
        /\ Held("destroy", n) = n /\ Held("head", n) = n - 1
    BY DEF Front, Behind, Held, Appended, Removed
  <1>2. /\ \A s \in Slots : b[s] # Raw <=> s \in Client!SlotsOf(h, n)
        /\ tl = Client!SlotOf(h, n)
        /\ f <=> n = Capacity
    BY <1>1 DEF Sound, FullStale
  <1>3. \A s \in Slots : s \in Client!SlotsOf(g, n - 1)
                           <=> s \in Client!SlotsOf(h, n) /\ s # h
    BY SlotsShorter
  <1>4. n - 1 \in 0 .. Capacity - 1 /\ n - 1 \in 0 .. Capacity /\ (n - 1) + 1 = n
    BY CapacityAssumption
  <1>5. b[h] # Raw
    <2>1. h = Client!SlotOf(h, 0)
      BY Client!SlotOfValue, StorageIsClients, CapacityAssumption, RawAssumption DEF Slots
    <2>2. h \in Client!SlotsOf(h, n)
      BY <2>1 DEF Client!SlotsOf
    <2> QED
      BY <1>2, <2>2
  <1>6. c \in [Slots -> Cells] /\ \A s \in Slots : c[s] = IF s = h THEN Raw ELSE b[s]
    BY DEF Cells
  <1>7. tl = Client!SlotOf(g, n - 1)
    BY <1>2, <1>4, SlotBehind
  <1> HIDE DEF c
  <1>8. /\ Client!Elements(c, g, n - 1) = Tail(Client!Elements(b, h, n))
        /\ Head(Client!Elements(b, h, n)) = b[h]
        /\ Client!Elements(b, h, n) # <<>>
    <2>1. \A s \in Slots : s # h => c[s] = b[s]
      BY <1>6
    <2> QED
      BY <1>6, <2>1, ElementsShorter DEF g
  <1> HIDE DEF g
  <1>9. \A s \in Slots : c[s] # Raw <=> s \in Client!SlotsOf(g, n - 1)
    BY <1>2, <1>3, <1>6
  <1>10. Sound("head", c, h, tl, n, f)
    BY <1>1, <1>2, <1>4, <1>7, <1>9 DEF Sound, FullStale
  <1> QED
    BY <1>1, <1>5, <1>8, <1>10 DEF Queue, c

(* The number of elements is the number of live slots.                     *)
LEMMA SlotsCounted ==
  ASSUME NEW h \in Slots, NEW n \in 0 .. Capacity
  PROVE  Cardinality(Client!SlotsOf(h, n)) = n
  <1> DEFINE slot == [i \in 1 .. n |-> Client!SlotOf(h, i - 1)]
  <1>1. \A i \in 1 .. n : i - 1 \in 0 .. n - 1 /\ i - 1 \in 0 .. Capacity - 1
    BY CapacityAssumption
  <1>2. slot \in [1 .. n -> Client!SlotsOf(h, n)]
    BY <1>1 DEF Client!SlotsOf
  <1>3. \A i, j \in 1 .. n : slot[i] = slot[j] => i = j
    <2>1. \A i \in 1 .. n : Client!Distance(h, slot[i]) = i - 1
      BY <1>1, Client!DistanceInverse, StorageIsClients, CapacityAssumption, RawAssumption
    <2> HIDE DEF slot
    <2> QED
      BY <2>1
  <1>4. \A s \in Client!SlotsOf(h, n) : \E i \in 1 .. n : slot[i] = s
    <2> SUFFICES ASSUME NEW s \in Client!SlotsOf(h, n)
                 PROVE  \E i \in 1 .. n : slot[i] = s
      OBVIOUS
    <2>1. PICK j \in 0 .. n - 1 : s = Client!SlotOf(h, j)
      BY DEF Client!SlotsOf
    <2>2. j + 1 \in 1 .. n /\ (j + 1) - 1 = j
      OBVIOUS
    <2> QED
      BY <2>1, <2>2
  <1> HIDE DEF slot
  <1>5. slot \in Bijection(1 .. n, Client!SlotsOf(h, n))
    BY <1>2, <1>3, <1>4 DEF Bijection, Injection, Surjection, IsInjective
  <1>6. n \in Nat
    OBVIOUS
  <1> QED
    BY <1>5, <1>6, FS_CountingElements DEF ExistsBijection

LEMMA SoundCounts ==
  ASSUME NEW l, NEW b, NEW h \in Slots, NEW tl, NEW n \in Int, NEW f,
         Sound(l, b, h, tl, n, f)
  PROVE  Cardinality({s \in Slots : b[s] # Raw}) = Held(l, n)
  <1>1. Front(l, h) \in Slots
    BY Client!Step, StorageIsClients, CapacityAssumption, RawAssumption DEF Front
  <1> DEFINE g == Front(l, h)
             k == Held(l, n)
  <1>2. g \in Slots /\ k \in 0 .. Capacity
        /\ \A s \in Slots : b[s] # Raw <=> s \in Client!SlotsOf(g, k)
    BY <1>1 DEF Sound
  <1> HIDE DEF g, k
  <1>3. Client!SlotsOf(g, k) \subseteq Slots
    BY <1>2, Client!WindowInStorage, StorageIsClients, CapacityAssumption, RawAssumption
  <1>4. {s \in Slots : b[s] # Raw} = Client!SlotsOf(g, k)
    BY <1>2, <1>3
  <1> QED
    BY <1>2, <1>4, SlotsCounted DEF k

-----------------------------------------------------------------------------
(* The statements of a body that has the buffer to itself.                 *)

InBody(label) ==
  label \notin {"idle", "lock", "test", "block", "waiting", "notify", "threw"}

(* What a statement leaves alone.                                          *)
LEMMA BodyFrame ==
  ASSUME TypeOK, NEW t \in Threads, Proceed(t), InBody(pc[t])
  PROVE  /\ Push(t) \/ Pop(t) \/ Unmark(t) \/ Unlock(t)
         /\ \E to \in Labels : pc' = [pc EXCEPT ![t] = to]
         /\ \A u \in Threads \ {t} :
              pc'[u] = pc[u] /\ call'[u] = call[u] /\ reg'[u] = reg[u]
         /\ call'[t].op = call[t].op
         /\ pc[t] # "move" => call' = call
         /\ mutex_' = IF pc[t] = "unlock" THEN Nobody ELSE mutex_
         /\ UNCHANGED <<not_full_, not_empty_, expired>>
  <1>1. Push(t) \/ Pop(t) \/ Unmark(t) \/ Unlock(t)
    BY DEF Proceed, Test, Block, Notify, Unwind, Go, InBody
  <1>2. ASSUME NEW u \in Threads, pc[t] # "move", call' = call
        PROVE  call'[u] = call[u]
    BY <1>2
  <1>3. CASE Push(t)
    BY <1>1, <1>3 DEF Push, Go, Write, Read, WriteBack, Only, Others, TypeOK, Labels
  <1>4. CASE Pop(t)
    BY <1>1, <1>4 DEF Pop, Go, Write, Read, WriteBack, Only, Others, TypeOK, Labels
  <1>5. CASE Unmark(t)
    BY <1>1, <1>5 DEF Unmark, Go, Only, Others, TypeOK, Labels
  <1>6. CASE Unlock(t)
    BY <1>1, <1>6 DEF Unlock, Go, TypeOK, Labels
  <1> QED
    BY <1>1, <1>3, <1>4, <1>5, <1>6

LEMMA BookkeepingSound ==
  ASSUME NEW t \in Threads, Alone(t), Bookkeeping(t),
         count_' \in 0 .. Capacity,
         full_' <=> count_' = Capacity /\ pc'[t] \notin FullStale,
         InPlace(t)'
  PROVE  Alone(t)'
  BY SoundCarries DEF Alone, SoundAt, Bookkeeping

(* Where t is, in numbers.                                                 *)
LEMMA AloneFacts ==
  ASSUME TypeOK, NEW t \in Threads, Alone(t)
  PROVE  /\ buffer_ \in [Slots -> Cells] /\ head_ \in Slots /\ tail_ \in Slots
         /\ count_ \in 0 .. Capacity /\ count_ \in Nat /\ full_ \in BOOLEAN
         /\ Capacity \in Nat \ {0} /\ SizeMax \in Nat /\ Capacity <= SizeMax
         /\ pc \in [Threads -> Labels] /\ reg \in [Threads -> size_t]
         /\ pc[t] \in Appended => count_ < Capacity
         /\ pc[t] \in Removed => count_ > 0
         /\ full_ <=> count_ = Capacity /\ pc[t] \notin FullStale
  <1>1. SizeMax \in Nat /\ Capacity \in Nat \ {0} /\ Capacity <= SizeMax
    BY CapacityAssumption, TransferAssumption
  <1>2. /\ count_ \in 0 .. Capacity /\ Held(pc[t], count_) \in 0 .. Capacity
        /\ full_ <=> count_ = Capacity /\ pc[t] \notin FullStale
    BY DEF Alone, SoundAt, Sound
  <1>3. pc[t] \in Appended => count_ < Capacity
    BY <1>1, <1>2 DEF Held
  <1>4. pc[t] \in Removed => count_ > 0
    BY <1>1, <1>2, LabelsDiffer DEF Held
  <1> QED
    BY <1>1, <1>2, <1>3, <1>4 DEF TypeOK

(* A statement that changes no member that counts.                         *)
LEMMA JumpStep ==
  ASSUME TypeOK, NEW t \in Threads, Alone(t), InPlace(t)',
         UNCHANGED <<buffer_, head_, tail_, count_, full_>>,
         pc'[t] \in Appended <=> pc[t] \in Appended,
         pc'[t] \in Removed <=> pc[t] \in Removed,
         pc'[t] \in {"head", "headed"} <=> pc[t] \in {"head", "headed"},
         pc'[t] \in {"tail", "tailed"} <=> pc[t] \in {"tail", "tailed"},
         pc'[t] \in FullStale <=> pc[t] \in FullStale
  PROVE  Alone(t)' /\ Bookkeeping(t)
  <1>1. Bookkeeping(t)
    BY DEF Bookkeeping, Front, Behind, Held
  <1>2. /\ count_' \in 0 .. Capacity
        /\ full_' <=> count_' = Capacity /\ pc'[t] \notin FullStale
    BY AloneFacts
  <1> QED
    BY <1>1, <1>2, BookkeepingSound

LEMMA BodySteps ==
  ASSUME TypeOK, NEW t \in Threads, Alone(t), InBody(pc[t]), Proceed(t),
         IsInsert(t) => call[t].item \in Values
  PROVE  /\ Alone(t)'
         /\ pc[t] \notin {"construct", "destroy"} => Bookkeeping(t)
         /\ pc[t] = "construct" =>
              /\ pc'[t] = "tail" /\ buffer_[tail_] = Raw
              /\ buffer_' = [buffer_ EXCEPT ![tail_] = call[t].item]
              /\ Queue("tail", buffer_', head_', count_')
                   = Append(Queue("construct", buffer_, head_, count_), call[t].item)
         /\ pc[t] = "destroy" =>
              /\ pc'[t] = "head" /\ buffer_[head_] # Raw
              /\ buffer_' = [buffer_ EXCEPT ![head_] = Raw]
              /\ Queue("destroy", buffer_, head_, count_) # <<>>
              /\ call[t].item = Head(Queue("destroy", buffer_, head_, count_))
              /\ Queue("head", buffer_', head_', count_')
                   = Tail(Queue("destroy", buffer_, head_, count_))
  <1>0. /\ Push(t) \/ Pop(t) \/ Unmark(t) \/ Unlock(t)
        /\ InPlace(t) /\ (IsInsert(t)' <=> IsInsert(t))
        /\ pc[t] # "move" => call' = call
    BY BodyFrame DEF Alone, IsInsert
  <1>1. /\ buffer_ \in [Slots -> Cells] /\ head_ \in Slots /\ tail_ \in Slots
        /\ count_ \in 0 .. Capacity /\ count_ \in Nat /\ full_ \in BOOLEAN
        /\ Capacity \in Nat \ {0} /\ SizeMax \in Nat /\ Capacity <= SizeMax
        /\ pc \in [Threads -> Labels] /\ reg \in [Threads -> size_t]
        /\ pc[t] \in Appended => count_ < Capacity
        /\ pc[t] \in Removed => count_ > 0
        /\ full_ <=> count_ = Capacity /\ pc[t] \notin FullStale
    BY AloneFacts
  <1>2. CASE pc[t] = "unlock"
    <2>1. /\ pc'[t] = IF IsInsert(t) THEN "push" ELSE "pop"
          /\ UNCHANGED <<buffer_, head_, tail_, count_, full_>>
      BY <1>0, <1>1, <1>2 DEF Push, Pop, Unmark, Unlock, Go, rbVars
    <2>2. InPlace(t)'
      BY <1>0, <1>2, <2>1 DEF InPlace, Inserting, Removing
    <2> QED
      BY <1>2, <2>1, <2>2, JumpStep DEF Appended, Removed, FullStale
  <1>3. CASE pc[t] = "push"
    <2>0. ~full_
      BY <1>0, <1>1, <1>3 DEF InPlace, FullStale, Inserting, Removing, Appended, Removed, empty
    <2>1. /\ pc'[t] = "construct"
          /\ UNCHANGED <<buffer_, head_, tail_, count_, full_>>
      BY <1>0, <1>1, <2>0, <1>3
         DEF Push, Pop, Unmark, Unlock, Go, Read, Only, Others
    <2>2. InPlace(t)'
      BY <1>0, <1>3, <2>1 DEF InPlace, Inserting, Removing, Appended, Removed
    <2> QED
      BY <1>3, <2>1, <2>2, JumpStep DEF Appended, Removed, FullStale
  <1>4. CASE pc[t] = "tail"
    <2>1. /\ pc'[t] = "tailed" /\ reg'[t] = tail_
          /\ UNCHANGED <<buffer_, head_, tail_, count_, full_>>
      BY <1>0, <1>1, <1>4
         DEF Push, Pop, Unmark, Unlock, Go, Read, Only, Others
    <2>2. InPlace(t)'
      BY <1>0, <1>4, <2>1 DEF InPlace, Inserting, Removing, Appended, Removed
    <2> QED
      BY <1>4, <2>1, <2>2, JumpStep DEF Appended, Removed, FullStale
  <1>5. CASE pc[t] = "tailed"
    <2>1. /\ pc'[t] = "count" /\ tail_' = (tail_ + 1) % Capacity
          /\ UNCHANGED <<buffer_, head_, count_, full_>>
      BY <1>0, <1>1, <1>5
         DEF Push, Pop, Unmark, Unlock, Go, WriteBack, Only, Others, InPlace,
             NextIndex
    <2>2. InPlace(t)'
      BY <1>0, <1>5, <2>1 DEF InPlace, Inserting, Removing, Appended, Removed
    <2>3. Bookkeeping(t)
      BY <1>1, <1>5, <2>1
         DEF Bookkeeping, Front, Behind, Held, Appended, Removed
    <2>4. /\ count_' \in 0 .. Capacity
          /\ full_' <=> count_' = Capacity /\ pc'[t] \notin FullStale
      BY <1>1, <1>5, <2>1 DEF FullStale, Appended, Removed
    <2> QED
      BY <1>5, <2>2, <2>3, <2>4, BookkeepingSound
  <1>6. CASE pc[t] = "count"
    <2>0. ~full_
      BY <1>0, <1>1, <1>6 DEF InPlace, FullStale, Inserting, Removing, Appended, Removed, empty
    <2>1. /\ pc'[t] = "increment"
          /\ UNCHANGED <<buffer_, head_, tail_, count_, full_>>
      BY <1>0, <1>1, <2>0, <1>6
         DEF Push, Pop, Unmark, Unlock, Go, Read, Only, Others
    <2>2. InPlace(t)'
      BY <1>0, <1>6, <2>1 DEF InPlace, Inserting, Removing, Appended, Removed
    <2> QED
      BY <1>6, <2>1, <2>2, JumpStep DEF Appended, Removed, FullStale
  <1>7. CASE pc[t] = "increment"
    <2>1. /\ pc'[t] = "counted" /\ reg'[t] = count_
          /\ UNCHANGED <<buffer_, head_, tail_, count_, full_>>
      BY <1>0, <1>1, <1>7
         DEF Push, Pop, Unmark, Unlock, Go, Read, Only, Others
    <2>2. InPlace(t)'
      BY <1>0, <1>7, <2>1 DEF InPlace, Inserting, Removing, Appended, Removed
    <2> QED
      BY <1>7, <2>1, <2>2, JumpStep DEF Appended, Removed, FullStale
  <1>8. CASE pc[t] = "counted"
    <2>0. /\ pc'[t] = "compare" /\ count_' = (count_ + 1) % (SizeMax + 1)
          /\ UNCHANGED <<buffer_, head_, tail_, full_>>
      BY <1>0, <1>1, <1>8
         DEF Push, Pop, Unmark, Unlock, Go, WriteBack, Only, Others, InPlace
    <2>1. /\ pc'[t] = "compare" /\ count_' = count_ + 1
          /\ UNCHANGED <<buffer_, head_, tail_, full_>>
      <3>1. count_ + 1 \in 0 .. SizeMax
        BY <1>1, <1>8 DEF Appended
      <3>2. (count_ + 1) % (SizeMax + 1) = count_ + 1
        BY <1>1, <3>1
      <3> QED
        BY <2>0, <3>2
    <2>2. InPlace(t)'
      BY <1>0, <1>8, <2>1 DEF InPlace, Inserting, Removing, Appended, Removed
    <2>3. Bookkeeping(t)
      BY <1>1, <1>8, <2>1
         DEF Bookkeeping, Front, Behind, Held, Appended, Removed
    <2>4. /\ count_' \in 0 .. Capacity
          /\ full_' <=> count_' = Capacity /\ pc'[t] \notin FullStale
      BY <1>1, <1>8, <2>1 DEF FullStale, Appended, Removed
    <2> QED
      BY <1>8, <2>2, <2>3, <2>4, BookkeepingSound
  <1>9. CASE pc[t] = "compare"
    <2>1. /\ pc'[t] = "unmark" /\ full_' = (count_ = Capacity)
          /\ UNCHANGED <<buffer_, head_, tail_, count_>>
      BY <1>0, <1>1, <1>9
         DEF Push, Pop, Unmark, Unlock, Go, WriteBack, Only, Others, InPlace,
             NextIndex
    <2>2. InPlace(t)'
      BY <1>0, <1>9, <2>1 DEF InPlace, Inserting, Removing, Appended, Removed
    <2>3. Bookkeeping(t)
      BY <1>1, <1>9, <2>1
         DEF Bookkeeping, Front, Behind, Held, Appended, Removed
    <2>4. /\ count_' \in 0 .. Capacity
          /\ full_' <=> count_' = Capacity /\ pc'[t] \notin FullStale
      BY <1>1, <1>9, <2>1 DEF FullStale, Appended, Removed
    <2> QED
      BY <1>9, <2>2, <2>3, <2>4, BookkeepingSound
  <1>10. CASE pc[t] = "pop"
    <2>0. ~empty
      BY <1>0, <1>1, <1>10 DEF InPlace, FullStale, Inserting, Removing, Appended, Removed, empty
    <2>1. /\ pc'[t] = "move"
          /\ UNCHANGED <<buffer_, head_, tail_, count_, full_>>
      BY <1>0, <1>1, <2>0, <1>10
         DEF Push, Pop, Unmark, Unlock, Go, Read, Only, Others
    <2>2. InPlace(t)'
      BY <1>0, <1>10, <2>1 DEF InPlace, Inserting, Removing, Appended, Removed
    <2> QED
      BY <1>10, <2>1, <2>2, JumpStep DEF Appended, Removed, FullStale
  <1>11. CASE pc[t] = "move"
    <2>1. /\ pc'[t] = "destroy" /\ call' = [call EXCEPT ![t].item = buffer_[head_]]
          /\ UNCHANGED <<buffer_, head_, tail_, count_, full_>>
      <3>1. /\ pc' = [pc EXCEPT ![t] = "destroy"]
            /\ call' = [call EXCEPT ![t].item = buffer_[head_]]
            /\ Only("call")
        BY <1>0, <1>11, Zenon DEF Push, Pop, Unmark, Unlock, Go
      <3> QED
        BY <1>1, <3>1 DEF Only, Others
    <2>2. call'[t].item = buffer_[head_]
      BY <1>1, <2>1 DEF TypeOK
    <2>3. InPlace(t)'
      <3>1. /\ pc'[t] = "destroy" /\ buffer_' = buffer_ /\ head_' = head_
            /\ count_' = count_
        BY <2>1
      <3> QED
        BY <1>0, <1>11, <2>2, <3>1
           DEF InPlace, Inserting, Removing, Appended, Removed
    <2> QED
      BY <1>11, <2>1, <2>3, JumpStep DEF Appended, Removed, FullStale
  <1>12. CASE pc[t] = "head"
    <2>1. /\ pc'[t] = "headed" /\ reg'[t] = head_
          /\ UNCHANGED <<buffer_, head_, tail_, count_, full_>>
      BY <1>0, <1>1, <1>12
         DEF Push, Pop, Unmark, Unlock, Go, Read, Only, Others
    <2>2. InPlace(t)'
      BY <1>0, <1>12, <2>1 DEF InPlace, Inserting, Removing, Appended, Removed
    <2> QED
      BY <1>12, <2>1, <2>2, JumpStep DEF Appended, Removed, FullStale
  <1>13. CASE pc[t] = "headed"
    <2>1. /\ pc'[t] = "unfull" /\ head_' = (head_ + 1) % Capacity
          /\ UNCHANGED <<buffer_, tail_, count_, full_>>
      BY <1>0, <1>1, <1>13
         DEF Push, Pop, Unmark, Unlock, Go, WriteBack, Only, Others, InPlace,
             NextIndex
    <2>2. InPlace(t)'
      BY <1>0, <1>13, <2>1 DEF InPlace, Inserting, Removing, Appended, Removed
    <2>3. Bookkeeping(t)
      BY <1>1, <1>13, <2>1
         DEF Bookkeeping, Front, Behind, Held, Appended, Removed
    <2>4. /\ count_' \in 0 .. Capacity
          /\ full_' <=> count_' = Capacity /\ pc'[t] \notin FullStale
      BY <1>1, <1>13, <2>1 DEF FullStale, Appended, Removed
    <2> QED
      BY <1>13, <2>2, <2>3, <2>4, BookkeepingSound
  <1>14. CASE pc[t] = "unfull"
    <2>1. /\ pc'[t] = "uncount" /\ full_' = FALSE
          /\ UNCHANGED <<buffer_, head_, tail_, count_>>
      BY <1>0, <1>1, <1>14
         DEF Push, Pop, Unmark, Unlock, Go, WriteBack, Only, Others, InPlace,
             NextIndex
    <2>2. InPlace(t)'
      BY <1>0, <1>14, <2>1 DEF InPlace, Inserting, Removing, Appended, Removed
    <2>3. Bookkeeping(t)
      BY <1>1, <1>14, <2>1
         DEF Bookkeeping, Front, Behind, Held, Appended, Removed
    <2>4. /\ count_' \in 0 .. Capacity
          /\ full_' <=> count_' = Capacity /\ pc'[t] \notin FullStale
      BY <1>1, <1>14, <2>1 DEF FullStale, Appended, Removed
    <2> QED
      BY <1>14, <2>2, <2>3, <2>4, BookkeepingSound
  <1>15. CASE pc[t] = "uncount"
    <2>0. ~empty
      BY <1>0, <1>1, <1>15 DEF InPlace, FullStale, Inserting, Removing, Appended, Removed, empty
    <2>1. /\ pc'[t] = "decrement"
          /\ UNCHANGED <<buffer_, head_, tail_, count_, full_>>
      BY <1>0, <1>1, <2>0, <1>15
         DEF Push, Pop, Unmark, Unlock, Go, Read, Only, Others
    <2>2. InPlace(t)'
      BY <1>0, <1>15, <2>1 DEF InPlace, Inserting, Removing, Appended, Removed
    <2> QED
      BY <1>15, <2>1, <2>2, JumpStep DEF Appended, Removed, FullStale
  <1>16. CASE pc[t] = "decrement"
    <2>1. /\ pc'[t] = "uncounted" /\ reg'[t] = count_
          /\ UNCHANGED <<buffer_, head_, tail_, count_, full_>>
      BY <1>0, <1>1, <1>16
         DEF Push, Pop, Unmark, Unlock, Go, Read, Only, Others
    <2>2. InPlace(t)'
      BY <1>0, <1>16, <2>1 DEF InPlace, Inserting, Removing, Appended, Removed
    <2> QED
      BY <1>16, <2>1, <2>2, JumpStep DEF Appended, Removed, FullStale
  <1>17. CASE pc[t] = "uncounted"
    <2>0. /\ pc'[t] = "unmark" /\ count_' = (count_ - 1) % (SizeMax + 1)
          /\ UNCHANGED <<buffer_, head_, tail_, full_>>
      BY <1>0, <1>1, <1>17
         DEF Push, Pop, Unmark, Unlock, Go, WriteBack, Only, Others, InPlace
    <2>1. /\ pc'[t] = "unmark" /\ count_' = count_ - 1
          /\ UNCHANGED <<buffer_, head_, tail_, full_>>
      <3>1. count_ - 1 \in 0 .. SizeMax
        BY <1>1, <1>17 DEF Removed
      <3>2. (count_ - 1) % (SizeMax + 1) = count_ - 1
        BY <1>1, <3>1
      <3> QED
        BY <2>0, <3>2
    <2>2. InPlace(t)'
      BY <1>0, <1>17, <2>1 DEF InPlace, Inserting, Removing, Appended, Removed
    <2>3. Bookkeeping(t)
      BY <1>1, <1>17, <2>1
         DEF Bookkeeping, Front, Behind, Held, Appended, Removed
    <2>4. /\ count_' \in 0 .. Capacity
          /\ full_' <=> count_' = Capacity /\ pc'[t] \notin FullStale
      BY <1>1, <1>17, <2>1 DEF FullStale, Appended, Removed
    <2> QED
      BY <1>17, <2>2, <2>3, <2>4, BookkeepingSound
  <1>18. CASE pc[t] = "unmark"
    <2>1. /\ pc'[t] = "notify"
          /\ UNCHANGED <<buffer_, head_, tail_, count_, full_>>
      BY <1>0, <1>1, <1>18
         DEF Push, Pop, Unmark, Unlock, Go, Read, Only, Others
    <2>2. InPlace(t)'
      BY <1>0, <1>18, <2>1 DEF InPlace, Inserting, Removing, Appended, Removed
    <2> QED
      BY <1>18, <2>1, <2>2, JumpStep DEF Appended, Removed, FullStale
  <1>19. CASE pc[t] = "construct"
    <2>1. /\ pc'[t] = "tail" /\ buffer_' = [buffer_ EXCEPT ![tail_] = call[t].item]
          /\ UNCHANGED <<head_, tail_, count_, full_>>
      <3>1. pc' = [pc EXCEPT ![t] = "tail"] /\ Write(tail_, call[t].item)
        BY <1>0, <1>19, Zenon DEF Push, Pop, Unmark, Unlock, Go
      <3> QED
        BY <1>1, <3>1 DEF Write, Only, Others
    <2>2. InPlace(t)'
      <3>1. pc'[t] = "tail" /\ IsInsert(t)
        BY <1>0, <1>19, <2>1 DEF InPlace, Removing, Removed
      <3> QED
        BY <1>0, <3>1, Zenon DEF InPlace, Inserting, Appended
    <2>3. /\ IsInsert(t) /\ count_ \in 0 .. Capacity - 1
          /\ Sound("construct", buffer_, head_, tail_, count_, full_)
      BY <1>0, <1>1, <1>19 DEF InPlace, Removing, Removed, Alone, SoundAt
    <2>4. /\ Sound("tail", buffer_', head_, tail_, count_, full_)
          /\ buffer_[tail_] = Raw
          /\ Queue("tail", buffer_', head_, count_)
               = Append(Queue("construct", buffer_, head_, count_), call[t].item)
      <3>1. PICK v \in Values : v = call[t].item
        BY <2>3
      <3>2. /\ buffer_' \in [Slots -> Cells]
            /\ \A s \in Slots : buffer_'[s] = IF s = tail_ THEN v ELSE buffer_[s]
        BY <1>1, <2>1, <3>1 DEF Cells
      <3>3. /\ Sound("tail", buffer_', head_, tail_, count_, full_)
            /\ buffer_[tail_] = Raw
            /\ Queue("tail", buffer_', head_, count_)
                 = Append(Queue("construct", buffer_, head_, count_), v)
        BY <1>1, <2>3, <3>2, SoundAppends
      <3> QED
        BY <3>1, <3>3, Zenon
    <2>5. Alone(t)'
      BY <2>1, <2>2, <2>4 DEF Alone, SoundAt
    <2> QED
      BY <1>19, <2>1, <2>4, <2>5
  <1>20. CASE pc[t] = "destroy"
    <2>1. /\ pc'[t] = "head" /\ buffer_' = [buffer_ EXCEPT ![head_] = Raw]
          /\ UNCHANGED <<head_, tail_, count_, full_>>
      BY <1>0, <1>1, <1>20 DEF Push, Pop, Unmark, Unlock, Go, Write, Only, Others
    <2>2. InPlace(t)'
      BY <1>0, <1>20, <2>1 DEF InPlace, Inserting, Removing, Removed, Appended
    <2>3. /\ ~IsInsert(t) /\ count_ \in 1 .. Capacity
          /\ Sound("destroy", buffer_, head_, tail_, count_, full_)
          /\ call[t].item = buffer_[head_]
      BY <1>0, <1>1, <1>20 DEF InPlace, Inserting, Appended, Alone, SoundAt
    <2>4. /\ Sound("head", buffer_', head_, tail_, count_, full_)
          /\ buffer_[head_] # Raw
          /\ Queue("destroy", buffer_, head_, count_) # <<>>
          /\ buffer_[head_] = Head(Queue("destroy", buffer_, head_, count_))
          /\ Queue("head", buffer_', head_, count_)
               = Tail(Queue("destroy", buffer_, head_, count_))
      BY <1>1, <2>1, <2>3, SoundRemoves
    <2>5. Alone(t)'
      BY <2>1, <2>2, <2>4 DEF Alone, SoundAt
    <2> QED
      BY <1>20, <2>1, <2>3, <2>4, <2>5
  <1> QED
    BY <1>0, <1>2, <1>3, <1>4, <1>5, <1>6, <1>7, <1>8, <1>9, <1>10, <1>11, <1>12, <1>13,
       <1>14, <1>15, <1>16, <1>17, <1>18, <1>19, <1>20
       DEF InPlace, InBody, Inserting, Removing, Appended, Removed

-----------------------------------------------------------------------------
(* Into a body, past the others, and out of it.                            *)

(* A test that finds room, or an element, in a sound buffer.               *)
LEMMA EnterStep ==
  ASSUME TypeOK, NEW t \in Threads, Proceed(t), ~InBody(pc[t]), InBody(pc'[t]),
         SoundAt("idle")
  PROVE  /\ Alone(t)' /\ pc[t] = "test" /\ ~Blocked(t)
         /\ pc'[t] = IF ReleasesEarly(t) THEN "unlock"
                     ELSE IF IsInsert(t) THEN "push" ELSE "pop"
         /\ \A u \in Threads \ {t} : pc'[u] = pc[u]
         /\ UNCHANGED <<rbVars, mutex_, not_full_, not_empty_, call, expired, reg>>
  <1>1. pc \in [Threads -> Labels] /\ Capacity \in Nat \ {0}
    BY CapacityAssumption DEF TypeOK
  <1>2. Test(t) \/ Block(t) \/ Notify(t) \/ Unwind(t)
    BY DEF Proceed, Push, Pop, Unmark, Unlock, Go, InBody
  <1>3. ASSUME NEW woken, Return(t, woken) PROVE FALSE
    BY <1>3 DEF Return, InBody
  <1>4. ~Block(t)
    BY <1>1 DEF Block, Go, InBody
  <1>5. Test(t)
    BY <1>2, <1>3, <1>4 DEF Notify, Unwind
  <1>6. /\ ~Blocked(t)
        /\ Go(t, "test", IF ReleasesEarly(t) THEN "unlock"
                         ELSE IF IsInsert(t) THEN "push" ELSE "pop")
        /\ UNCHANGED <<rbVars, mutex_, not_full_, not_empty_, call, expired, reg>>
    BY <1>1, <1>3, <1>5 DEF Test, Go, InBody
  <1>7. /\ pc[t] = "test"
        /\ pc'[t] = IF ReleasesEarly(t) THEN "unlock"
                    ELSE IF IsInsert(t) THEN "push" ELSE "pop"
        /\ \A u \in Threads \ {t} : pc'[u] = pc[u]
    BY <1>1, <1>6 DEF Go
  <1>8. IsInsert(t)' <=> IsInsert(t)
    BY <1>6 DEF IsInsert
  <1>9. /\ count_ \in 0 .. Capacity /\ count_' = count_
        /\ full_ <=> count_ = Capacity
    BY <1>6 DEF SoundAt, Sound, FullStale, rbVars
  <1>10. (IsInsert(t) => count_ < Capacity) /\ (~IsInsert(t) => count_ > 0)
    BY <1>1, <1>6, <1>9 DEF Blocked, empty
  <1>11. InPlace(t)'
    BY <1>7, <1>8, <1>9, <1>10 DEF InPlace, Inserting, Removing
  <1>12. SoundAt(pc[t])'
    <2>1. Sound(pc'[t], buffer_, head_, tail_, count_, full_)
      BY <1>7 DEF SoundAt, Sound, Front, Behind, Held, Appended, Removed, FullStale
    <2> QED
      BY <1>6, <2>1 DEF SoundAt, rbVars
  <1> QED
    BY <1>6, <1>7, <1>11, <1>12 DEF Alone

(* A step of a call outside its body.                                      *)
LEMMA OutsideStep ==
  ASSUME TypeOK, WaitInv, NEW t \in Threads, Proceed(t),
         ~InBody(pc[t]), ~InBody(pc'[t])
  PROVE  /\ pc[t] \in {"test", "block", "notify", "threw"}
         /\ pc'[t] \in {"idle", "block", "waiting"}
         /\ pc'[t] = "idle" \/ call'[t] = call[t]
         /\ \A u \in Threads \ {t} :
              /\ pc'[u] = pc[u] \/ (pc[u] = "waiting" /\ pc'[u] = "lock")
              /\ call'[u] = call[u] /\ reg'[u] = reg[u]
         /\ UNCHANGED rbVars
         /\ mutex_' = mutex_ \/ mutex_' = Nobody
         /\ mutex_' = t => pc'[t] = "block"
         /\ pc'[t] = "block" => mutex_' = mutex_
         /\ \A u \in Threads : expired'[u] => expired[u]
  <1>1. pc \in [Threads -> Labels] /\ Nobody \notin Threads
    BY TransferAssumption DEF TypeOK
  <1>2. Test(t) \/ Block(t) \/ Notify(t) \/ Unwind(t)
    BY DEF Proceed, Push, Pop, Unmark, Unlock, Go, InBody
  <1>3. CASE /\ pc[t] \in {"test", "notify", "threw"}
             /\ \E woken \in SUBSET (not_full_ \cup not_empty_) : Return(t, woken)
    <2>1. PICK woken \in SUBSET (not_full_ \cup not_empty_) : Return(t, woken)
      BY <1>3
    <2>2. \A u \in woken : u \in Threads => pc[u] = "waiting"
      BY <2>1 DEF WaitInv
    <2>3. /\ \A u \in Threads : pc'[u] = IF u = t THEN "idle"
                                ELSE IF u \in woken THEN "lock" ELSE pc[u]
          /\ \A u \in Threads \ {t} : call'[u] = call[u] /\ reg'[u] = reg[u]
          /\ \A u \in Threads : expired'[u] => expired[u]
          /\ mutex_' = (IF mutex_ = t THEN Nobody ELSE mutex_) /\ UNCHANGED rbVars
      BY <2>1 DEF Return, TypeOK
    <2> QED
      BY <1>1, <1>3, <2>2, <2>3
  <1>4. CASE Block(t)
    BY <1>1, <1>4 DEF Block, Go
  <1>5. CASE Test(t) /\ Go(t, "test", "block")
    BY <1>1, <1>5 DEF Test, Go, Return
  <1>6. CASE Test(t) /\ ~Return(t, {}) /\ ~Go(t, "test", "block")
    <2>1. Go(t, "test", IF ReleasesEarly(t) THEN "unlock"
                        ELSE IF IsInsert(t) THEN "push" ELSE "pop")
      BY <1>6 DEF Test
    <2> QED
      BY <1>1, <2>1 DEF Go, InBody
  <1>7. Notify(t) \/ Unwind(t) \/ Return(t, {}) =>
          \E woken \in SUBSET (not_full_ \cup not_empty_) : Return(t, woken)
    <2>1. {} \in SUBSET (not_full_ \cup not_empty_)
      OBVIOUS
    <2>2. ASSUME Notify(t)
          PROVE  \E woken \in SUBSET (not_full_ \cup not_empty_) : Return(t, woken)
      BY <2>2 DEF Notify, notify_one
    <2> QED
      BY <2>1, <2>2 DEF Unwind
  <1>8. /\ Notify(t) => pc[t] = "notify"
        /\ Unwind(t) => pc[t] = "threw"
        /\ Test(t) => pc[t] = "test"
    BY DEF Notify, Unwind, Test, Go
  <1> QED
    BY <1>2, <1>3, <1>4, <1>5, <1>6, <1>7, <1>8

(* Behind the statement that changes the elements.                         *)
Inserted == Appended \cup {"compare", "unmark", "notify"}

Removal == Removed \cup {"unmark", "notify"}

(* Only the construction and the destruction lead there.                   *)
LEMMA EffectSteps ==
  ASSUME TypeOK, NEW t \in Threads, Alone(t), Alone(t)', InBody(pc[t]), Proceed(t)
  PROVE  /\ pc'[t] = "notify" \/ InBody(pc'[t])
         /\ IsInsert(t) /\ pc[t] # "construct" =>
              (pc'[t] \in Inserted <=> pc[t] \in Inserted)
         /\ ~IsInsert(t) /\ pc[t] # "destroy" =>
              (pc'[t] \in Removal <=> pc[t] \in Removal)
  <1>1. /\ Push(t) \/ Pop(t) \/ Unmark(t) \/ Unlock(t)
        /\ pc \in [Threads -> Labels] /\ (IsInsert(t)' <=> IsInsert(t))
    BY BodyFrame DEF TypeOK, IsInsert
  <1>2. InPlace(t) /\ InPlace(t)'
    BY DEF Alone
  <1>3. /\ pc'[t] # "threw" /\ (pc'[t] = "notify" \/ InBody(pc'[t]))
        /\ IsInsert(t) => pc[t] \notin Removing /\ pc'[t] \notin {"pop", "assign"}
        /\ ~IsInsert(t) => pc[t] \notin Inserting /\ pc'[t] # "push"
    BY <1>1, <1>2
       DEF InPlace, InBody, Inserting, Removing, Appended, Removed
  <1>4. CASE Push(t)
    <2>1. pc[t] \in Inserting
      BY <1>1, <1>2, <1>4 DEF Push, Go, InPlace, Inserting, Removing, Appended, Removed
    <2>2. pc[t] # "construct" => (pc'[t] \in Inserted <=> pc[t] \in Inserted)
      BY <1>1, <1>3, <1>4, <2>1 DEF Push, Go, Inserting, Appended, Inserted
    <2> QED
      BY <1>3, <2>1, <2>2
  <1>5. CASE Pop(t)
    <2>1. pc[t] \in Removing
      BY <1>5 DEF Pop, Go, Removing, Removed
    <2>2. pc[t] # "destroy" => (pc'[t] \in Removal <=> pc[t] \in Removal)
      BY <1>1, <1>3, <1>5, <2>1 DEF Pop, Go, Removing, Removed, Removal
    <2> QED
      BY <1>3, <2>1, <2>2
  <1>6. CASE Unmark(t)
    BY <1>1, <1>3, <1>6 DEF Unmark, Go, Inserted, Removal
  <1>7. CASE Unlock(t)
    BY <1>1, <1>3, <1>7 DEF Unlock, Go, Inserted, Removal, Appended, Removed
  <1> QED
    BY <1>1, <1>4, <1>5, <1>6, <1>7

(* At the end of a body the buffer is sound for whoever comes next.        *)
LEMMA NotifySound == SoundAt("notify") <=> SoundAt("idle")
  BY DEF SoundAt, Sound, Front, Behind, Held, Appended, Removed, FullStale

(* A new buffer is sound.                                                  *)
LEMMA NewSound == ring_buffer => SoundAt("idle")
  <1> SUFFICES ASSUME ring_buffer PROVE SoundAt("idle")
    OBVIOUS
  <1>1. Capacity \in Nat \ {0} /\ 0 \in Slots /\ 0 \in 0 .. Capacity
    BY CapacityAssumption DEF Slots
  <1>2. Client!SlotOf(0, 0) = 0
    BY <1>1 DEF Client!SlotOf
  <1>3. Client!SlotsOf(0, 0) = {}
    BY DEF Client!SlotsOf
  <1>4. /\ Front("idle", head_) = 0 /\ Behind("idle", tail_) = 0
        /\ Held("idle", count_) = 0
    BY DEF ring_buffer, Front, Behind, Held, Appended, Removed
  <1>5. \A s \in Slots : buffer_[s] = Raw
    BY DEF ring_buffer
  <1> QED
    BY <1>1, <1>2, <1>3, <1>4, <1>5 DEF SoundAt, Sound, ring_buffer, FullStale
=============================================================================
