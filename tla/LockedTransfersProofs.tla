----------------------- MODULE LockedTransfersProofs -----------------------
(***************************************************************************)
(* The functions of the wrapper that keep the mutex to their end, one      *)
(* access to a member at a time, implement the bounded queue: seen from    *)
(* outside, a critical section is one step.  Proved for every capacity,    *)
(* every size of size_t and any finite set of threads.                     *)
(***************************************************************************)
EXTENDS LockedTransfers, TimedTransfersProofs

(* No thread calls a function that gives up the mutex before its body.     *)
NobodyTimed == \A t \in Threads : Calls[t] \cap Timed = {}

-----------------------------------------------------------------------------
(* The inductive invariant.                                                *)

(* Places at which a thread does not have the mutex, and those at which it *)
(* has it but not begun its body.                                          *)
Apart == {"idle", "lock", "waiting"}

Before == {"test", "block"}

OwnerInv == \A t \in Threads : pc[t] \notin Apart <=> mutex_ = t

LockedCalls ==
  \A t \in Threads :
    /\ ~expired[t] /\ pc[t] \notin {"unlock", "threw"}
    /\ pc[t] # "idle" => /\ call[t].op \in {"push_back", "try_pop_front"}
                         /\ IsInsert(t) => call[t].item \in Values

(* The body that runs has the buffer to itself, and leaves it sound.       *)
BufferInv ==
  /\ (\A t \in Threads : ~InBody(pc[t])) => SoundAt("idle")
  /\ \A t \in Threads : InBody(pc[t]) => Alone(t)

QueueAt(label) == Queue(label, buffer_, head_, count_)

(* What the elements, held, are to those settled, before: the same until   *)
(* the construction or the destruction, then what the call makes of them.  *)
Tells(insert, label, item, held, before) ==
  /\ insert /\ label \in Inserted =>
       Len(before) < Capacity /\ held = Append(before, item)
  /\ ~insert /\ label \in Removal =>
       before # <<>> /\ item = Head(before) /\ held = Tail(before)
  /\ (insert => label \notin Inserted) /\ (~insert => label \notin Removal) =>
       held = before

HistoryInv ==
  /\ (\A t \in Threads : pc[t] \in Apart \cup Before) => settled = QueueAt("idle")
  /\ \A t \in Threads : pc[t] \notin Apart \cup Before =>
       Tells(IsInsert(t), pc[t], call[t].item, QueueAt(pc[t]), settled)

LockedInv ==
  /\ NobodyTimed /\ TypeOK /\ WaitInv
  /\ OwnerInv /\ LockedCalls /\ BufferInv /\ HistoryInv

(* What is observed of a step.                                             *)
Settles == settled' = IF mutex_' = Nobody THEN Contents' ELSE settled

LEMMA ContentsQueue ==
  Contents = QueueAt("idle") /\ QueueAt("notify") = QueueAt("idle")
  BY DEF Contents, at, slot_at, QueueAt, Queue, Client!Elements, Client!SlotOf,
         Front, Held, Appended, Removed

LEMMA ContentsQueueNext ==
  Contents' = QueueAt("idle")' /\ QueueAt("notify")' = QueueAt("idle")'
  BY DEF Contents, at, slot_at, QueueAt, Queue, Client!Elements, Client!SlotOf,
         Front, Held, Appended, Removed

(* Who has the mutex is alone behind it.                                   *)
LEMMA OwnerFacts ==
  ASSUME LockedInv, NEW t \in Threads, pc[t] \notin Apart
  PROVE  /\ mutex_ = t /\ mutex_ # Nobody
         /\ \A u \in Threads \ {t} : pc[u] \in Apart
         /\ \A u \in Threads : InBody(pc[u]) => u = t
         /\ call[t].op \in {"push_back", "try_pop_front"}
         /\ IsInsert(t) => call[t].item \in Values
         /\ IsInsert(t) <=> call[t].op = "push_back"
         /\ ~IsTimed(t) /\ ~expired[t] /\ pc[t] \notin {"unlock", "threw"}
  <1>1. mutex_ = t /\ \A u \in Threads \ {t} : pc[u] \in Apart
    BY DEF LockedInv, OwnerInv
  <1>2. /\ call[t].op \in {"push_back", "try_pop_front"}
        /\ IsInsert(t) => call[t].item \in Values
        /\ ~expired[t] /\ pc[t] \notin {"unlock", "threw"}
    BY DEF LockedInv, LockedCalls, Apart
  <1>3. ~IsTimed(t) /\ (IsInsert(t) <=> call[t].op = "push_back")
    BY <1>2 DEF IsTimed, Timed, IsInsert, Inserts
  <1>4. mutex_ # Nobody
    BY <1>1, TransferAssumption
  <1> QED
    BY <1>1, <1>2, <1>3, <1>4 DEF Apart, InBody

(* A step that leaves every body where it is and the buffer as it was.     *)
LEMMA BufferCarries ==
  ASSUME BufferInv, UNCHANGED rbVars,
         \A u \in Threads :
           /\ InBody(pc'[u]) <=> InBody(pc[u])
           /\ InBody(pc[u]) =>
                pc'[u] = pc[u] /\ call'[u] = call[u] /\ reg'[u] = reg[u]
  PROVE  BufferInv'
  <1>1. SoundAt("idle") => SoundAt("idle")'
    BY DEF rbVars, SoundAt
  <1>2. ASSUME NEW u \in Threads, InBody(pc[u]), Alone(u) PROVE Alone(u)'
    <2>1. /\ pc'[u] = pc[u] /\ call'[u] = call[u] /\ reg'[u] = reg[u]
          /\ UNCHANGED <<buffer_, head_, tail_, count_, full_>>
      BY <1>2 DEF rbVars
    <2>2. SoundAt(pc[u])'
      BY <1>2, <2>1 DEF Alone, SoundAt
    <2>3. InPlace(u)'
      BY <1>2, <2>1 DEF Alone, InPlace, IsInsert
    <2> QED
      BY <2>2, <2>3 DEF Alone
  <1> QED
    BY <1>1, <1>2 DEF BufferInv

-----------------------------------------------------------------------------
(* The steps, and what the bounded queue makes of them.                    *)

(* A step of a thread without the mutex, or one that takes it.             *)
LEMMA ApartStep ==
  ASSUME LockedInv, Settles, UNCHANGED rbVars, NEW t \in Threads,
         pc[t] \in Apart, pc'[t] \in {"lock", "test"},
         \A u \in Threads \ {t} : pc'[u] = pc[u] /\ call'[u] = call[u],
         UNCHANGED <<reg, expired>>,
         IF pc'[t] = "test" THEN mutex_ = Nobody /\ mutex_' = t
                            ELSE mutex_' = mutex_,
         call'[t].op \in {"push_back", "try_pop_front"},
         call'[t].op = "push_back" => call'[t].item \in Values
  PROVE  /\ OwnerInv' /\ LockedCalls' /\ BufferInv' /\ HistoryInv'
         /\ settled' = settled
  <1>0. /\ OwnerInv /\ LockedCalls /\ BufferInv /\ HistoryInv
        /\ Nobody \notin Threads /\ mutex_ \in Threads \cup {Nobody}
    BY TransferAssumption DEF LockedInv, TypeOK
  <1>1. OwnerInv'
    <2>1. "test" \notin Apart /\ "lock" \in Apart
      BY DEF Apart
    <2>2. CASE pc'[t] = "test"
      BY <1>0, <2>1, <2>2 DEF OwnerInv
    <2>3. CASE pc'[t] = "lock"
      BY <1>0, <2>1, <2>3 DEF OwnerInv
    <2> QED
      BY <2>2, <2>3
  <1>2. LockedCalls'
    BY <1>0 DEF LockedCalls, IsInsert, Inserts
  <1>3. BufferInv'
    BY <1>0, BufferCarries DEF InBody, Apart
  <1>4. \A l : QueueAt(l)' = QueueAt(l)
    BY DEF QueueAt, rbVars
  <1>5. settled' = settled
    <2>1. CASE mutex_' = Nobody
      <3>1. \A u \in Threads : pc[u] \in Apart
        BY <1>0, <2>1 DEF OwnerInv
      <3>2. settled = QueueAt("idle")
        BY <1>0, <3>1 DEF HistoryInv
      <3> QED
        BY <1>4, <2>1, <3>2, ContentsQueueNext DEF Settles
    <2> QED
      BY <2>1 DEF Settles
  <1>6. HistoryInv'
    <2>1. /\ pc[t] \in Apart \cup Before /\ pc'[t] \in Apart \cup Before
          /\ \A u \in Threads \ {t} : pc'[u] = pc[u] /\ call'[u] = call[u]
                                        /\ (IsInsert(u)' <=> IsInsert(u))
      BY DEF Apart, Before, IsInsert
    <2>2. ASSUME NEW u \in Threads, pc'[u] \notin Apart \cup Before
          PROVE  Tells(IsInsert(u)', pc'[u], call'[u].item,
                       Queue(pc'[u], buffer_', head_', count_'), settled')
      <3>1. u # t /\ pc[u] \notin Apart \cup Before
        BY <2>1, <2>2
      <3>2. Tells(IsInsert(u), pc[u], call[u].item, QueueAt(pc[u]), settled)
        BY <1>0, <3>1 DEF HistoryInv
      <3>3. Queue(pc'[u], buffer_', head_', count_') = QueueAt(pc[u])
        BY <2>1, <3>1 DEF QueueAt, rbVars
      <3> QED
        BY <1>5, <2>1, <3>1, <3>2, <3>3 DEF Tells
    <2>3. (\A u \in Threads : pc'[u] \in Apart \cup Before)
            => settled' = QueueAt("idle")'
      BY <1>0, <1>4, <1>5, <2>1 DEF HistoryInv
    <2> QED
      BY <2>2, <2>3 DEF HistoryInv, QueueAt
  <1> QED
    BY <1>1, <1>2, <1>3, <1>5, <1>6

(* A statement of a body: the elements may change, what is settled not.    *)
LEMMA LockedBody ==
  ASSUME LockedInv, Settles, NEW t \in Threads, Proceed(t), InBody(pc[t])
  PROVE  /\ OwnerInv' /\ LockedCalls' /\ BufferInv' /\ HistoryInv'
         /\ settled' = settled /\ pc'[t] # "idle"
         /\ \A u \in Threads \ {t} : pc'[u] = pc[u]
  <1>0. /\ TypeOK /\ OwnerInv /\ LockedCalls /\ BufferInv /\ HistoryInv
        /\ pc[t] \notin Apart \cup Before
    BY DEF LockedInv, InBody, Apart, Before
  <1>1. /\ mutex_ = t /\ mutex_ # Nobody
        /\ \A u \in Threads \ {t} : pc[u] \in Apart
        /\ IsInsert(t) => call[t].item \in Values
        /\ call[t].op \in {"push_back", "try_pop_front"}
        /\ ~expired[t] /\ pc[t] # "unlock"
    BY <1>0, OwnerFacts
  <1>2. /\ Push(t) \/ Pop(t) \/ Unmark(t) \/ Unlock(t)
        /\ \A u \in Threads \ {t} :
             pc'[u] = pc[u] /\ call'[u] = call[u] /\ reg'[u] = reg[u]
        /\ call'[t].op = call[t].op /\ (IsInsert(t)' <=> IsInsert(t))
        /\ pc[t] # "move" => call' = call
        /\ mutex_' = mutex_ /\ expired' = expired
        /\ pc \in [Threads -> Labels]
    BY <1>0, <1>1, BodyFrame DEF IsInsert, TypeOK
  <1>3. settled' = settled
    BY <1>1, <1>2 DEF Settles
  <1>4. Alone(t)
    BY <1>0 DEF BufferInv
  <1>5. /\ Alone(t)'
        /\ pc[t] \notin {"construct", "destroy"} => Bookkeeping(t)
    BY <1>0, <1>1, <1>4, BodySteps
  <1>6. /\ pc'[t] = "notify" \/ InBody(pc'[t])
        /\ IsInsert(t) /\ pc[t] # "construct" =>
             (pc'[t] \in Inserted <=> pc[t] \in Inserted)
        /\ ~IsInsert(t) /\ pc[t] # "destroy" =>
             (pc'[t] \in Removal <=> pc[t] \in Removal)
    BY <1>0, <1>4, <1>5, EffectSteps
  <1>7. pc'[t] # "unlock"
    BY <1>1, <1>2 DEF Push, Pop, Unmark, Unlock, Go
  <1>8. pc'[t] \notin Apart \cup Before /\ pc'[t] # "threw" /\ pc'[t] # "idle"
    BY <1>6 DEF InBody, Apart, Before
  <1>9. OwnerInv'
    BY <1>0, <1>1, <1>2, <1>8 DEF OwnerInv
  <1>10. IsInsert(t) => pc[t] # "move"
    BY <1>4 DEF Alone, InPlace, Inserting, Appended
  <1>11. LockedCalls'
    <2>1. \A u \in Threads \ {t} : IsInsert(u)' <=> IsInsert(u)
      BY <1>2 DEF IsInsert
    <2> QED
      BY <1>0, <1>1, <1>2, <1>7, <1>8, <1>10, <2>1 DEF LockedCalls
  <1>12. BufferInv'
    <2>1. \A u \in Threads : InBody(pc'[u]) => u = t
      BY <1>1, <1>2 DEF InBody, Apart
    <2>2. ASSUME ~InBody(pc'[t]) PROVE SoundAt("idle")'
      <3>1. SoundAt("notify")'
        BY <1>5, <1>6, <2>2 DEF Alone, SoundAt
      <3>2. ASSUME SoundAt("notify")' PROVE SoundAt("idle")'
        BY <3>2, NotifySound, PTL
      <3> QED
        BY <3>1, <3>2
    <2> QED
      BY <1>5, <2>1, <2>2 DEF BufferInv
  <1>13. Tells(IsInsert(t), pc[t], call[t].item, QueueAt(pc[t]), settled)
    BY <1>0 DEF HistoryInv
  <1>14. Tells(IsInsert(t), pc'[t], call'[t].item,
               Queue(pc'[t], buffer_', head_', count_'), settled)
    <2>1. CASE pc[t] \notin {"construct", "destroy"}
      <3>1. Queue(pc'[t], buffer_', head_', count_') = QueueAt(pc[t])
        BY <1>5, <2>1 DEF Bookkeeping, QueueAt, Queue
      <3>2. pc[t] = "move" => pc[t] \notin Removal
        BY DEF Removal, Removed
      <3>3. /\ IsInsert(t) => call'[t].item = call[t].item
            /\ pc[t] \in Removal => call'[t].item = call[t].item
        BY <1>2, <1>10, <3>2
      <3> QED
        BY <1>6, <1>13, <2>1, <3>1, <3>3 DEF Tells
    <2>2. CASE pc[t] = "construct"
      <3>1. /\ pc'[t] = "tail" /\ call' = call /\ IsInsert(t) /\ count_ < Capacity
            /\ head_ \in Slots /\ count_ \in 0 .. Capacity
            /\ buffer_ \in [Slots -> Cells]
        <4>1. IsInsert(t)
          BY <1>4, <2>2 DEF Alone, InPlace, Removing, Removed
        <4> QED
          BY <1>0, <1>1, <1>2, <1>4, <2>2, <4>1, BodySteps, AloneFacts
             DEF Alone, InPlace
      <3>2. Queue("tail", buffer_', head_', count_') = Append(QueueAt("construct"), call[t].item)
        BY <1>0, <1>1, <1>4, <2>2, BodySteps DEF QueueAt
      <3>3. settled = QueueAt("construct")
        BY <1>13, <2>2, <3>1 DEF Tells, Inserted, Appended
      <3>4. QueueAt("construct") = Client!Elements(buffer_, head_, count_)
        BY DEF QueueAt, Queue, Front, Held, Appended, Removed
      <3>5. Len(Client!Elements(buffer_, head_, count_)) = count_
        BY <3>1, Client!ElementsSeq, StorageIsClients, CapacityAssumption, RawAssumption
      <3>6. Len(settled) < Capacity
        BY <3>1, <3>3, <3>4, <3>5
      <3>7. "tail" \in Inserted
        BY DEF Inserted, Appended
      <3> QED
        BY <3>1, <3>2, <3>3, <3>6, <3>7 DEF Tells
    <2>3. CASE pc[t] = "destroy"
      <3>1. pc'[t] = "head" /\ call' = call /\ ~IsInsert(t)
        <4>1. ~IsInsert(t)
          BY <1>4, <2>3 DEF Alone, InPlace, Inserting, Appended
        <4> QED
          BY <1>0, <1>1, <1>2, <1>4, <2>3, <4>1, BodySteps
      <3>2. /\ QueueAt("destroy") # <<>>
            /\ call[t].item = Head(QueueAt("destroy"))
            /\ Queue("head", buffer_', head_', count_') = Tail(QueueAt("destroy"))
        BY <1>0, <1>1, <1>4, <2>3, BodySteps DEF QueueAt
      <3>3. settled = QueueAt("destroy")
        BY <1>13, <2>3, <3>1 DEF Tells, Removal, Removed
      <3>4. "head" \in Removal
        BY DEF Removal, Removed
      <3> QED
        BY <3>1, <3>2, <3>3, <3>4 DEF Tells
    <2> QED
      BY <2>1, <2>2, <2>3
  <1>15. HistoryInv'
    <2>1. \A u \in Threads : pc'[u] \notin Apart \cup Before => u = t
      BY <1>1, <1>2
    <2>2. Tells(IsInsert(t)', pc'[t], call'[t].item,
                Queue(pc'[t], buffer_', head_', count_'), settled')
      BY <1>2, <1>3, <1>14 DEF Tells
    <2> QED
      BY <1>8, <2>1, <2>2 DEF HistoryInv, QueueAt
  <1> QED
    BY <1>2, <1>3, <1>8, <1>9, <1>11, <1>12, <1>15

(* A test that lets a body begin.                                          *)
LEMMA LockedEnter ==
  ASSUME LockedInv, Settles, NEW t \in Threads, Proceed(t),
         ~InBody(pc[t]), InBody(pc'[t])
  PROVE  /\ OwnerInv' /\ LockedCalls' /\ BufferInv' /\ HistoryInv'
         /\ settled' = settled /\ pc'[t] # "idle"
         /\ \A u \in Threads \ {t} : pc'[u] = pc[u]
  <1>0. /\ TypeOK /\ WaitInv /\ OwnerInv /\ LockedCalls /\ BufferInv /\ HistoryInv
        /\ pc[t] \notin Apart
    BY ProceedPlaces DEF LockedInv, Apart
  <1>1. /\ mutex_ = t /\ mutex_ # Nobody /\ ~IsTimed(t) /\ pc[t] # "unlock"
        /\ \A u \in Threads \ {t} : pc[u] \in Apart
    BY <1>0, OwnerFacts
  <1>2. SoundAt("idle")
    <2>1. \A u \in Threads : ~InBody(pc[u])
      BY <1>1 DEF InBody, Apart
    <2> QED
      BY <1>0, <2>1 DEF BufferInv
  <1>3. /\ Alone(t)' /\ pc[t] = "test" /\ pc'[t] \in {"push", "pop"}
        /\ \A u \in Threads \ {t} : pc'[u] = pc[u]
        /\ UNCHANGED <<rbVars, mutex_, call, expired>>
    BY <1>0, <1>1, <1>2, EnterStep DEF ReleasesEarly
  <1>4. settled' = settled
    BY <1>1, <1>3 DEF Settles
  <1>5. OwnerInv'
    BY <1>0, <1>1, <1>3 DEF OwnerInv, Apart
  <1>6. LockedCalls'
    BY <1>0, <1>3 DEF LockedCalls, IsInsert
  <1>7. BufferInv'
    <2>1. \A u \in Threads : InBody(pc'[u]) => u = t
      BY <1>1, <1>3 DEF InBody, Apart
    <2> QED
      BY <1>3, <2>1 DEF BufferInv
  <1>8. HistoryInv'
    <2>1. \A u \in Threads : pc'[u] \notin Apart \cup Before => u = t
      BY <1>1, <1>3
    <2>2. pc'[t] \notin Apart \cup Before \cup Inserted \cup Removal
      BY <1>3 DEF Apart, Before, Inserted, Removal, Appended, Removed
    <2>3. settled = QueueAt("idle")
      <3>1. pc[t] \in Before
        BY <1>3 DEF Before
      <3> QED
        BY <1>0, <1>1, <3>1 DEF HistoryInv
    <2>4. Queue(pc'[t], buffer_', head_', count_') = QueueAt("idle")
      BY <1>3 DEF QueueAt, Queue, Front, Held, Appended, Removed, rbVars
    <2>5. Tells(IsInsert(t)', pc'[t], call'[t].item,
                Queue(pc'[t], buffer_', head_', count_'), settled')
      BY <1>4, <2>2, <2>3, <2>4 DEF Tells
    <2> QED
      BY <2>1, <2>2, <2>5 DEF HistoryInv, QueueAt
  <1> QED
    BY <1>3, <1>4, <1>5, <1>6, <1>7, <1>8

(* Only a test leads to a wait, and what it leads to without one.          *)
LEMMA WaitSteps ==
  ASSUME NEW t \in Threads, TypeOK, Proceed(t)
  PROVE  /\ pc'[t] = "block" => pc[t] = "test"
         /\ pc[t] = "block" => pc'[t] = "waiting"
         /\ pc[t] = "test" /\ pc'[t] = "idle" =>
              Blocked(t) /\ (expired[t] \/ call[t].op = "try_pop_front")
  <1>1. pc \in [Threads -> Labels]
    BY DEF TypeOK
  <1>2. \A woken : Return(t, woken) => pc'[t] = "idle"
    BY DEF Return
  <1>3. \A from, to : Go(t, from, to) => pc[t] = from /\ pc'[t] = to
    BY <1>1 DEF Go
  <1>4. pc'[t] = "block" => pc[t] = "test"
    BY <1>2, <1>3 DEF Proceed, Test, Block, Unlock, Push, Pop, Unmark, Notify, Unwind
  <1>5. pc[t] = "block" => pc'[t] = "waiting"
    BY <1>3 DEF Proceed, Test, Block, Unlock, Push, Pop, Unmark, Notify, Unwind
  <1>6. ASSUME pc[t] = "test", pc'[t] = "idle"
        PROVE  Blocked(t) /\ (expired[t] \/ call[t].op = "try_pop_front")
    <2>1. Test(t)
      BY <1>3, <1>6 DEF Proceed, Block, Unlock, Push, Pop, Unmark, Notify, Unwind
    <2> QED
      BY <1>3, <1>6, <2>1 DEF Test
  <1> QED
    BY <1>4, <1>5, <1>6

(* The beginning of a wait, or the end of a call: what is settled then.    *)
LEMMA LockedOutside ==
  ASSUME LockedInv, Settles, NEW t \in Threads, Proceed(t),
         ~InBody(pc[t]), ~InBody(pc'[t])
  PROVE  /\ OwnerInv' /\ LockedCalls' /\ BufferInv' /\ HistoryInv'
         /\ pc[t] \in {"test", "block", "notify"}
         /\ settled' = QueueAt(pc[t])
         /\ pc[t] # "notify" => settled' = settled
         /\ \A u \in Threads \ {t} :
              pc'[u] = pc[u] \/ (pc[u] = "waiting" /\ pc'[u] = "lock")
  <1>0. /\ TypeOK /\ WaitInv /\ OwnerInv /\ LockedCalls /\ BufferInv /\ HistoryInv
        /\ pc[t] \notin Apart /\ Nobody \notin Threads
    BY ProceedPlaces, TransferAssumption DEF LockedInv, Apart
  <1>1. /\ mutex_ = t /\ mutex_ # Nobody /\ pc[t] # "threw"
        /\ \A u \in Threads \ {t} : pc[u] \in Apart
    BY <1>0, OwnerFacts
  <1>2. /\ pc[t] \in {"test", "block", "notify"}
        /\ pc'[t] \in {"idle", "block", "waiting"}
        /\ pc'[t] = "idle" \/ call'[t] = call[t]
        /\ \A u \in Threads \ {t} :
             /\ pc'[u] = pc[u] \/ (pc[u] = "waiting" /\ pc'[u] = "lock")
             /\ call'[u] = call[u] /\ reg'[u] = reg[u]
        /\ UNCHANGED rbVars
        /\ mutex_' = mutex_ \/ mutex_' = Nobody
        /\ mutex_' = t <=> pc'[t] = "block"
        /\ \A u \in Threads : expired'[u] => expired[u]
    BY <1>0, <1>1, OutsideStep
  <1>3. OwnerInv'
    BY <1>0, <1>1, <1>2 DEF OwnerInv, Apart
  <1>4. LockedCalls'
    BY <1>0, <1>2 DEF LockedCalls, IsInsert
  <1>5. BufferInv'
    BY <1>0, <1>2, BufferCarries DEF InBody
  <1>6. \A l : Queue(l, buffer_', head_', count_') = QueueAt(l)
    BY <1>2 DEF QueueAt, rbVars
  <1>7. QueueAt(pc[t]) = QueueAt("idle") /\ QueueAt("idle")' = QueueAt("idle")
    <2>1. Front(pc[t], head_) = Front("idle", head_)
          /\ Held(pc[t], count_) = Held("idle", count_)
      BY <1>2 DEF Front, Held, Appended, Removed
    <2> QED
      BY <1>6, <2>1 DEF QueueAt, Queue
  <1>8. pc[t] # "notify" => settled = QueueAt("idle")
    <2>1. pc[t] # "notify" => pc[t] \in Before
      BY <1>2 DEF Before
    <2> QED
      BY <1>0, <1>1, <2>1 DEF HistoryInv
  <1>9. settled' = QueueAt("idle")
    <2>1. CASE mutex_' = Nobody
      BY <1>7, <2>1, ContentsQueueNext DEF Settles
    <2>2. CASE mutex_' = t
      <3>1. pc[t] = "test"
        BY <1>0, <1>2, <2>2, WaitSteps
      <3> QED
        BY <1>0, <1>8, <2>2, <3>1 DEF Settles
    <2> QED
      BY <1>1, <1>2, <2>1, <2>2
  <1>10. HistoryInv'
    <2>1. \A u \in Threads : pc'[u] \in Apart \cup Before
      BY <1>1, <1>2 DEF Apart, Before
    <2> QED
      BY <1>7, <1>9, <2>1 DEF HistoryInv
  <1> QED
    BY <1>2, <1>3, <1>4, <1>5, <1>7, <1>8, <1>9, <1>10

-----------------------------------------------------------------------------
(* Refinement.                                                             *)

LEMMA SameReports ==
  /\ \A c, r : Channel!W!Report(c, r) = W!Report(c, r)
  /\ Channel!W!Void = W!Void
  /\ \A v : Channel!W!Element(v) = W!Element(v)
  BY DEF Channel!W!Report, W!Report, Channel!W!Void, W!Void, Channel!W!Element,
         W!Element

(* What is reported of a step.                                             *)
Reports ==
  \/ \E t \in Threads : Returns(t) /\ out' = W!Report(CallOf(t), Result(t))
  \/ (\A t \in Threads : ~Returns(t)) /\ UNCHANGED out

LEMMA NobodyReturns ==
  ASSUME Reports, \A t \in Threads : ~Returns(t)
  PROVE  out' = out
  BY DEF Reports

(* A call that ends has taken effect on the queue as its result says.      *)
LEMMA LockedReturn ==
  ASSUME LockedInv, Settles, Reports, NEW t \in Threads, Proceed(t),
         ~InBody(pc[t]), ~InBody(pc'[t])
  PROVE  [Channel!Next]_<<settled, out>>
  <1>0. TypeOK /\ WaitInv /\ HistoryInv /\ pc[t] \notin Apart
    BY ProceedPlaces DEF LockedInv, Apart
  <1>1. /\ \A u \in Threads \ {t} : pc[u] \in Apart
        /\ IsInsert(t) => call[t].item \in Values
        /\ IsInsert(t) => call[t].op = "push_back"
        /\ ~IsInsert(t) => call[t].op = "try_pop_front"
        /\ ~IsTimed(t) /\ ~expired[t]
    BY <1>0, OwnerFacts
  <1>2. /\ pc[t] \in {"test", "block", "notify"}
        /\ settled' = QueueAt(pc[t])
        /\ pc[t] # "notify" => settled' = settled
        /\ \A u \in Threads \ {t} :
             pc'[u] = pc[u] \/ (pc[u] = "waiting" /\ pc'[u] = "lock")
    BY LockedOutside
  <1>3. \A u \in Threads \ {t} : ~Returns(u)
    BY <1>2 DEF Returns
  <1>4. /\ pc[t] = "notify" => pc'[t] = "idle"
        /\ pc[t] = "block" => pc'[t] = "waiting"
        /\ pc[t] = "test" /\ pc'[t] = "idle" =>
             Blocked(t) /\ call[t].op = "try_pop_front"
    BY <1>0, <1>1, ProceedPlaces, WaitSteps
  <1>5. CASE pc'[t] # "idle"
    <2>1. out' = out
      BY <1>3, <1>5, NobodyReturns DEF Returns
    <2> QED
      BY <1>2, <1>4, <1>5, <2>1
  <1>6. pc'[t] = "idle" => out' = W!Report(CallOf(t), Result(t))
    BY <1>2, <1>3 DEF Returns, Reports
  <1>7. CASE pc[t] = "notify"
    <2>1. Tells(IsInsert(t), "notify", call[t].item, QueueAt("notify"), settled)
      BY <1>0, <1>7 DEF HistoryInv, Apart, Before
    <2>2. "notify" \in Inserted /\ "notify" \in Removal
      BY DEF Inserted, Removal
    <2>3. CASE IsInsert(t)
      <3>1. /\ Len(settled) < Capacity /\ settled' = Append(settled, call[t].item)
            /\ call[t].item \in Values
        BY <1>1, <1>2, <1>7, <2>1, <2>2, <2>3 DEF Tells
      <3>2. Result(t) = W!Void
        BY <1>1, <1>7, <2>3 DEF Result
      <3>3. out' = Channel!W!Report(<<"push_back", call[t].item>>, Channel!W!Void)
        BY <1>1, <1>4, <1>6, <1>7, <2>3, <3>2, SameReports DEF CallOf
      <3>4. Channel!Insert(call[t].item)
        BY <3>1, <3>3 DEF Channel!Insert
      <3> QED
        BY <3>1, <3>4 DEF Channel!Next
    <2>4. CASE ~IsInsert(t)
      <3>1. settled # <<>> /\ call[t].item = Head(settled) /\ settled' = Tail(settled)
        BY <1>2, <1>7, <2>1, <2>2, <2>4 DEF Tells
      <3>2. Result(t) = W!Element(call[t].item)
        BY <1>1, <1>7, <2>4 DEF Result
      <3>3. out' = Channel!W!Report(<<"try_pop_front">>,
                                    Channel!W!Element(Head(settled)))
        BY <1>1, <1>4, <1>6, <1>7, <2>4, <3>1, <3>2, SameReports DEF CallOf
      <3>4. Channel!TryPopFront
        BY <3>1, <3>3 DEF Channel!TryPopFront
      <3> QED
        BY <3>4 DEF Channel!Next
    <2> QED
      BY <2>3, <2>4
  <1>8. CASE pc[t] = "test" /\ pc'[t] = "idle"
    <2>1. call[t].op = "try_pop_front" /\ ~IsInsert(t) /\ count_ = 0
      BY <1>4, <1>8 DEF Blocked, IsInsert, Inserts, empty
    <2>2. settled' = <<>> /\ settled = <<>>
      <3>1. settled' = Client!Elements(buffer_, head_, 0)
        BY <1>2, <1>8, <2>1 DEF QueueAt, Queue, Front, Held, Appended, Removed
      <3>2. Client!Elements(buffer_, head_, 0) = <<>>
        <4>1. buffer_ \in [Slots -> Cells] /\ head_ \in Slots /\ 0 \in 0 .. Capacity
          BY <1>0, CapacityAssumption DEF TypeOK
        <4> QED
          BY <4>1, Client!ElementsSeq, StorageIsClients, CapacityAssumption,
             RawAssumption
      <3> QED
        BY <1>2, <1>8, <3>1, <3>2
    <2>3. Result(t) = Channel!Nullopt
      BY <1>8, <2>1 DEF Result
    <2>4. Channel!W!Answer(<<"try_pop_front">>, Channel!Nullopt)
      BY <1>6, <1>8, <2>1, <2>2, <2>3, SameReports DEF CallOf, Channel!W!Answer
    <2> QED
      BY <2>2, <2>4 DEF Channel!Next, Channel!TryPopFront
  <1> QED
    BY <1>2, <1>4, <1>5, <1>7, <1>8

LEMMA LockedProceed ==
  ASSUME LockedInv, Settles, Reports, NEW t \in Threads, Proceed(t)
  PROVE  LockedInv' /\ [Channel!Next]_<<settled, out>>
  <1>0. TypeOK /\ WaitInv /\ NobodyTimed
    BY DEF LockedInv
  <1>1. NobodyTimed' /\ TypeOK' /\ WaitInv'
    BY <1>0, ProceedTypes, ProceedPlaces DEF NobodyTimed
  <1>2. CASE InBody(pc[t]) \/ InBody(pc'[t])
    <2>1. /\ OwnerInv' /\ LockedCalls' /\ BufferInv' /\ HistoryInv'
          /\ settled' = settled /\ pc'[t] # "idle"
          /\ \A u \in Threads \ {t} : pc'[u] = pc[u]
      BY <1>2, LockedBody, LockedEnter
    <2>2. \A u \in Threads : ~Returns(u)
      BY <2>1 DEF Returns
    <2> QED
      BY <1>1, <2>1, <2>2, NobodyReturns DEF LockedInv
  <1>3. CASE ~InBody(pc[t]) /\ ~InBody(pc'[t])
    BY <1>1, <1>3, LockedOutside, LockedReturn DEF LockedInv
  <1> QED
    BY <1>2, <1>3

LEMMA LockedOther ==
  ASSUME LockedInv, Settles, Reports, NEW t \in Threads,
         \/ \E op \in Calls[t] : \E item \in Items(op) : Call(t, op, item)
         \/ Lock(t) \/ Timeout(t) \/ SpuriousWakeup(t)
  PROVE  LockedInv' /\ [Channel!Next]_<<settled, out>>
  <1>0. /\ TypeOK /\ WaitInv /\ NobodyTimed /\ LockedCalls
        /\ NobodyTimed' /\ Nobody \notin Threads
        /\ Calls \in [Threads -> SUBSET (Inserts \cup Removals)]
    BY TransferAssumption DEF LockedInv, NobodyTimed
  <1>1. ASSUME pc[t] \in Apart, pc'[t] \in {"lock", "test"},
               \A u \in Threads \ {t} : pc'[u] = pc[u] /\ call'[u] = call[u],
               UNCHANGED <<rbVars, reg, expired>>,
               IF pc'[t] = "test" THEN mutex_ = Nobody /\ mutex_' = t
                                  ELSE mutex_' = mutex_,
               call'[t].op \in {"push_back", "try_pop_front"},
               call'[t].op = "push_back" => call'[t].item \in Values,
               not_full_' \subseteq not_full_ \ {t},
               not_empty_' \subseteq not_empty_ \ {t},
               TypeOK'
        PROVE  LockedInv' /\ [Channel!Next]_<<settled, out>>
    <2>1. /\ OwnerInv' /\ LockedCalls' /\ BufferInv' /\ HistoryInv'
          /\ settled' = settled
      BY <1>1, ApartStep
    <2>2. WaitInv'
      BY <1>0, <1>1 DEF WaitInv
    <2>3. \A u \in Threads : ~Returns(u)
      BY <1>1 DEF Returns
    <2> QED
      BY <1>0, <1>1, <2>1, <2>2, <2>3, NobodyReturns DEF LockedInv
  <1>2. ASSUME NEW op \in Calls[t], NEW item \in Items(op), Call(t, op, item)
        PROVE  LockedInv' /\ [Channel!Next]_<<settled, out>>
    <2>1. /\ op \in {"push_back", "try_pop_front"} /\ op \in Inserts \cup Removals
          /\ item \in Cells /\ (op = "push_back" => item \in Values)
      BY <1>0 DEF NobodyTimed, Timed, Inserts, Removals, Items, Cells
    <2>2. TypeOK'
      BY <1>0, <1>2, <2>1, CallTypes
    <2>3. /\ pc[t] = "idle" /\ pc'[t] = "lock"
          /\ call'[t].op = op /\ call'[t].item = item
          /\ \A u \in Threads \ {t} : pc'[u] = pc[u] /\ call'[u] = call[u]
          /\ UNCHANGED <<rbVars, mutex_, not_full_, not_empty_, expired, reg>>
      BY <1>0, <1>2 DEF Call, Go, TypeOK
    <2>4. t \notin not_full_ \cup not_empty_
      BY <1>0, <2>3 DEF WaitInv
    <2> QED
      BY <1>1, <2>1, <2>2, <2>3, <2>4 DEF Apart
  <1>3. pc[t] # "idle" => /\ call[t].op \in {"push_back", "try_pop_front"}
                          /\ call[t].op = "push_back" => call[t].item \in Values
    BY <1>0 DEF LockedCalls, IsInsert, Inserts
  <1>4. ASSUME Lock(t) PROVE LockedInv' /\ [Channel!Next]_<<settled, out>>
    <2>1. TypeOK'
      BY <1>0, <1>4, LockTypes
    <2>2. /\ pc[t] = "lock" /\ pc'[t] = "test" /\ mutex_ = Nobody /\ mutex_' = t
          /\ \A u \in Threads \ {t} : pc'[u] = pc[u]
          /\ UNCHANGED <<rbVars, not_full_, not_empty_, call, expired, reg>>
      BY <1>0, <1>4 DEF Lock, Go, TypeOK
    <2>3. t \notin not_full_ \cup not_empty_
      BY <1>0, <2>2 DEF WaitInv
    <2> QED
      BY <1>1, <1>3, <2>1, <2>2, <2>3 DEF Apart
  <1>5. ASSUME LeaveWait(t), UNCHANGED expired, TypeOK'
        PROVE  LockedInv' /\ [Channel!Next]_<<settled, out>>
    <2>1. /\ pc[t] = "waiting" /\ pc'[t] = "lock"
          /\ \A u \in Threads \ {t} : pc'[u] = pc[u]
          /\ not_full_' = not_full_ \ {t} /\ not_empty_' = not_empty_ \ {t}
          /\ UNCHANGED <<rbVars, mutex_, call, reg>>
      BY <1>0, <1>5 DEF LeaveWait, Go, TypeOK
    <2> QED
      BY <1>1, <1>3, <1>5, <2>1 DEF Apart
  <1>6. ~Timeout(t)
    <2>1. Timeout(t) => pc[t] = "waiting" /\ IsTimed(t)
      BY DEF Timeout, LeaveWait, Go
    <2> QED
      BY <1>3, <2>1 DEF IsTimed, Timed
  <1>7. SpuriousWakeup(t) => TypeOK'
    BY <1>0, LockTypes
  <1> QED
    BY <1>2, <1>4, <1>5, <1>6, <1>7 DEF SpuriousWakeup

LEMMA LockedUnchanged ==
  ASSUME LockedInv, UNCHANGED <<vars, settled>>
  PROVE  LockedInv'
  <1>1. NobodyTimed' /\ TypeOK' /\ WaitInv'
    BY TypesStep DEF LockedInv, NobodyTimed, vars, WaitInv
  <1>2. OwnerInv' /\ LockedCalls'
    BY DEF LockedInv, OwnerInv, LockedCalls, IsInsert, vars
  <1>3. BufferInv'
    BY BufferCarries DEF LockedInv, vars, rbVars
  <1>4. HistoryInv'
    BY DEF LockedInv, HistoryInv, QueueAt, IsInsert, vars
  <1> QED
    BY <1>1, <1>2, <1>3, <1>4 DEF LockedInv

LEMMA LockedInit == NobodyTimed /\ ObservedInit => LockedInv /\ Channel!Init
  <1> SUFFICES ASSUME NobodyTimed, ObservedInit PROVE LockedInv /\ Channel!Init
    OBVIOUS
  <1>1. /\ TypeOK /\ ring_buffer /\ settled = <<>> /\ mutex_ = Nobody
        /\ not_full_ = {} /\ not_empty_ = {}
        /\ \A t \in Threads : pc[t] = "idle" /\ ~expired[t]
        /\ out = W!Report(<<"ring_buffer">>, W!Void)
    BY TypesInit DEF ObservedInit, Init
  <1>2. WaitInv
    BY <1>1 DEF WaitInv
  <1>3. OwnerInv
    BY <1>1, TransferAssumption DEF OwnerInv, Apart
  <1>4. LockedCalls
    BY <1>1 DEF LockedCalls
  <1>5. BufferInv
    BY <1>1, NewSound DEF BufferInv, InBody
  <1>6. HistoryInv
    <2>1. QueueAt("idle") = Client!Elements(buffer_, head_, 0)
      BY <1>1 DEF QueueAt, Queue, Front, Held, Appended, Removed, ring_buffer
    <2>2. buffer_ \in [Slots -> Cells] /\ head_ \in Slots /\ 0 \in 0 .. Capacity
      BY <1>1, CapacityAssumption DEF TypeOK
    <2>3. QueueAt("idle") = <<>>
      BY <2>1, <2>2, Client!ElementsSeq, StorageIsClients, CapacityAssumption,
         RawAssumption
    <2> QED
      BY <1>1, <2>3 DEF HistoryInv, Apart
  <1>7. Channel!Init
    BY <1>1, SameReports
       DEF Channel!Init, Channel!W!Init, W!Report, Channel!W!Report, W!Void,
           Channel!W!Void
  <1> QED
    BY <1>1, <1>2, <1>3, <1>4, <1>5, <1>6, <1>7 DEF LockedInv

LEMMA LockedStep ==
  LockedInv /\ [ObservedNext]_<<vars, settled, out>>
    => LockedInv' /\ [Channel!Next]_<<settled, out>>
  <1> SUFFICES ASSUME LockedInv, [ObservedNext]_<<vars, settled, out>>
               PROVE  LockedInv' /\ [Channel!Next]_<<settled, out>>
    OBVIOUS
  <1>1. CASE ObservedNext
    <2>1. Next /\ Settles /\ Reports
      BY <1>1 DEF ObservedNext, Settles, Reports
    <2>2. PICK t \in Threads :
            \/ \E op \in Calls[t] : \E item \in Items(op) : Call(t, op, item)
            \/ Lock(t) \/ Timeout(t) \/ SpuriousWakeup(t)
            \/ Proceed(t)
      BY <2>1 DEF Next
    <2> QED
      BY <2>1, <2>2, LockedProceed, LockedOther
  <1>2. CASE UNCHANGED <<vars, settled, out>>
    <2>1. UNCHANGED <<vars, settled>> /\ UNCHANGED <<settled, out>>
      BY <1>2
    <2> QED
      BY <2>1, LockedUnchanged
  <1> QED
    BY <1>1, <1>2

(* Under the mutex nothing interferes, statement by statement: whoever has *)
(* it is the only one in a body, finds the buffer sound, reads no member   *)
(* that changes before it writes it back, and leaves the buffer sound.     *)
THEOREM LockedInvariant == NobodyTimed /\ ObservedSpec => []LockedInv
  BY LockedInit, LockedStep, PTL DEF ObservedSpec

(* For every capacity, any number of threads and whatever they insert: the *)
(* functions that keep the mutex to their end may be seen as one step of   *)
(* the bounded queue each, although their bodies are a dozen accesses to   *)
(* members that other threads use, and any number of other threads may     *)
(* call, wait and wake up between any two of them.                         *)
THEOREM LockedTransfersImplementChannel ==
  NobodyTimed /\ ObservedSpec => ImplementsChannel
  BY LockedInit, LockedStep, PTL DEF ObservedSpec, ImplementsChannel, Channel!Spec
=============================================================================
