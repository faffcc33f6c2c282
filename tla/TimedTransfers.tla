--------------------------- MODULE TimedTransfers ---------------------------
(***************************************************************************)
(* ring_buffer_thread_safe, one access to a member of the buffer at a      *)
(* time.  The unique_lock of push_back_with_timeout and of                 *)
(* pop_front_with_timeout is scoped to the if statement that waits: the    *)
(* insertion or removal behind it and its notification run without the     *)
(* mutex, concurrently with every other function.  A statement of the      *)
(* bodies is one step; one that reads a member and writes it back          *)
(* (head_, tail_, count_) is two, as in a build without optimisation,      *)
(* which loads count_ for its test and again for its decrement.            *)
(*                                                                         *)
(* LockedTransfers uses the module, restricted to the functions that stay  *)
(* under the mutex, to show that ThreadSafeRingBuffer may treat a critical *)
(* section as one action.                                                  *)
(***************************************************************************)
EXTENDS RingBuffer, FiniteSets

CONSTANTS
  Threads,
  Nobody,    \* the owner of a free mutex
  Calls,     \* Calls[t]: the functions thread t calls
  MaxCount,  \* bound: no call starts while count_ is above this value
  SizeMax    \* the largest size_t: one less than a power of 2

Inserts == {"push_back", "push_back_with_timeout"}

Removals == {"try_pop_front", "pop_front_with_timeout"}

Timed == {"push_back_with_timeout", "pop_front_with_timeout"}

ASSUME TransferAssumption ==
  /\ Nobody \notin Threads /\ IsFiniteSet(Threads)
  /\ Calls \in [Threads -> SUBSET (Inserts \cup Removals)]
  /\ MaxCount \in Nat /\ MaxCount >= Capacity
  /\ SizeMax \in Nat /\ MaxCount <= SizeMax

VARIABLES
  mutex_, not_full_, not_empty_,  \* as in ThreadSafeRingBuffer
  pc,       \* where each thread is
  call,     \* the function it is in, and the item to insert or moved out
  expired,  \* whether its deadline has passed
  reg       \* the value it has read and is about to write back, changed

vars == <<buffer_, head_, tail_, count_, full_, just_overwrote_,
          overwrite_position_, mutex_, not_full_, not_empty_, pc, call,
          expired, reg>>

size_t == 0 .. SizeMax

Labels ==
  {"idle", "lock", "test", "block", "waiting", "unlock",
   "push", "assign", "remember", "advance", "advanced", "mark",
   "construct", "tail", "tailed", "count", "increment", "counted", "compare",
   "pop", "move", "destroy", "head", "headed", "unfull", "uncount",
   "decrement", "uncounted", "unmark", "notify", "threw"}

(* Types.  head_ and tail_ stay in the storage even when two functions     *)
(* advance them at once: each writes back a value it has wrapped.          *)
TypeOK ==
  /\ buffer_ \in [Slots -> Cells]
  /\ head_ \in Slots
  /\ tail_ \in Slots
  /\ overwrite_position_ \in Slots
  /\ count_ \in size_t
  /\ full_ \in BOOLEAN
  /\ just_overwrote_ \in BOOLEAN
  /\ mutex_ \in Threads \cup {Nobody}
  /\ not_full_ \subseteq Threads
  /\ not_empty_ \subseteq Threads
  /\ pc \in [Threads -> Labels]
  /\ call \in [Threads -> [op : Inserts \cup Removals \cup {"none"}, item : Cells]]
  /\ expired \in [Threads -> BOOLEAN]
  /\ reg \in [Threads -> size_t]

NoCall == [op |-> "none", item |-> Raw]

Init ==
  /\ ring_buffer
  /\ mutex_ = Nobody
  /\ not_full_ = {}
  /\ not_empty_ = {}
  /\ pc = [t \in Threads |-> "idle"]
  /\ call = [t \in Threads |-> NoCall]
  /\ expired = [t \in Threads |-> FALSE]
  /\ reg = [t \in Threads |-> 0]

-----------------------------------------------------------------------------
(* Entering, waiting and leaving.                                          *)

Go(t, from, to) == pc[t] = from /\ pc' = [pc EXCEPT ![t] = to]

IsInsert(t) == call[t].op \in Inserts

IsTimed(t) == call[t].op \in Timed

(* Mutant: every lock is scoped to an if statement.                        *)
ReleasesEarly_all(t) == TRUE

(* The functions whose unique_lock does not outlive the if statement.      *)
ReleasesEarly(t) == IsTimed(t)

Call(t, op, item) ==
  /\ count_ <= MaxCount
  /\ Go(t, "idle", "lock")
  /\ call' = [call EXCEPT ![t] = [op |-> op, item |-> item]]
  /\ UNCHANGED <<rbVars, mutex_, not_full_, not_empty_, expired, reg>>

Lock(t) ==
  /\ mutex_ = Nobody
  /\ mutex_' = t
  /\ Go(t, "lock", "test")
  /\ UNCHANGED <<rbVars, not_full_, not_empty_, call, expired, reg>>

(* The function returns; the threads in woken, taken from their wait set,  *)
(* contend for the mutex.                                                  *)
Return(t, woken) ==
  /\ pc' = [u \in Threads |-> IF u = t THEN "idle"
                              ELSE IF u \in woken THEN "lock" ELSE pc[u]]
  /\ call' = [call EXCEPT ![t] = NoCall]
  /\ expired' = [expired EXCEPT ![t] = FALSE]
  /\ reg' = [reg EXCEPT ![t] = 0]
  /\ mutex_' = IF mutex_ = t THEN Nobody ELSE mutex_
  /\ not_full_' = not_full_ \ woken
  /\ not_empty_' = not_empty_ \ woken
  /\ UNCHANGED rbVars

(* Mutant: an insertion does not wait for space.                           *)
Blocked_never_full(t) == ~IsInsert(t) /\ empty

(* The predicate of the wait, or the test of try_pop_front.                *)
Blocked(t) == IF IsInsert(t) THEN full_ ELSE empty

Test(t) ==
  \/ /\ ~Blocked(t)
     /\ Go(t, "test", IF ReleasesEarly(t) THEN "unlock"
                      ELSE IF IsInsert(t) THEN "push" ELSE "pop")
     /\ UNCHANGED <<rbVars, mutex_, not_full_, not_empty_, call, expired, reg>>
  \/ /\ pc[t] = "test"
     /\ Blocked(t)
     /\ expired[t] \/ call[t].op = "try_pop_front"
     /\ Return(t, {})
  \/ /\ Blocked(t)
     /\ ~expired[t]
     /\ call[t].op # "try_pop_front"
     /\ Go(t, "test", "block")
     /\ UNCHANGED <<rbVars, mutex_, not_full_, not_empty_, call, expired, reg>>

Block(t) ==
  /\ Go(t, "block", "waiting")
  /\ mutex_' = Nobody
  /\ \/ IsInsert(t) /\ not_full_' = not_full_ \cup {t} /\ UNCHANGED not_empty_
     \/ ~IsInsert(t) /\ not_empty_' = not_empty_ \cup {t} /\ UNCHANGED not_full_
  /\ UNCHANGED <<rbVars, call, expired, reg>>

LeaveWait(t) ==
  /\ Go(t, "waiting", "lock")
  /\ not_full_' = not_full_ \ {t}
  /\ not_empty_' = not_empty_ \ {t}
  /\ UNCHANGED <<rbVars, mutex_, call, reg>>

(* Mutant: the result of the timed wait is ignored, and it starts over.    *)
Timeout_ignored(t) == IsTimed(t) /\ LeaveWait(t) /\ UNCHANGED expired

Timeout(t) ==
  IsTimed(t) /\ LeaveWait(t) /\ expired' = [expired EXCEPT ![t] = TRUE]

SpuriousWakeup(t) == LeaveWait(t) /\ UNCHANGED expired

(* The end of the if statement of a timed transfer.                        *)
Unlock(t) ==
  /\ Go(t, "unlock", IF IsInsert(t) THEN "push" ELSE "pop")
  /\ mutex_' = Nobody
  /\ UNCHANGED <<rbVars, not_full_, not_empty_, call, expired, reg>>

-----------------------------------------------------------------------------
(* The bodies: ring_buffer::push_back and ring_buffer::pop_front.          *)

(* A statement changes at most the one variable named.                     *)
Others(changed) ==
  /\ changed # "buffer_" => UNCHANGED buffer_
  /\ changed # "head_" => UNCHANGED head_
  /\ changed # "tail_" => UNCHANGED tail_
  /\ changed # "count_" => UNCHANGED count_
  /\ changed # "full_" => UNCHANGED full_
  /\ changed # "just_overwrote_" => UNCHANGED just_overwrote_
  /\ changed # "overwrite_position_" => UNCHANGED overwrite_position_
  /\ changed # "call" => UNCHANGED call
  /\ UNCHANGED <<mutex_, not_full_, not_empty_, expired>>

Only(changed) == UNCHANGED reg /\ Others(changed)

Read(t, member) == reg' = [reg EXCEPT ![t] = member] /\ Others("none")

(* The value read is written back and no longer needed.                    *)
WriteBack(t, member) == reg' = [reg EXCEPT ![t] = 0] /\ Others(member)

Write(slot, cell) == buffer_' = [buffer_ EXCEPT ![slot] = cell] /\ Only("buffer_")

(* Mutant: the index is wrapped one step later than it is advanced.        *)
NextIndex_unwrapped(t) == reg[t] + 1

NextIndex(t) == (reg[t] + 1) % Capacity

Push(t) ==
  \/ Go(t, "push", IF full_ THEN "assign" ELSE "construct") /\ Only("none")
  (* overwrite *)
  \/ Go(t, "assign", "remember") /\ Write(head_, call[t].item)
  \/ /\ Go(t, "remember", "advance")
     /\ overwrite_position_' = head_
     /\ Only("overwrite_position_")
  \/ Go(t, "advance", "advanced") /\ Read(t, head_)
  \/ Go(t, "advanced", "mark") /\ head_' = NextIndex(t) /\ WriteBack(t, "head_")
  \/ Go(t, "mark", "notify") /\ just_overwrote_' = TRUE /\ Only("just_overwrote_")
  (* append *)
  \/ Go(t, "construct", "tail") /\ Write(tail_, call[t].item)
  \/ Go(t, "tail", "tailed") /\ Read(t, tail_)
  \/ Go(t, "tailed", "count") /\ tail_' = NextIndex(t) /\ WriteBack(t, "tail_")
  \/ full_ /\ Go(t, "count", "unmark") /\ Only("none")
  \/ ~full_ /\ Go(t, "count", "increment") /\ Only("none")
  \/ Go(t, "increment", "counted") /\ Read(t, count_)
  \/ /\ Go(t, "counted", "compare")
     /\ count_' = (reg[t] + 1) % (SizeMax + 1)
     /\ WriteBack(t, "count_")
  \/ Go(t, "compare", "unmark") /\ full_' = (count_ = Capacity) /\ Only("full_")

Pop(t) ==
  \/ ~empty /\ Go(t, "pop", "move") /\ Only("none")
  \/ empty /\ Go(t, "pop", "threw") /\ Only("none")
  \/ /\ Go(t, "move", "destroy")
     /\ call' = [call EXCEPT ![t].item = buffer_[head_]]
     /\ Only("call")
  \/ Go(t, "destroy", "head") /\ Write(head_, Raw)
  \/ Go(t, "head", "headed") /\ Read(t, head_)
  \/ Go(t, "headed", "unfull") /\ head_' = NextIndex(t) /\ WriteBack(t, "head_")
  \/ Go(t, "unfull", "uncount") /\ full_' = FALSE /\ Only("full_")
  \/ Go(t, "uncount", IF empty THEN "unmark" ELSE "decrement") /\ Only("none")
  \/ Go(t, "decrement", "uncounted") /\ Read(t, count_)
  \/ /\ Go(t, "uncounted", "unmark")
     /\ count_' = (reg[t] - 1) % (SizeMax + 1)
     /\ WriteBack(t, "count_")

(* The last statement of increment_tail and of increment_head.             *)
Unmark(t) ==
  Go(t, "unmark", "notify") /\ just_overwrote_' = FALSE /\ Only("just_overwrote_")

notify_one(waiters) == IF waiters = {} THEN {{}} ELSE {{w} : w \in waiters}

Notify(t) ==
  /\ pc[t] = "notify"
  /\ \E woken \in notify_one(IF IsInsert(t) THEN not_empty_ ELSE not_full_) :
       Return(t, woken)

(* ring_buffer_exception leaves the function; a lock_guard is released.    *)
Unwind(t) == pc[t] = "threw" /\ Return(t, {})

-----------------------------------------------------------------------------
Items(op) == IF op \in Inserts THEN Values ELSE {Raw}

(* What a thread does by itself, once it has the mutex or needs none.      *)
Proceed(t) ==
  \/ Test(t)
  \/ Block(t)
  \/ Unlock(t)
  \/ Push(t)
  \/ Pop(t)
  \/ Unmark(t)
  \/ Notify(t)
  \/ Unwind(t)

Next ==
  \E t \in Threads :
    \/ \E op \in Calls[t] : \E item \in Items(op) : Call(t, op, item)
    \/ Lock(t)
    \/ Proceed(t)
    \/ Timeout(t)
    \/ SpuriousWakeup(t)

Spec == Init /\ [][Next]_vars

(* As in ThreadSafeRingBuffer: running threads run on, the mutex starves   *)
(* nobody, deadlines come.                                                 *)
Fairness ==
  \A t \in Threads :
    /\ WF_vars(Proceed(t))
    /\ SF_vars(Lock(t))
    /\ SF_vars(Timeout(t))

FairSpec == Spec /\ Fairness

-----------------------------------------------------------------------------
(* Properties.                                                             *)

(* A timed transfer ends, even if concurrent bodies have left full_ and    *)
(* count_ in disagreement or a notification was lost: nothing but its      *)
(* deadline bounds the wait.                                               *)
TimedTransferReturns ==
  \A t \in Threads : IsTimed(t) ~> pc[t] = "idle"

(* pop_front_with_timeout returns "the front element if available,         *)
(* std::nullopt if timeout occurred": it does not throw.                   *)
TimedPopNeverThrows ==
  \A t \in Threads : pc[t] = "threw" => call[t].op # "pop_front_with_timeout"
=============================================================================
