------------------------ MODULE ThreadSafeRingBuffer ------------------------
(***************************************************************************)
(* ring_buffer_thread_safe (include/thread_safe_ring_buffer.h): threads    *)
(* call the member functions of one wrapper, which guards its ring_buffer  *)
(* with mutex_ and blocks on the condition variables not_full_ and         *)
(* not_empty_.                                                             *)
(*                                                                         *)
(* A call is three kinds of step: the call itself, taking the mutex, and   *)
(* what the function does while it owns the mutex up to the unlock at its  *)
(* end or in a wait.  The last is one action: every call in this module    *)
(* touches the buffer only as the owner of the mutex, so no thread         *)
(* observes a point between.  push_back_with_timeout and                   *)
(* pop_front_with_timeout, whose bodies run after the unlock, are not      *)
(* among the calls of this module.  T may throw wherever one is copied or  *)
(* moved.                                                                  *)
(***************************************************************************)
EXTENDS RingBuffer, FiniteSets

CONSTANTS
  Threads,
  Nobody,  \* the owner of a free mutex
  Calls    \* Calls[t]: the member functions thread t calls

Inserts == {"push_back", "emplace_back"}

TimedWaits == {"wait_until_not_full", "wait_until_not_empty"}

Operations ==
  Inserts \cup TimedWaits \cup
  {"try_push_back", "pop_front", "try_pop_front", "clear", "front", "back",
   "at", "size", "available", "empty", "full"}

ASSUME ThreadAssumption == Nobody \notin Threads /\ IsFiniteSet(Threads)

ASSUME CallsAssumption == Calls \in [Threads -> SUBSET Operations]

VARIABLES
  mutex_,      \* the owner of the mutex
  not_full_,   \* the threads blocked on the condition variable not_full_
  not_empty_,  \* the threads blocked on not_empty_
  pc,          \* where each thread is in its call
  call,        \* the function it is in, and the item or index given to it
  expired,     \* whether its wait has timed out
  out,         \* the last call to finish and its result
  thrown       \* history: how many blocking insertions have thrown since one
               \* last went to sleep, counted up to Capacity

vars == <<buffer_, head_, tail_, count_, full_, just_overwrote_,
          overwrite_position_, mutex_, not_full_, not_empty_, pc, call,
          expired, out, thrown>>

Channel == INSTANCE BoundedChannel WITH q <- Contents

W == INSTANCE SlidingWindow WITH q <- Contents

NoCall == [op |-> "none", arg |-> Raw]

(* The argument of a call: an item, an index, or none (Raw).               *)
Args(op) ==
  IF op \in Inserts \cup {"try_push_back"} THEN Values
  ELSE IF op = "at" THEN 0 .. Capacity ELSE {Raw}

CallRecords == {NoCall} \cup
  UNION {[op : {op}, arg : Args(op)] : op \in Operations}

TypeOK ==
  /\ RingBufferTypeOK
  /\ mutex_ \in Threads \cup {Nobody}
  /\ not_full_ \subseteq Threads
  /\ not_empty_ \subseteq Threads
  /\ pc \in [Threads -> {"idle", "lock", "owner", "waiting", "relock"}]
  /\ call \in [Threads -> CallRecords]
  /\ expired \in [Threads -> BOOLEAN]
  /\ thrown \in 0 .. Capacity

Init ==
  /\ ring_buffer
  /\ mutex_ = Nobody
  /\ not_full_ = {}
  /\ not_empty_ = {}
  /\ pc = [t \in Threads |-> "idle"]
  /\ call = [t \in Threads |-> NoCall]
  /\ expired = [t \in Threads |-> FALSE]
  /\ out = W!Report(<<"ring_buffer">>, W!Void)
  /\ thrown = 0

-----------------------------------------------------------------------------
(* Entering and leaving.                                                   *)

Call(t, op, arg) ==
  /\ pc[t] = "idle"
  /\ pc' = [pc EXCEPT ![t] = "lock"]
  /\ call' = [call EXCEPT ![t] = [op |-> op, arg |-> arg]]
  /\ UNCHANGED <<rbVars, mutex_, not_full_, not_empty_, expired, out, thrown>>

(* The lock_guard or unique_lock of the function, and the re-lock at the   *)
(* end of a wait.                                                          *)
Lock(t) ==
  /\ pc[t] \in {"lock", "relock"}
  /\ mutex_ = Nobody
  /\ mutex_' = t
  /\ pc' = [pc EXCEPT ![t] = "owner"]
  /\ UNCHANGED <<rbVars, not_full_, not_empty_, call, expired, out, thrown>>

Inside(t, ops) == pc[t] = "owner" /\ call[t].op \in ops

CallOf(t) ==
  IF call[t].op \in Inserts \cup {"try_push_back", "at"}
  THEN <<call[t].op, call[t].arg>> ELSE <<call[t].op>>

(* The function returns: the mutex is released, and the threads in woken,  *)
(* which a notify has removed from their wait set, contend for it.         *)
Return(t, result, woken) ==
  /\ mutex_' = Nobody
  /\ pc' = [u \in Threads |-> IF u = t THEN "idle"
                              ELSE IF u \in woken THEN "relock" ELSE pc[u]]
  /\ call' = [call EXCEPT ![t] = NoCall]
  /\ expired' = [expired EXCEPT ![t] = FALSE]
  /\ out' = W!Report(CallOf(t), result)

(* Mutant: the notification is forgotten.                                  *)
notify_one_never(waiters) == {{}}

(* condition_variable: the sets of threads a notify_one may wake, one      *)
(* waiter or, when there is none, nobody.                                  *)
notify_one(waiters) ==
  IF waiters = {} THEN {{}} ELSE {{w} : w \in waiters}

(* Block on a condition variable: atomically release the mutex and join    *)
(* its waiters.                                                            *)
Block(t) ==
  /\ mutex_' = Nobody
  /\ pc' = [pc EXCEPT ![t] = "waiting"]
  /\ UNCHANGED <<rbVars, call, expired, out>>

(* A notify_one on not_empty_ or on not_full_, and the return.             *)
ReturnNotEmpty(t, result) ==
  /\ \E woken \in notify_one(not_empty_) :
       /\ not_empty_' = not_empty_ \ woken
       /\ Return(t, result, woken)
  /\ UNCHANGED <<not_full_, thrown>>

ReturnNotFull(t, result) ==
  /\ \E woken \in notify_one(not_full_) :
       /\ not_full_' = not_full_ \ woken
       /\ Return(t, result, woken)
  /\ UNCHANGED <<not_empty_, thrown>>

ReturnOnly(t, result) ==
  /\ Return(t, result, {})
  /\ UNCHANGED <<rbVars, not_full_, not_empty_, thrown>>

-----------------------------------------------------------------------------
(* Inserting.                                                              *)

(* Mutant: the predicate is not tested again after the wait.               *)
PushBack_unchecked(t) ==
  /\ Inside(t, Inserts)
  /\ push_back(call[t].arg)
  /\ ReturnNotEmpty(t, W!Void)

(* push_back (both overloads) and emplace_back once there is room.         *)
PushBack(t) ==
  /\ Inside(t, Inserts)
  /\ ~full_
  /\ \/ call[t].op = "push_back" /\ push_back(call[t].arg)
     \/ call[t].op = "emplace_back" /\ emplace_back(call[t].arg)
  /\ ReturnNotEmpty(t, W!Void)

(* The predicate of not_full_.wait is false: wait, or wait again.          *)
PushBackWaits(t) ==
  /\ Inside(t, Inserts)
  /\ full_
  /\ Block(t)
  /\ not_full_' = not_full_ \cup {t}
  /\ thrown' = 0
  /\ UNCHANGED not_empty_

TryPushBack(t) ==
  /\ Inside(t, {"try_push_back"})
  /\ \/ full_ /\ ReturnOnly(t, W!Flag(FALSE))
     \/ ~full_ /\ push_back(call[t].arg) /\ ReturnNotEmpty(t, W!Flag(TRUE))

(* T throws in the buffer's push_back or emplace_back: the lock unwinds    *)
(* with no notification, and the one that woke this thread is used up.     *)
InsertThrows(t) ==
  /\ Inside(t, Inserts \cup {"try_push_back"})
  /\ ~full_
  /\ buffer_' = LeftBehind("push_back")
  /\ Return(t, W!Thrown, {})
  /\ thrown' = IF call[t].op \in Inserts /\ thrown < Capacity
               THEN thrown + 1 ELSE thrown
  /\ UNCHANGED <<head_, tail_, count_, full_, just_overwrote_,
                 overwrite_position_, not_full_, not_empty_>>

-----------------------------------------------------------------------------
(* Removing.                                                               *)

(* pop_front throws ring_buffer_exception out of the inner pop_front, with *)
(* no notification.                                                        *)
PopFront(t) ==
  /\ Inside(t, {"pop_front"})
  /\ \/ empty /\ ReturnOnly(t, W!Thrown)
     \/ pop_front /\ ReturnNotFull(t, W!Element(front))

TryPopFront(t) ==
  /\ Inside(t, {"try_pop_front"})
  /\ \/ empty /\ ReturnOnly(t, Channel!Nullopt)
     \/ pop_front /\ ReturnNotFull(t, W!Element(front))

(* T throws in the buffer's pop_front, which leaves the element and        *)
(* notifies nobody; or when try_pop_front, having removed it and notified, *)
(* moves it into the optional it returns.                                  *)
RemoveThrows(t) ==
  /\ ~empty
  /\ \/ Inside(t, {"pop_front", "try_pop_front"}) /\ ReturnOnly(t, W!Thrown)
     \/ Inside(t, {"try_pop_front"}) /\ pop_front /\ ReturnNotFull(t, W!Thrown)

(* Mutant: notify_one where clear needs notify_all.                        *)
Clear_notify_one(t) ==
  /\ Inside(t, {"clear"})
  /\ clear
  /\ ReturnNotFull(t, W!Void)

Clear(t) ==
  /\ Inside(t, {"clear"})
  /\ clear
  /\ Return(t, W!Void, not_full_)
  /\ not_full_' = {}
  /\ UNCHANGED <<not_empty_, thrown>>

-----------------------------------------------------------------------------
(* The timed waits.  wait_for tests its predicate first, after every       *)
(* wake-up, and once more after the timeout.                               *)

WaitUntilNotFull(t) ==
  /\ Inside(t, {"wait_until_not_full"})
  /\ \/ /\ ~full_ \/ expired[t]
        /\ ReturnOnly(t, W!Flag(~full_))
     \/ /\ full_
        /\ ~expired[t]
        /\ Block(t)
        /\ not_full_' = not_full_ \cup {t}
        /\ UNCHANGED <<not_empty_, thrown>>

WaitUntilNotEmpty(t) ==
  /\ Inside(t, {"wait_until_not_empty"})
  /\ \/ /\ ~empty \/ expired[t]
        /\ ReturnOnly(t, W!Flag(~empty))
     \/ /\ empty
        /\ ~expired[t]
        /\ Block(t)
        /\ not_empty_' = not_empty_ \cup {t}
        /\ UNCHANGED <<not_full_, thrown>>

(* Leaving the wait set without a notification.                            *)
LeaveWait(t) ==
  /\ pc[t] = "waiting"
  /\ pc' = [pc EXCEPT ![t] = "relock"]
  /\ not_full_' = not_full_ \ {t}
  /\ not_empty_' = not_empty_ \ {t}
  /\ UNCHANGED <<rbVars, mutex_, call, out, thrown>>

(* Mutant: the result of the timed wait is ignored, and the wait starts    *)
(* over.                                                                   *)
Timeout_ignored(t) ==
  /\ call[t].op \in TimedWaits
  /\ LeaveWait(t)
  /\ UNCHANGED expired

Timeout(t) ==
  /\ call[t].op \in TimedWaits
  /\ LeaveWait(t)
  /\ expired' = [expired EXCEPT ![t] = TRUE]

SpuriousWakeup(t) == LeaveWait(t) /\ UNCHANGED expired

-----------------------------------------------------------------------------
(* Observers.  front, back and operator[] return a reference; the result   *)
(* here is the element it refers to at that moment.                        *)

ReturnElement(t, slot) == ReturnOnly(t, W!Element(buffer_[slot]))

Access(t) ==
  \/ /\ Inside(t, {"front", "back"})
     /\ empty
     /\ ReturnOnly(t, W!Thrown)
  \/ Inside(t, {"front"}) /\ ~empty /\ ReturnElement(t, head_)
  \/ Inside(t, {"back"}) /\ ~empty /\ ReturnElement(t, back_slot)
  \/ /\ Inside(t, {"at"})
     /\ \/ call[t].arg >= count_ /\ ReturnOnly(t, W!Thrown)
        \/ call[t].arg < count_ /\ ReturnElement(t, slot_at(call[t].arg))

Query(t) ==
  \/ Inside(t, {"size"}) /\ ReturnOnly(t, W!Number(size))
  \/ Inside(t, {"available"}) /\ ReturnOnly(t, W!Number(available))
  \/ Inside(t, {"empty"}) /\ ReturnOnly(t, W!Flag(empty))
  \/ Inside(t, {"full"}) /\ ReturnOnly(t, W!Flag(full_))

-----------------------------------------------------------------------------
(* What a thread does as the owner of the mutex.                           *)
Critical(t) ==
  \/ PushBack(t)
  \/ PushBackWaits(t)
  \/ TryPushBack(t)
  \/ InsertThrows(t)
  \/ PopFront(t)
  \/ TryPopFront(t)
  \/ RemoveThrows(t)
  \/ Clear(t)
  \/ WaitUntilNotFull(t)
  \/ WaitUntilNotEmpty(t)
  \/ Access(t)
  \/ Query(t)

Next ==
  \E t \in Threads :
    \/ \E op \in Calls[t] : \E arg \in Args(op) : Call(t, op, arg)
    \/ Lock(t)
    \/ Critical(t)
    \/ Timeout(t)
    \/ SpuriousWakeup(t)

Spec == Init /\ [][Next]_vars

(* A thread in its critical section runs on; the mutex does not starve a   *)
(* thread that asks for it (the others release it, and sleep or wait,      *)
(* again and again); the deadline of a timed wait comes, however often the *)
(* thread wakes up before it.  Nobody has to make another call, and no     *)
(* spurious wake-up has to happen.                                         *)
Fairness ==
  \A t \in Threads :
    /\ WF_vars(Critical(t))
    /\ SF_vars(Lock(t))
    /\ SF_vars(Timeout(t))

FairSpec == Spec /\ Fairness

-----------------------------------------------------------------------------
(* Properties.                                                             *)

(* Blocked insertions, and insertions that have the mutex or were woken    *)
(* and will test the predicate again.                                      *)
Blocked == {t \in not_full_ : call[t].op \in Inserts}

Underway == {t \in Threads : call[t].op \in Inserts
                              /\ pc[t] \in {"owner", "relock"}}

(* The wrapper is a linearizable bounded queue: every result is right for  *)
(* the elements at the moment its function held the mutex, and no          *)
(* insertion overwrites an element, although a woken producer may find     *)
(* that another has taken the slot it was woken for.                       *)
ImplementsChannel == Channel!Spec

(* A notification is lost only in an insertion that throws, and each of    *)
(* these loses one: while an insertion is blocked, every free slot has an  *)
(* insertion under way that will fill it, or one that has thrown since the *)
(* last went to sleep.  Otherwise one notify_one for each removal is       *)
(* enough, and clear() wakes as many as it must.                           *)
NoLostWakeup ==
  Blocked # {} => Cardinality(Underway) + thrown >= Capacity - count_

(* push_back's comment: "If the buffer is full, waits until space becomes  *)
(* available before inserting".  So when every thread is at rest, outside  *)
(* the wrapper or in a wait, an insertion is blocked only by a full        *)
(* buffer.                                                                 *)
WaitsOnlyForSpace ==
  (\A t \in Threads : pc[t] \in {"idle", "waiting"}) /\ Blocked # {} => full_

(* A blocked insertion is not forgotten: whenever there are free slots     *)
(* that no exception accounts for, eventually they are filled or no        *)
(* insertion is blocked any more.                                          *)
FreeSlotIsUsed ==
  (Blocked # {} /\ Capacity - count_ > thrown)
    ~> (Capacity - count_ <= thrown \/ Blocked = {})

(* A timed wait ends, notified or not.                                     *)
TimedWaitReturns ==
  \A t \in Threads : call[t].op \in TimedWaits ~> pc[t] = "idle"
=============================================================================
