----------------------------- MODULE RingBuffer -----------------------------
(***************************************************************************)
(* One object of ring_buffer<T, Allocator> (include/ring_buffer.h).  Every *)
(* data member is a variable; every member function is an operator: a      *)
(* state function for an observer, an action for a modifier.  The storage  *)
(* buffer_ points to is a function on Slots; a slot holds a value (a       *)
(* constructed T) or Raw (memory in which no T is alive: never             *)
(* constructed, or destroyed).  Reading a Raw slot is undefined behaviour  *)
(* in C++; here it yields the symbolic content Raw, which no correct       *)
(* result contains.  The allocator itself keeps no state and is left out.  *)
(***************************************************************************)
EXTENDS Integers, Sequences

CONSTANTS
  Values,    \* the values of type T
  Raw,       \* content of a slot in which no T is alive
  Capacity   \* the constructor's argument, capacity_ from then on

(* The constructor throws std::invalid_argument for a capacity of 0.       *)
ASSUME CapacityAssumption == Capacity \in Nat \ {0}

ASSUME RawAssumption == Raw \notin Values

VARIABLES
  buffer_, head_, tail_, count_, full_, just_overwrote_, overwrite_position_

rbVars == <<buffer_, head_, tail_, count_, full_, just_overwrote_,
            overwrite_position_>>

Slots == 0 .. Capacity - 1

Cells == Values \cup {Raw}

RingBufferTypeOK ==
  /\ buffer_ \in [Slots -> Cells]
  /\ head_ \in Slots
  /\ tail_ \in Slots
  /\ count_ \in 0 .. Capacity
  /\ full_ \in BOOLEAN
  /\ just_overwrote_ \in BOOLEAN
  /\ overwrite_position_ \in Slots

(* The constructor.                                                        *)
ring_buffer ==
  /\ buffer_ = [s \in Slots |-> Raw]
  /\ head_ = 0
  /\ tail_ = 0
  /\ count_ = 0
  /\ full_ = FALSE
  /\ just_overwrote_ = FALSE
  /\ overwrite_position_ = 0

-----------------------------------------------------------------------------
(* Observers.                                                              *)

decrement_index(index) == IF index = 0 THEN Capacity - 1 ELSE index - 1

size == count_

empty == count_ = 0

available == IF full_ THEN 0 ELSE Capacity - count_

front == buffer_[head_]

(* Mutant: the remembered write position is ignored.                       *)
back_slot_tail_only == decrement_index(tail_)

(* The slot back() reads.                                                  *)
back_slot ==
  IF just_overwrote_ THEN overwrite_position_ ELSE decrement_index(tail_)

back == buffer_[back_slot]

(* operator[]: the slot of the element with this index, 0 at the front.    *)
slot_at(index) == (head_ + index) % Capacity

at(index) == buffer_[slot_at(index)]

(* The elements from front to back, as operator[] and the iterators        *)
(* deliver them, and their slots.                                          *)
Contents == [i \in 1 .. count_ |-> at(i - 1)]

Window == {slot_at(i) : i \in 0 .. count_ - 1}

(* The slots in which an element is alive.                                 *)
LiveSlots == {s \in Slots : buffer_[s] # Raw}

-----------------------------------------------------------------------------
(* The private index functions.                                            *)

(* Mutant: a full_ flag that survives a removal.                           *)
increment_head_stays_full ==
  /\ head_' = (head_ + 1) % Capacity
  /\ count_' = IF count_ > 0 THEN count_ - 1 ELSE count_
  /\ just_overwrote_' = FALSE
  /\ UNCHANGED <<full_, tail_, overwrite_position_>>

increment_head ==
  /\ head_' = (head_ + 1) % Capacity
  /\ full_' = FALSE
  /\ count_' = IF count_ > 0 THEN count_ - 1 ELSE count_
  /\ just_overwrote_' = FALSE
  /\ UNCHANGED <<tail_, overwrite_position_>>

(* Mutant: the write position is recorded after head_ has moved.           *)
overwrite_advance_head_late ==
  /\ head_' = (head_ + 1) % Capacity
  /\ overwrite_position_' = (head_ + 1) % Capacity
  /\ just_overwrote_' = TRUE
  /\ UNCHANGED <<tail_, count_, full_>>

overwrite_advance_head ==
  /\ overwrite_position_' = head_
  /\ head_' = (head_ + 1) % Capacity
  /\ just_overwrote_' = TRUE
  /\ UNCHANGED <<tail_, count_, full_>>

(* Mutant: full_ is computed from the count before the increment.          *)
increment_tail_late_full ==
  /\ tail_' = (tail_ + 1) % Capacity
  /\ count_' = IF full_ THEN count_ ELSE count_ + 1
  /\ full_' = (full_ \/ count_ = Capacity)
  /\ just_overwrote_' = FALSE
  /\ UNCHANGED <<head_, overwrite_position_>>

increment_tail ==
  /\ tail_' = (tail_ + 1) % Capacity
  /\ count_' = IF full_ THEN count_ ELSE count_ + 1
  /\ full_' = (full_ \/ count_ + 1 = Capacity)
  /\ just_overwrote_' = FALSE
  /\ UNCHANGED <<head_, overwrite_position_>>

-----------------------------------------------------------------------------
(* Modifiers.                                                              *)

(* Mutant: a full buffer is overwritten at tail_.                          *)
push_back_at_tail(item) ==
  \/ /\ full_
     /\ buffer_' = [buffer_ EXCEPT ![tail_] = item]
     /\ overwrite_advance_head
  \/ /\ ~full_
     /\ buffer_' = [buffer_ EXCEPT ![tail_] = item]
     /\ increment_tail

(* Both overloads of push_back: assign over the oldest element of a full   *)
(* buffer, else construct at the tail.                                     *)
push_back(item) ==
  \/ /\ full_
     /\ buffer_' = [buffer_ EXCEPT ![head_] = item]
     /\ overwrite_advance_head
  \/ /\ ~full_
     /\ buffer_' = [buffer_ EXCEPT ![tail_] = item]
     /\ increment_tail

(* Destroys the oldest element of a full buffer and constructs the new one *)
(* in its slot, else constructs at the tail.                               *)
emplace_back(item) ==
  \/ /\ full_
     /\ LET destroyed == [buffer_ EXCEPT ![head_] = Raw]
        IN  buffer_' = [destroyed EXCEPT ![head_] = item]
     /\ overwrite_advance_head
  \/ /\ ~full_
     /\ buffer_' = [buffer_ EXCEPT ![tail_] = item]
     /\ increment_tail

(* Moves the front element out and destroys it; the caller gets `front'.   *)
pop_front ==
  /\ ~empty
  /\ buffer_' = [buffer_ EXCEPT ![head_] = Raw]
  /\ increment_head

(* What T leaves behind in the storage when it throws in one of these      *)
(* calls, which is before any member has changed.  Assigning and moving    *)
(* have the strong guarantee, but a slot in which a T was being            *)
(* constructed holds none, whatever it held: in emplace_back of a full     *)
(* buffer the destroyed oldest element, else what is at the tail.          *)
LeftBehind(op) ==
  IF op = "emplace_back" /\ full_ THEN [buffer_ EXCEPT ![head_] = Raw]
  ELSE IF op \in {"push_back", "emplace_back"} /\ ~full_
       THEN [buffer_ EXCEPT ![tail_] = Raw]
  ELSE buffer_

(* Mutants: the first count_ slots of the storage are destroyed, wherever  *)
(* head_ is; the elements are destroyed but the indices keep their values. *)
clear_from_slot_0 ==
  /\ buffer_' = [s \in Slots |-> IF s < count_ THEN Raw ELSE buffer_[s]]
  /\ head_' = 0
  /\ tail_' = 0
  /\ count_' = 0
  /\ full_' = FALSE
  /\ UNCHANGED <<just_overwrote_, overwrite_position_>>

clear_keeps_indices ==
  /\ buffer_' = [s \in Slots |-> IF s \in Window THEN Raw ELSE buffer_[s]]
  /\ count_' = 0
  /\ full_' = FALSE
  /\ UNCHANGED <<head_, tail_, just_overwrote_, overwrite_position_>>

clear ==
  /\ buffer_' = [s \in Slots |-> IF s \in Window THEN Raw ELSE buffer_[s]]
  /\ head_' = 0
  /\ tail_' = 0
  /\ count_' = 0
  /\ full_' = FALSE
  /\ UNCHANGED <<just_overwrote_, overwrite_position_>>
=============================================================================
