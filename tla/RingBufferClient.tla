-------------------------- MODULE RingBufferClient --------------------------
(***************************************************************************)
(* A single-threaded client calling the public interface of one            *)
(* ring_buffer.  Spec allows every sequence of calls.  DisciplinedSpec     *)
(* allows those of the repository's working clients: the mutex wrapper     *)
(* (never pushes into a full buffer), the logger (overwrites, never pops)  *)
(* and the embedded example (overwrites, then drains).                     *)
(***************************************************************************)
EXTENDS RingBuffer

VARIABLES
  out,  \* the last call and its result
  lag   \* history: overwrites since construction or clear(), mod Capacity

vars == <<buffer_, head_, tail_, count_, full_, just_overwrote_,
          overwrite_position_, out, lag>>

Window_ == INSTANCE SlidingWindow WITH q <- Contents

Results ==
  {Window_!Void, Window_!Thrown} \cup ({"element"} \X Cells)
    \cup ({"number"} \X (0 .. Capacity)) \cup ({"flag"} \X BOOLEAN)

TypeOK == RingBufferTypeOK /\ out.result \in Results /\ lag \in Slots

Init ==
  ring_buffer /\ out = Window_!Report(<<"ring_buffer">>, Window_!Void) /\ lag = 0

-----------------------------------------------------------------------------
(* The calls.  A throwing call changes nothing.                            *)

Overwriting == lag' = IF full_ THEN (lag + 1) % Capacity ELSE lag

PushBack(v) ==
  /\ push_back(v)
  /\ out' = Window_!Report(<<"push_back", v>>, Window_!Void)
  /\ Overwriting

EmplaceBack(v) ==
  /\ emplace_back(v)
  /\ out' = Window_!Report(<<"emplace_back", v>>, Window_!Void)
  /\ Overwriting

PopFront ==
  \/ /\ empty
     /\ out' = Window_!Report(<<"pop_front">>, Window_!Thrown)
     /\ UNCHANGED <<rbVars, lag>>
  \/ /\ pop_front
     /\ out' = Window_!Report(<<"pop_front">>, Window_!Element(front))
     /\ UNCHANGED lag

Clear ==
  clear /\ out' = Window_!Report(<<"clear">>, Window_!Void) /\ lag' = 0

Answer(call, result) ==
  out' = Window_!Report(call, result) /\ UNCHANGED <<rbVars, lag>>

Front ==
  Answer(<<"front">>, IF empty THEN Window_!Thrown ELSE Window_!Element(front))

Back ==
  Answer(<<"back">>, IF empty THEN Window_!Thrown ELSE Window_!Element(back))

At(i) ==
  Answer(<<"at", i>>,
         IF i >= count_ THEN Window_!Thrown ELSE Window_!Element(at(i)))

Size == Answer(<<"size">>, Window_!Number(size))

Available == Answer(<<"available">>, Window_!Number(available))

Empty == Answer(<<"empty">>, Window_!Flag(empty))

Full == Answer(<<"full">>, Window_!Flag(full_))

(* The calls whose effect does not depend on tail_.                        *)
HeadCalls ==
  \/ PopFront
  \/ Clear
  \/ Front
  \/ \E i \in 0 .. Capacity : At(i)
  \/ Size
  \/ Available
  \/ Empty
  \/ Full

(* The calls that use tail_.                                               *)
TailCalls ==
  \/ \E v \in Values : PushBack(v)
  \/ \E v \in Values : EmplaceBack(v)
  \/ Back

Next == HeadCalls \/ TailCalls

Spec == Init /\ [][Next]_vars

(* tail_ stays behind when an overwrite moves head_: a client that has     *)
(* overwritten must not use the back of the buffer again after a           *)
(* pop_front, until clear().                                               *)
TailUsable == full_ \/ lag = 0

DisciplinedNext == HeadCalls \/ (TailUsable /\ TailCalls)

DisciplinedSpec == Init /\ [][DisciplinedNext]_vars

-----------------------------------------------------------------------------
(* Properties of every client.                                             *)

(* The three redundant descriptions of occupancy never disagree: full_, on *)
(* which push_back and available() rely, is set exactly when count_ has    *)
(* reached the capacity, whatever mix of pushes, overwrites, pops and      *)
(* clears came before.                                                     *)
FullFlagExact == full_ <=> count_ = Capacity

(* tail_ trails the end of the elements by exactly the overwrites since    *)
(* construction or clear(), modulo the capacity: overwrite_advance_head    *)
(* moves head_ alone, and nothing but clear() makes up for it.             *)
TailLag == (tail_ + lag) % Capacity = (head_ + count_) % Capacity

(* While there are elements, just_overwrote_ is set only in a full buffer, *)
(* and then overwrite_position_, which back() trusts, is the slot just     *)
(* behind head_: no pop, push or clear leaves a stale mark in use.         *)
OverwriteMark ==
  just_overwrote_ /\ ~empty =>
    full_ /\ overwrite_position_ = decrement_index(head_)

-----------------------------------------------------------------------------
(* Properties of a disciplined client.                                     *)

(* Element lifetimes: the constructed slots are exactly those of the       *)
(* elements, so nothing is leaked, read or destroyed after destruction, or *)
(* constructed over a live element, by any modifier.                       *)
LiveExactly == LiveSlots = Window

(* Every call returns what the ideal bounded sequence returns and changes  *)
(* the elements as it changes: push_back, emplace_back, pop_front, clear,  *)
(* front, back, operator[] and the size queries.                           *)
ImplementsWindow == Window_!Spec
=============================================================================
