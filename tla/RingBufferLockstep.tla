------------------------- MODULE RingBufferLockstep -------------------------
(***************************************************************************)
(* The ring buffer and the ideal bounded sequence side by side: every call *)
(* of an arbitrary client is made on both, among them calls in which the   *)
(* element type throws and calls whose argument refers to an element of    *)
(* the buffer itself.  Assigning, copying or moving a T has the strong     *)
(* guarantee: if it throws, both operands are as before; but not a T that  *)
(* lived where the new one was being constructed.                          *)
(***************************************************************************)
EXTENDS RingBufferClient

VARIABLES
  ideal,     \* what the ideal sequence holds
  expected,  \* what its last call returned
  torn,      \* history: since the last clear() a push has used a tail_ that
             \* was out of place, or the life of an element has ended and
             \* none was constructed in its place, or one from the dead element
  strayed    \* history: the same, or back() has used such a tail_, ever

Ideal == INSTANCE SlidingWindow WITH q <- ideal, out <- expected

allVars == <<vars, ideal, expected, torn, strayed>>

LockstepInit == Init /\ Ideal!Init /\ torn = FALSE /\ strayed = FALSE

Tears(now) == torn' = (torn \/ now) /\ strayed' = (strayed \/ now)

Push(v) ==
  /\ \/ PushBack(v) /\ Ideal!PushBack(v)
     \/ EmplaceBack(v) /\ Ideal!EmplaceBack(v)
  /\ Tears(~TailUsable)

(* The element that lived in the slot of the new one is gone when the      *)
(* argument is used.                                                       *)
Emplaced(i) ==
  IF slot_at(i) = (IF full_ THEN head_ ELSE tail_) THEN Raw ELSE at(i)

(* emplace_back(buffer[i]).                                                *)
EmplaceOwn(i) ==
  /\ i < count_
  /\ EmplaceBack(Emplaced(i)) /\ Ideal!EmplaceBack(ideal[i + 1])
  /\ Tears(~TailUsable \/ Emplaced(i) = Raw)

(* Mutant: emplace_back advances the indices before it constructs.         *)
ElementThrows_late(op) ==
  /\ op = "pop_front" => ~empty
  /\ out' = Window_!Report(<<op>>, Window_!Thrown)
  /\ expected' = out'
  /\ IF op = "emplace_back" /\ ~full_
     THEN increment_tail /\ UNCHANGED buffer_
     ELSE UNCHANGED rbVars
  /\ UNCHANGED <<lag, ideal, torn, strayed>>

(* The copy, move or construction of an element throws.                    *)
ElementThrows(op) ==
  /\ op = "pop_front" => ~empty
  /\ buffer_' = LeftBehind(op)
  /\ Tears(LeftBehind(op) # buffer_)
  /\ out' = Window_!Report(<<op>>, Window_!Thrown)
  /\ expected' = out'
  /\ UNCHANGED <<head_, tail_, count_, full_, just_overwrote_,
                 overwrite_position_, lag, ideal>>

Reset == Clear /\ Ideal!Clear /\ torn' = FALSE /\ UNCHANGED strayed

Pop == PopFront /\ Ideal!PopFront /\ UNCHANGED <<torn, strayed>>

Look ==
  /\ \/ Front /\ Ideal!Front
     \/ \E i \in 0 .. Capacity : At(i) /\ Ideal!At(i)
     \/ Size /\ Ideal!Size
     \/ Available /\ Ideal!Available
     \/ Empty /\ Ideal!Empty
     \/ Full /\ Ideal!Full
  /\ UNCHANGED <<torn, strayed>>

LookBack ==
  /\ Back /\ Ideal!Back
  /\ strayed' = (strayed \/ ~TailUsable)
  /\ UNCHANGED torn

Modify ==
  \/ \E v \in Values : Push(v)
  \/ \E i \in 0 .. Capacity - 1 : EmplaceOwn(i)
  \/ Pop
  \/ Reset
  \/ \E op \in {"push_back", "emplace_back", "pop_front"} : ElementThrows(op)

LockstepNext == Modify \/ Look \/ LookBack

LockstepSpec == LockstepInit /\ [][LockstepNext]_allVars

(* For every client the number of elements is right: size(), empty(),      *)
(* full(), available() and the decision whether pop_front() or operator[]  *)
(* throws are those of the ideal sequence, even once elements were lost or *)
(* an element type has thrown.                                             *)
SizesAgree ==
  /\ count_ = Len(ideal)
  /\ expected.result = Ideal!Thrown <=> out.result = Ideal!Thrown
  /\ expected.result[1] \in {"number", "flag"} => out = expected

(* For every client the elements themselves, read from the front by        *)
(* pop_front, front, operator[] or an iterator, are right until a push     *)
(* lands, or T throws in one, in a buffer that was overwritten, then       *)
(* popped, and not cleared, or emplace_back on a full buffer throws or     *)
(* copies the oldest element: clear() restores them.  So overwriting and   *)
(* then draining is safe, and so is an exception of T where neither        *)
(* construction runs over an element.                                      *)
IntactUntilTorn == ~torn => Contents = ideal

(* A client that never strays gets the right result from every call, and   *)
(* the slots in which an element is alive are exactly those of the         *)
(* elements: nothing leaks, and nothing is destroyed twice.                *)
RightUntilStrayed == ~strayed => out = expected /\ LiveExactly
=============================================================================
