------------------------- MODULE RingBufferHandles --------------------------
(***************************************************************************)
(* What a client holds of a ring buffer between two calls, while it goes   *)
(* on modifying the buffer: a reference to an element, as front(), back()  *)
(* and operator[] return it, and an iterator on its way from begin() to an *)
(* end() taken at the start, as in a range-based for whose body uses the   *)
(* buffer.  A reference names a slot, an iterator an index.                *)
(***************************************************************************)
EXTENDS RingBufferLockstep

VARIABLES
  ref,   \* the reference: its slot, and which of the elements it refers to
  loop   \* the iterator and what its loop has seen

handleVars == <<allVars, ref, loop>>

Gone == [slot |-> 0, nth |-> 0]

(* index_ of the iterator and of end(); history: the elements the buffer   *)
(* had at begin(), those visited, whether one was removed since begin().   *)
Loop(index, end, due, seen, removed) ==
  [index |-> index, end |-> end, due |-> due, seen |-> seen, removed |-> removed]

NoLoop == Loop(0, 0, <<>>, <<>>, FALSE)

HandleInit == LockstepInit /\ ref = Gone /\ loop = NoLoop

(* The iterator differs from end(): the loop goes on.                      *)
InLoop == loop.index # loop.end

(* The elements that leave the front of the buffer in a step.              *)
Removed ==
  IF out'.result = Window_!Thrown THEN 0
  ELSE CASE out'.call = <<"clear">> -> count_
         [] out'.call = <<"pop_front">> -> 1
         [] OTHER -> IF full_ THEN 1 ELSE 0

(* A modification between two uses of the handle.                          *)
ModifyUnder ==
  /\ InLoop \/ loop = NoLoop
  /\ Modify
  /\ ref' = IF ref.nth > Removed THEN [ref EXCEPT !.nth = @ - Removed] ELSE Gone
  /\ loop' = IF Removed = 0 THEN loop
             ELSE Loop(loop.index, loop.end, <<>>, <<>>, InLoop)

(* Observers change nothing, and are called while no handle is held.       *)
LookAround ==
  ref = Gone /\ loop = NoLoop /\ (Look \/ LookBack) /\ UNCHANGED <<ref, loop>>

(* front(), back() and operator[] of a buffer that is not empty.           *)
Refer(i) ==
  /\ i < count_
  /\ loop = NoLoop
  /\ ref' = [slot |-> slot_at(i), nth |-> i + 1]
  /\ UNCHANGED <<allVars, loop>>

(* begin() and end().                                                      *)
Begin ==
  /\ ref = Gone
  /\ loop = NoLoop
  /\ loop' = Loop(0, count_, Contents, <<>>, FALSE)
  /\ UNCHANGED <<allVars, ref>>

(* Mutant: the index of an iterator is taken for the index of a slot.      *)
Dereferenced_slot == buffer_[loop.index]

(* operator*, by way of operator[].                                        *)
Dereferenced == at(loop.index)

(* The iterator is dereferenced, which throws beyond the elements and ends *)
(* the loop, the body looks at the element, the iterator is incremented.   *)
Visit ==
  /\ InLoop
  /\ loop' = IF loop.index >= count_ THEN NoLoop
             ELSE Loop(loop.index + 1, loop.end, loop.due,
                       IF loop.removed THEN <<>> ELSE Append(loop.seen, Dereferenced),
                       loop.removed)
  /\ UNCHANGED <<allVars, ref>>

End ==
  ~InLoop /\ loop' = NoLoop /\ UNCHANGED <<allVars, ref>>

HandleNext ==
  \/ ModifyUnder
  \/ LookAround
  \/ \E i \in 0 .. Capacity - 1 : Refer(i)
  \/ Begin
  \/ Visit
  \/ End

HandleSpec == HandleInit /\ [][HandleNext]_handleVars

(* As long as the elements are not torn a reference stays good, whatever   *)
(* is pushed, popped or overwritten meanwhile, until its own element is    *)
(* removed: elements never change slots.                                   *)
ReferencesHold ==
  ref.nth > 0 /\ ~torn => buffer_[ref.slot] = ideal[ref.nth]

(* A loop whose body removes nothing never throws, and unless something    *)
(* was constructed over an element, it visits the elements the buffer had  *)
(* at begin(), each once and in order, even if its body pushes; a push     *)
(* into a full buffer is a removal.                                        *)
LoopsComplete ==
  ~loop.removed =>
    /\ InLoop => loop.index < count_
    /\ ~torn => loop.seen = SubSeq(loop.due, 1, loop.index)
=============================================================================
