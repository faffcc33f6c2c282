--------------------------- MODULE BoundedChannel ---------------------------
(***************************************************************************)
(* What the thread-safe wrapper promises: a bounded queue on which every   *)
(* call takes effect at one instant between its start and its end.  Unlike *)
(* the plain ring buffer it never drops an element to make room.           *)
(***************************************************************************)
EXTENDS Integers, Sequences

CONSTANTS Values, Capacity

VARIABLES q, out

W == INSTANCE SlidingWindow

Nullopt == <<"nullopt">>

Init == W!Init

(* push_back, emplace_back (no result) and try_push_back (true).           *)
Insert(v) ==
  /\ Len(q) < Capacity
  /\ q' = Append(q, v)
  /\ out' \in {W!Report(<<"push_back", v>>, W!Void),
               W!Report(<<"emplace_back", v>>, W!Void),
               W!Report(<<"try_push_back", v>>, W!Flag(TRUE))}

Reject(v) ==
  Len(q) = Capacity /\ W!Answer(<<"try_push_back", v>>, W!Flag(FALSE))

(* T throws: in an insertion or a removal, which then have no effect, or   *)
(* when try_pop_front wraps its result, which is then lost.                *)
InsertThrows(v) ==
  /\ Len(q) < Capacity
  /\ \E op \in {"push_back", "emplace_back", "try_push_back"} :
       W!Answer(<<op, v>>, W!Thrown)

RemoveThrows ==
  /\ q # <<>>
  /\ \/ \E op \in {"pop_front", "try_pop_front"} : W!Answer(<<op>>, W!Thrown)
     \/ q' = Tail(q) /\ out' = W!Report(<<"try_pop_front">>, W!Thrown)

TryPopFront ==
  \/ q = <<>> /\ W!Answer(<<"try_pop_front">>, Nullopt)
  \/ /\ q # <<>>
     /\ out' = W!Report(<<"try_pop_front">>, W!Element(Head(q)))
     /\ q' = Tail(q)

(* False after a timeout.                                                  *)
AwaitNotFull ==
  W!Answer(<<"wait_until_not_full">>, W!Flag(Len(q) < Capacity))

AwaitNotEmpty == W!Answer(<<"wait_until_not_empty">>, W!Flag(Len(q) > 0))

Next ==
  \/ \E v \in Values : Insert(v) \/ Reject(v) \/ InsertThrows(v)
  \/ RemoveThrows
  \/ W!PopFront
  \/ TryPopFront
  \/ W!Clear
  \/ AwaitNotFull
  \/ AwaitNotEmpty
  \/ W!Observe

Spec == Init /\ [][Next]_<<q, out>>
=============================================================================
