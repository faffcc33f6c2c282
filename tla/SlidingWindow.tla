--------------------------- MODULE SlidingWindow ---------------------------
(***************************************************************************)
(* What the ring buffer promises: a sequence of at most Capacity values.   *)
(* push_back appends and, in a full window, drops the oldest value;        *)
(* pop_front removes the oldest; every call delivers the result that this  *)
(* sequence determines.                                                    *)
(***************************************************************************)
EXTENDS Integers, Sequences

CONSTANTS Values, Capacity

VARIABLES
  q,    \* the values held, oldest first
  out   \* the last call and its result

Void == <<"void">>
Thrown == <<"throws">>
Element(v) == <<"element", v>>
Number(n) == <<"number", n>>
Flag(b) == <<"flag", b>>

(* The call (its name, and the item or index given to it) and its result.  *)
Report(call, result) == [call |-> call, result |-> result]

Init == q = <<>> /\ out = Report(<<"ring_buffer">>, Void)

Enqueue(v) == q' = Append(IF Len(q) = Capacity THEN Tail(q) ELSE q, v)

PushBack(v) == Enqueue(v) /\ out' = Report(<<"push_back", v>>, Void)

EmplaceBack(v) == Enqueue(v) /\ out' = Report(<<"emplace_back", v>>, Void)

PopFront ==
  \/ /\ q = <<>>
     /\ out' = Report(<<"pop_front">>, Thrown)
     /\ UNCHANGED q
  \/ /\ q # <<>>
     /\ out' = Report(<<"pop_front">>, Element(Head(q)))
     /\ q' = Tail(q)

Clear == q' = <<>> /\ out' = Report(<<"clear">>, Void)

Answer(call, result) == out' = Report(call, result) /\ UNCHANGED q

Front == Answer(<<"front">>, IF q = <<>> THEN Thrown ELSE Element(Head(q)))

Back == Answer(<<"back">>, IF q = <<>> THEN Thrown ELSE Element(q[Len(q)]))

At(i) ==
  Answer(<<"at", i>>, IF i >= Len(q) THEN Thrown ELSE Element(q[i + 1]))

Size == Answer(<<"size">>, Number(Len(q)))

Available == Answer(<<"available">>, Number(Capacity - Len(q)))

Empty == Answer(<<"empty">>, Flag(Len(q) = 0))

Full == Answer(<<"full">>, Flag(Len(q) = Capacity))

Observe ==
  \/ Front
  \/ Back
  \/ \E i \in 0 .. Capacity : At(i)
  \/ Size
  \/ Available
  \/ Empty
  \/ Full

Next ==
  \/ \E v \in Values : PushBack(v) \/ EmplaceBack(v)
  \/ PopFront
  \/ Clear
  \/ Observe

Spec == Init /\ [][Next]_<<q, out>>
=============================================================================
