-------------------------- MODULE LockedTransfers --------------------------
(***************************************************************************)
(* TimedTransfers seen from outside: the elements as of the last release   *)
(* of the mutex, and the result of the last call to finish.  For clients   *)
(* of the functions that keep the mutex to their end.                      *)
(***************************************************************************)
EXTENDS TimedTransfers

VARIABLES
  settled,  \* history: the elements when the mutex was last released
  out       \* history: the last call to finish and its result

Channel == INSTANCE BoundedChannel WITH q <- settled

W == INSTANCE SlidingWindow WITH q <- settled

(* The result with which t returns from where it is.                       *)
Result(t) ==
  CASE pc[t] = "threw" -> W!Thrown
    [] pc[t] = "test" -> IF IsInsert(t) THEN W!Flag(FALSE) ELSE Channel!Nullopt
    [] pc[t] = "notify" -> IF ~IsInsert(t) THEN W!Element(call[t].item)
                           ELSE IF IsTimed(t) THEN W!Flag(TRUE) ELSE W!Void

CallOf(t) ==
  IF IsInsert(t) THEN <<call[t].op, call[t].item>> ELSE <<call[t].op>>

Returns(t) == pc[t] # "idle" /\ pc'[t] = "idle"

ObservedInit ==
  Init /\ settled = <<>> /\ out = W!Report(<<"ring_buffer">>, W!Void)

ObservedNext ==
  /\ Next
  /\ settled' = IF mutex_' = Nobody THEN Contents' ELSE settled
  /\ \/ \E t \in Threads :
          Returns(t) /\ out' = W!Report(CallOf(t), Result(t))
     \/ (\A t \in Threads : ~Returns(t)) /\ UNCHANGED out

ObservedSpec == ObservedInit /\ [][ObservedNext]_<<vars, settled, out>>

(* Seen whenever the mutex is released, the statements of a critical       *)
(* section add up to one step of the bounded queue: none of them relies on *)
(* a member that another function changes between two of its statements.   *)
ImplementsChannel == Channel!Spec
=============================================================================
