----------------------- MODULE MCThreadSafeRingBuffer -----------------------
(* Instances of ThreadSafeRingBuffer for TLC: which thread calls what.     *)
EXTENDS ThreadSafeRingBuffer, TLC

CONSTANTS t1, t2, t3

(* Every function, among a producer, a consumer and an observer.           *)
EveryFunction ==
  (t1 :> {"push_back", "emplace_back", "try_push_back"})
    @@ (t2 :> {"pop_front", "try_pop_front", "clear"})
    @@ (t3 :> {"wait_until_not_full", "wait_until_not_empty", "front", "back",
               "at", "size", "available", "empty", "full"})

(* A producer, a thread that waits for room, and a consumer.               *)
RoomWatcher ==
  (t1 :> {"push_back"}) @@ (t2 :> {"wait_until_not_full"})
    @@ (t3 :> {"pop_front"})

(* Liveness: insertions, removals and a timed wait for an element.         *)
LivelyMix ==
  (t1 :> {"push_back"}) @@ (t2 :> {"push_back"})
    @@ (t3 :> {"try_pop_front", "clear", "wait_until_not_empty"})
=============================================================================
