-------------------------- MODULE ProducerConsumer --------------------------
(***************************************************************************)
(* The two programs of examples/producer_consumer_example.cc on top of the *)
(* statements of ring_buffer_thread_safe: producers that store a number of *)
(* packets each, consumers that take them out with pop_front_with_timeout. *)
(* ProducerConsumerExample has a monitor and stops its consumers with      *)
(* stop_flag_; demonstrate_priority_processing has producers that call     *)
(* push_back, and a consumer that goes on until it has processed them all. *)
(***************************************************************************)
EXTENDS TimedTransfers

CONSTANT
  Crews  \* what may be started: a program, the threads that produce and those
         \* that consume in it, and how many packets each producer stores

ASSUME CrewAssumption ==
  \A c \in Crews :
    /\ c.program \in {"simulation", "priority"}
    /\ c.producers \subseteq Threads
    /\ c.consumers \subseteq Threads \ c.producers
    /\ c.quota \in Nat
    /\ c.producers \X (1 .. c.quota) \subseteq Values
    /\ c.program = "priority" =>
         /\ Cardinality(c.consumers) = 1
         /\ Cardinality(c.producers) * c.quota <= Capacity

VARIABLES
  crew,             \* what was started
  stop_flag_,
  produced_count,   \* packets stored so far, by each producer
  total_produced_,
  total_consumed_,
  thread,           \* what a thread does between its calls
  monitor,          \* whether the monitor thread is running
  main,             \* what the main thread waits for
  taken,            \* history: the packets consumers have received
  overlapped        \* history: two bodies have run at once, or a body while
                    \* another thread decided to run its own

programVars == <<crew, stop_flag_, produced_count, total_produced_,
                 total_consumed_, thread, monitor, main, taken, overlapped>>

allVars == <<vars, programVars>>

Producers == crew.producers

Consumers == crew.consumers

Total == Cardinality(Producers) * crew.quota

ProgramInit ==
  /\ Init
  /\ crew \in Crews
  /\ stop_flag_ = FALSE
  /\ produced_count = [t \in Threads |-> 0]
  /\ total_produced_ = 0
  /\ total_consumed_ = 0
  /\ thread = [t \in Threads |-> IF t \in Producers \cup Consumers
                                  THEN "looping" ELSE "finished"]
  /\ monitor = (crew.program = "simulation")
  /\ main = "producers"
  /\ taken = <<>>
  /\ overlapped = FALSE

(* An exception that leaves a thread's function ends the program.          *)
terminated == \E t \in Threads : thread[t] = "threw"

Becomes(t, what) == thread' = [thread EXCEPT ![t] = what]

-----------------------------------------------------------------------------
(* The loops of the threads.                                               *)

(* Mutant: the consumers ignore stop_flag_ and count the packets.          *)
GoesOn_counting(t) ==
  IF t \in Producers THEN produced_count[t] < crew.quota ELSE total_consumed_ < Total

(* Mutant: a producer stops one packet early.                              *)
GoesOn_one_less(t) ==
  IF t \in Producers THEN produced_count[t] + 1 < crew.quota
  ELSE IF crew.program = "simulation" THEN ~stop_flag_
  ELSE total_consumed_ < Total

(* The condition of the while loop of a thread.                            *)
GoesOn(t) ==
  IF t \in Producers THEN produced_count[t] < crew.quota
  ELSE IF crew.program = "simulation" THEN ~stop_flag_
  ELSE total_consumed_ < Total

Transfer(t) ==
  IF t \in Consumers THEN "pop_front_with_timeout"
  ELSE IF crew.program = "simulation" THEN "push_back_with_timeout"
  ELSE "push_back"

(* The next packet; after a timeout the same once more.                    *)
Packet(t) ==
  IF t \in Consumers THEN Raw ELSE <<t, produced_count[t] + 1>>

StartTransfer(t) ==
  /\ thread[t] = "looping" /\ GoesOn(t)
  /\ Call(t, Transfer(t), Packet(t))
  /\ UNCHANGED programVars

LeaveLoop(t) ==
  /\ thread[t] = "looping" /\ pc[t] = "idle" /\ ~GoesOn(t)
  /\ Becomes(t, "finished")
  /\ UNCHANGED <<vars, crew, stop_flag_, produced_count, total_produced_,
                 total_consumed_, monitor, main, taken, overlapped>>

(* Between the decision to transfer and the end of the transfer itself.    *)
Transferring(label) ==
  label \notin {"idle", "lock", "test", "block", "waiting", "notify", "threw"}

RunTransfer(t) ==
  /\ Proceed(t)
  /\ overlapped' = (overlapped \/
       \E u \in Threads \ {t} : Transferring(pc[u]) /\ Transferring(pc'[t]))
  /\ \/ /\ pc[t] = "threw"
        /\ Becomes(t, "threw")
        /\ UNCHANGED <<produced_count, taken>>
     \/ /\ pc[t] = "notify" /\ t \in Producers
        /\ produced_count' = [produced_count EXCEPT ![t] = @ + 1]
        /\ Becomes(t, "stored")
        /\ UNCHANGED taken
     \/ /\ pc[t] = "notify" /\ t \in Consumers
        /\ taken' = Append(taken, call[t].item)
        /\ Becomes(t, "received")
        /\ UNCHANGED produced_count
     \/ /\ pc[t] \notin {"threw", "notify"}
        /\ UNCHANGED <<produced_count, thread, taken>>
  /\ UNCHANGED <<crew, stop_flag_, total_produced_, total_consumed_,
                 monitor, main>>

(* total_produced_++ and total_consumed_++, atomic.                        *)
Count(t) ==
  /\ \/ /\ thread[t] = "stored"
        /\ total_produced_' = total_produced_ + 1
        /\ UNCHANGED total_consumed_
     \/ /\ thread[t] = "received"
        /\ total_consumed_' = total_consumed_ + 1
        /\ UNCHANGED total_produced_
  /\ Becomes(t, "looping")
  /\ UNCHANGED <<vars, crew, stop_flag_, produced_count, monitor, main,
                 taken, overlapped>>

Program(t) ==
  ~terminated /\ (StartTransfer(t) \/ LeaveLoop(t) \/ RunTransfer(t) \/ Count(t))

Acquire(t) == ~terminated /\ Lock(t) /\ UNCHANGED programVars

Expire(t) == ~terminated /\ Timeout(t) /\ UNCHANGED programVars

-----------------------------------------------------------------------------
(* The monitor thread and the main thread.                                 *)

MonitorEnds ==
  /\ ~terminated /\ monitor
  /\ total_consumed_ >= Total
  /\ monitor' = FALSE
  /\ UNCHANGED <<vars, crew, stop_flag_, produced_count, total_produced_,
                 total_consumed_, thread, main, taken, overlapped>>

Joined(threads) == \A t \in threads : thread[t] = "finished"

MainWaits(for, then) ==
  /\ ~terminated /\ main = for /\ main' = then
  /\ UNCHANGED <<vars, crew, produced_count, total_produced_,
                 total_consumed_, thread, monitor, taken, overlapped>>

JoinProducers ==
  /\ Joined(Producers)
  /\ MainWaits("producers", IF crew.program = "simulation" THEN "sleep" ELSE "consumers")
  /\ UNCHANGED stop_flag_

(* After five seconds, whatever the consumers have done in them.           *)
StopConsumers ==
  MainWaits("sleep", "consumers") /\ stop_flag_' = TRUE

JoinConsumers ==
  /\ Joined(Consumers)
  /\ MainWaits("consumers", IF crew.program = "simulation" THEN "monitor" ELSE "done")
  /\ UNCHANGED stop_flag_

(* Mutant: the monitor is not joined.                                      *)
JoinMonitor_not == MainWaits("monitor", "done") /\ UNCHANGED stop_flag_

JoinMonitor ==
  ~monitor /\ MainWaits("monitor", "done") /\ UNCHANGED stop_flag_

Main == JoinProducers \/ StopConsumers \/ JoinConsumers \/ JoinMonitor

ProgramNext ==
  \/ \E t \in Threads : Program(t) \/ Acquire(t) \/ Expire(t)
  \/ MonitorEnds
  \/ Main

ProgramSpec ==
  /\ ProgramInit /\ [][ProgramNext]_allVars
  /\ \A t \in Threads :
       /\ WF_allVars(Program(t) \/ Expire(t))
       /\ SF_allVars(Acquire(t))
  /\ WF_allVars(MonitorEnds)
  /\ WF_allVars(Main)

-----------------------------------------------------------------------------
(* Properties.                                                             *)

Settled == \A t \in Threads : ~Transferring(pc[t]) /\ pc[t] # "notify"

Stored == {s \in Producers \X (1 .. crew.quota) : s[2] <= produced_count[s[1]]}

(* As long as no two bodies have overlapped, nothing is wrong: no consumer *)
(* throws, size() is the number of elements, and every packet stored was   *)
(* received once or is in the buffer once, whatever timed out meanwhile    *)
(* and was tried again.                                                    *)
ExactlyOnceUnlessOverlapped ==
  ~overlapped =>
    /\ ~terminated
    /\ Settled =>
         /\ count_ = Cardinality(LiveSlots)
         /\ Len(taken) + count_ = Cardinality(Stored)
         /\ Stored = {taken[i] : i \in DOMAIN taken} \cup {buffer_[s] : s \in LiveSlots}

(* A program ends only when all its packets were stored and at least as    *)
(* many received; so "All items successfully processed!", which compares   *)
(* the counters, is right as long as no two bodies have overlapped: each   *)
(* packet was received exactly once, and the buffer is empty.  Overlapping *)
(* removals may take one packet twice and lose another, which the counters *)
(* do not show, or show as more packets consumed than produced.            *)
FinishedMeansConsumed ==
  main = "done" =>
    /\ total_produced_ = Total /\ total_consumed_ >= Total
    /\ ~overlapped =>
         /\ empty /\ LiveSlots = {}
         /\ total_consumed_ = Total /\ Len(taken) = Total
         /\ {taken[i] : i \in DOMAIN taken} = Producers \X (1 .. crew.quota)

(* stop_flag_ ends the consumers, whatever the buffer looks like by then,  *)
(* unless an exception ends the program.                                   *)
ConsumersStop == stop_flag_ ~> (Joined(Consumers) \/ terminated)

(* Both programs end, monitor included, unless two bodies overlap or the   *)
(* five seconds were too short for the consumers to drain the buffer.      *)
EndsUnlessOverlapped == <>(main = "done" \/ overlapped \/ (stop_flag_ /\ ~empty))
=============================================================================
