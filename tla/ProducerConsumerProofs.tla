----------------------- MODULE ProducerConsumerProofs -----------------------
(***************************************************************************)
(* What holds of the two programs, for every capacity, every size of       *)
(* size_t, any finite set of threads and any crew: what they count,        *)
(* however the unlocked bodies of their transfers interleave, and where    *)
(* every packet is, until two bodies run at once.                          *)
(***************************************************************************)
EXTENDS ProducerConsumer, TimedTransfersProofs

-----------------------------------------------------------------------------
(* The programs.                                                           *)

ProgramTypes ==
  /\ TypeOK
  /\ crew \in Crews
  /\ produced_count \in [Threads -> Nat]
  /\ total_produced_ \in Nat /\ total_consumed_ \in Nat
  /\ thread \in [Threads -> {"looping", "stored", "received", "finished", "threw"}]
  /\ monitor \in BOOLEAN
  /\ main \in {"producers", "sleep", "consumers", "monitor", "done"}

(* Only a thread in its loop is in a call, a producer only for a packet of *)
(* its quota, which is stored when it leaves the loop.                     *)
LoopInv ==
  \A t \in Threads :
    /\ thread[t] # "looping" => pc[t] = "idle"
    /\ thread[t] # "finished" => t \in Producers \cup Consumers
    /\ thread[t] = "stored" => t \in Producers
    /\ t \in Producers =>
         /\ produced_count[t] <= crew.quota
         /\ pc[t] # "idle" => produced_count[t] < crew.quota
         /\ thread[t] = "finished" => produced_count[t] = crew.quota

(* Why the monitor, the consumers of the priority program and the main     *)
(* thread may have ended.                                                  *)
EndInv ==
  /\ crew.program = "simulation" /\ ~monitor => total_consumed_ >= Total
  /\ crew.program = "priority" =>
       \A t \in Consumers : thread[t] = "finished" => total_consumed_ >= Total
  /\ main # "producers" => Joined(Producers)
  /\ main \in {"monitor", "done"} => Joined(Consumers)
  /\ main = "monitor" => crew.program = "simulation"
  /\ main = "done" /\ crew.program = "simulation" => ~monitor

(* The packets that are stored and not yet counted.                        *)
Counting == {t \in Threads : thread[t] = "stored"}

CountInv == Cardinality(Stored) = total_produced_ + Cardinality(Counting)

(* The inductive invariant.                                                *)
ProgramInv == ProgramTypes /\ WaitInv /\ LoopInv /\ EndInv /\ CountInv

(* What the crew is.                                                       *)
LEMMA CrewFacts ==
  ASSUME crew \in Crews
  PROVE  /\ crew.program \in {"simulation", "priority"}
         /\ Producers \subseteq Threads /\ Consumers \subseteq Threads
         /\ Producers \cap Consumers = {}
         /\ IsFiniteSet(Producers) /\ IsFiniteSet(Consumers)
         /\ crew.quota \in Nat
         /\ \A t \in Producers : \A i \in 1 .. crew.quota : <<t, i>> \in Values
         /\ Total = Cardinality(Producers) * crew.quota /\ Total \in Nat
         /\ crew.program = "priority" => Consumers # {}
  <1>1. /\ crew.program \in {"simulation", "priority"}
        /\ Producers \subseteq Threads /\ Consumers \subseteq Threads \ Producers
        /\ crew.quota \in Nat
        /\ Producers \X (1 .. crew.quota) \subseteq Values
        /\ crew.program = "priority" => Cardinality(Consumers) = 1
    <2>1. /\ crew.program \in {"simulation", "priority"}
          /\ crew.producers \subseteq Threads
          /\ crew.consumers \subseteq Threads \ crew.producers
          /\ crew.quota \in Nat
          /\ crew.producers \X (1 .. crew.quota) \subseteq Values
          /\ crew.program = "priority" => Cardinality(crew.consumers) = 1
      BY CrewAssumption, Zenon
    <2> QED
      BY <2>1 DEF Producers, Consumers
  <1>2. IsFiniteSet(Producers) /\ IsFiniteSet(Consumers)
    BY <1>1, TransferAssumption, FS_Subset
  <1>3. Cardinality(Producers) \in Nat
    BY <1>2, FS_CardinalityType
  <1>4. Total = Cardinality(Producers) * crew.quota /\ Total \in Nat
    BY <1>1, <1>3 DEF Total
  <1>5. Cardinality(Consumers) = 1 => Consumers # {}
    BY FS_EmptySet
  <1> QED
    BY <1>1, <1>2, <1>4, <1>5

LEMMA FiniteCounts ==
  ASSUME crew \in Crews
  PROVE  /\ IsFiniteSet(Stored) /\ Cardinality(Stored) \in Nat
         /\ IsFiniteSet(Counting) /\ Cardinality(Counting) \in Nat
         /\ Cardinality(Producers \X (1 .. crew.quota)) = Total
  <1>1. IsFiniteSet(1 .. crew.quota) /\ Cardinality(1 .. crew.quota) = crew.quota
    <2>0. crew.quota \in Nat /\ crew.quota \in Int /\ 1 \in Int
      BY CrewFacts
    <2>1. /\ IsFiniteSet(1 .. crew.quota)
          /\ Cardinality(1 .. crew.quota)
               = IF 1 > crew.quota THEN 0 ELSE crew.quota - 1 + 1
      BY <2>0, FS_Interval
    <2> QED
      BY <2>0, <2>1
  <1>2. /\ IsFiniteSet(Producers \X (1 .. crew.quota))
        /\ Cardinality(Producers \X (1 .. crew.quota)) = Total
    BY <1>1, CrewFacts, FS_Product
  <1>3. Stored \subseteq Producers \X (1 .. crew.quota)
    BY DEF Stored
  <1>4. Counting \subseteq Threads
    BY DEF Counting
  <1> QED
    BY <1>2, <1>3, <1>4, TransferAssumption, FS_Subset, FS_CardinalityType

(* A producer has stored its next packet.                                  *)
LEMMA StoredGrows ==
  ASSUME crew \in Crews, crew' = crew, produced_count \in [Threads -> Nat],
         NEW t \in Producers, produced_count[t] < crew.quota,
         produced_count' = [produced_count EXCEPT ![t] = @ + 1]
  PROVE  /\ Stored' = Stored \cup {<<t, produced_count[t] + 1>>}
         /\ <<t, produced_count[t] + 1>> \notin Stored
  <1> DEFINE new == <<t, produced_count[t] + 1>>
  <1>0. /\ crew.quota \in Nat /\ Producers \subseteq Threads
    BY CrewFacts
  <1>1. \A p \in Producers : produced_count[p] \in Nat
    BY <1>0
  <1>2. new \notin Stored /\ new \in Producers \X (1 .. crew.quota)
    BY <1>0, <1>1 DEF Stored
  <1>3. ASSUME NEW p \in Producers, NEW i \in 1 .. crew.quota
        PROVE  i <= produced_count'[p]
                 <=> i <= produced_count[p] \/ (p = t /\ i = produced_count[t] + 1)
    BY <1>0, <1>1
  <1>4. Stored' = {s \in Producers \X (1 .. crew.quota) :
                     s[2] <= produced_count'[s[1]]}
    BY DEF Stored, Producers
  <1>5. \A s \in Producers \X (1 .. crew.quota) :
          /\ s[1] \in Producers /\ s[2] \in 1 .. crew.quota
          /\ s = new <=> s[1] = t /\ s[2] = produced_count[t] + 1
    BY <1>2
  <1>6. \A s \in Producers \X (1 .. crew.quota) :
          s \in Stored' <=> s \in Stored \/ s = new
    BY <1>3, <1>4, <1>5 DEF Stored
  <1> QED
    BY <1>2, <1>4, <1>6 DEF Stored

LEMMA CountSteps ==
  ASSUME crew \in Crews, crew' = crew, produced_count \in [Threads -> Nat],
         total_produced_ \in Nat, CountInv,
         \/ produced_count' = produced_count /\ Counting' = Counting
            /\ total_produced_' = total_produced_
         \/ \E t \in Counting :
              /\ produced_count' = produced_count /\ Counting' = Counting \ {t}
              /\ total_produced_' = total_produced_ + 1
         \/ \E t \in Producers \ Counting :
              /\ produced_count[t] < crew.quota
              /\ produced_count' = [produced_count EXCEPT ![t] = @ + 1]
              /\ Counting' = Counting \cup {t}
              /\ total_produced_' = total_produced_
  PROVE  CountInv'
  <1>0. /\ IsFiniteSet(Stored) /\ Cardinality(Stored) \in Nat
        /\ IsFiniteSet(Counting) /\ Cardinality(Counting) \in Nat
        /\ crew.quota \in Nat /\ Producers \subseteq Threads
    BY FiniteCounts, CrewFacts
  <1>1. ASSUME produced_count' = produced_count PROVE Stored' = Stored
    BY <1>1 DEF Stored, Producers
  <1>2. CASE produced_count' = produced_count /\ Counting' = Counting
             /\ total_produced_' = total_produced_
    BY <1>1, <1>2 DEF CountInv
  <1>3. ASSUME NEW t \in Counting, produced_count' = produced_count,
               Counting' = Counting \ {t}, total_produced_' = total_produced_ + 1
        PROVE  CountInv'
    <2>1. Cardinality(Counting') = Cardinality(Counting) - 1
      BY <1>0, <1>3, FS_RemoveElement
    <2> QED
      BY <1>0, <1>1, <1>3, <2>1 DEF CountInv
  <1>4. ASSUME NEW t \in Producers \ Counting, produced_count[t] < crew.quota,
               produced_count' = [produced_count EXCEPT ![t] = @ + 1],
               Counting' = Counting \cup {t}, total_produced_' = total_produced_
        PROVE  CountInv'
    <2> DEFINE new == <<t, produced_count[t] + 1>>
    <2>1. Cardinality(Counting') = Cardinality(Counting) + 1
      BY <1>0, <1>4, FS_AddElement
    <2>2. Stored' = Stored \cup {new} /\ new \notin Stored
      BY <1>4, StoredGrows
    <2>4. Cardinality(Stored') = Cardinality(Stored) + 1
      BY <1>0, <2>2, FS_AddElement
    <2> QED
      BY <1>0, <1>4, <2>1, <2>4 DEF CountInv
  <1> QED
    BY <1>2, <1>3, <1>4

LEMMA ProgramInvInit == ProgramInit => ProgramInv
  <1> SUFFICES ASSUME ProgramInit PROVE ProgramInv
    OBVIOUS
  <1>1. TypeOK /\ crew \in Crews
    BY TypesInit DEF ProgramInit
  <1>2. \A t \in Threads : thread[t] = IF t \in Producers \cup Consumers
                                       THEN "looping" ELSE "finished"
    BY DEF ProgramInit
  <1>3. ProgramTypes
    <2>1. crew.program \in {"simulation", "priority"}
      BY <1>1, CrewFacts
    <2>2. /\ thread \in [Threads -> {"looping", "stored", "received", "finished", "threw"}]
          /\ produced_count \in [Threads -> Nat]
      BY DEF ProgramInit
    <2> QED
      BY <1>1, <2>1, <2>2 DEF ProgramInit, ProgramTypes
  <1>4. WaitInv
    BY DEF ProgramInit, Init, WaitInv
  <1>5. LoopInv
    <2>1. \A t \in Threads : pc[t] = "idle" /\ produced_count[t] = 0
      BY DEF ProgramInit, Init
    <2>2. crew.quota \in Nat
      BY <1>1, CrewFacts
    <2> QED
      BY <1>2, <2>1, <2>2 DEF LoopInv
  <1>6. EndInv
    <2>1. \A t \in Consumers : t \in Threads
      BY <1>1, CrewFacts
    <2> QED
      BY <1>2, <2>1 DEF ProgramInit, EndInv
  <1>7. CountInv
    <2>1. Counting = {}
      BY <1>2 DEF Counting
    <2>2. Stored = {}
      <3>1. \A t \in Producers : produced_count[t] = 0
        BY <1>1, CrewFacts DEF ProgramInit
      <3> QED
        BY <3>1 DEF Stored
    <2> QED
      BY <2>1, <2>2, FS_EmptySet DEF CountInv, ProgramInit
  <1> QED
    BY <1>3, <1>4, <1>5, <1>6, <1>7 DEF ProgramInv

(* The steps of the program that change no variable of the wrapper, and    *)
(* those that change no variable of the program.                           *)
LEMMA WrapperUnchanged ==
  ASSUME TypeOK, WaitInv, UNCHANGED vars
  PROVE  TypeOK' /\ WaitInv'
  BY TypesStep DEF vars, WaitInv

LEMMA ProgramUnchanged ==
  ASSUME ProgramInv, UNCHANGED programVars
  PROVE  EndInv' /\ CountInv'
  <1>1. EndInv'
    BY DEF ProgramInv, EndInv, programVars, Total, Producers, Consumers, Joined
  <1>2. CountInv'
    BY DEF ProgramInv, CountInv, programVars, Stored, Counting, Producers
  <1> QED
    BY <1>1, <1>2

LEMMA StartStep ==
  ASSUME ProgramInv, NEW t \in Threads, StartTransfer(t)
  PROVE  ProgramInv'
  <1>0. /\ TypeOK /\ WaitInv /\ LoopInv /\ crew \in Crews
        /\ produced_count \in [Threads -> Nat]
    BY DEF ProgramInv, ProgramTypes
  <1>1. Call(t, Transfer(t), Packet(t)) /\ thread[t] = "looping" /\ GoesOn(t)
    BY DEF StartTransfer
  <1>2. t \in Producers \cup Consumers
    BY <1>0, <1>1 DEF LoopInv
  <1>3. Transfer(t) \in Inserts \cup Removals
    BY DEF Transfer, Inserts, Removals
  <1>4. t \in Producers => produced_count[t] < crew.quota
    BY <1>1 DEF GoesOn
  <1>5. Packet(t) \in Cells
    <2>1. t \in Producers => <<t, produced_count[t] + 1>> \in Values
      BY <1>0, <1>4, CrewFacts
    <2> QED
      BY <1>2, <2>1 DEF Packet, Cells
  <1>6. TypeOK'
    BY <1>0, <1>1, <1>3, <1>5, CallTypes
  <1>7. ProgramTypes'
    BY <1>6 DEF ProgramInv, ProgramTypes, StartTransfer, programVars
  <1>8. /\ pc[t] = "idle" /\ \A u \in Threads \ {t} : pc'[u] = pc[u]
        /\ not_full_' = not_full_ /\ not_empty_' = not_empty_
    BY <1>0, <1>1 DEF Call, Go, TypeOK
  <1>9. WaitInv'
    BY <1>0, <1>8 DEF WaitInv
  <1>10. LoopInv'
    BY <1>0, <1>1, <1>4, <1>8
       DEF LoopInv, StartTransfer, programVars, Producers, Consumers
  <1> QED
    BY <1>7, <1>9, <1>10, ProgramUnchanged DEF ProgramInv, StartTransfer

LEMMA LockOrExpireStep ==
  ASSUME ProgramInv, NEW t \in Threads, Acquire(t) \/ Expire(t)
  PROVE  ProgramInv'
  <1>0. TypeOK /\ WaitInv /\ LoopInv /\ UNCHANGED programVars
    BY DEF ProgramInv, ProgramTypes, Acquire, Expire
  <1>1. TypeOK'
    BY <1>0, LockTypes DEF Acquire, Expire
  <1>2. ProgramTypes'
    BY <1>0, <1>1 DEF ProgramInv, ProgramTypes, programVars
  <1>3. /\ pc[t] # "idle" /\ pc'[t] # "idle"
        /\ \A u \in Threads \ {t} : pc'[u] = pc[u]
        /\ not_full_' \subseteq not_full_ /\ not_empty_' \subseteq not_empty_
        /\ t \notin not_full_' \cup not_empty_'
    <2>1. CASE Lock(t)
      BY <1>0, <2>1 DEF Lock, Go, TypeOK, WaitInv
    <2>2. CASE LeaveWait(t)
      BY <1>0, <2>2 DEF LeaveWait, Go, TypeOK
    <2> QED
      BY <2>1, <2>2 DEF Acquire, Expire, Timeout
  <1>4. WaitInv'
    BY <1>0, <1>3 DEF WaitInv
  <1>5. LoopInv'
    BY <1>0, <1>3 DEF LoopInv, programVars, Producers, Consumers
  <1> QED
    BY <1>0, <1>2, <1>4, <1>5, ProgramUnchanged DEF ProgramInv

LEMMA LeaveLoopStep ==
  ASSUME ProgramInv, NEW t \in Threads, LeaveLoop(t)
  PROVE  ProgramInv'
  <1>0. /\ ProgramTypes /\ TypeOK /\ WaitInv /\ LoopInv /\ EndInv /\ CountInv
        /\ crew \in Crews /\ produced_count \in [Threads -> Nat]
        /\ total_produced_ \in Nat /\ total_consumed_ \in Nat
    BY DEF ProgramInv, ProgramTypes
  <1>1. /\ thread[t] = "looping" /\ pc[t] = "idle" /\ ~GoesOn(t)
        /\ UNCHANGED <<vars, crew, produced_count, total_produced_,
                       total_consumed_, monitor, main>>
    BY DEF LeaveLoop
  <1>2. \A u \in Threads : thread'[u] = IF u = t THEN "finished" ELSE thread[u]
    BY <1>0 DEF LeaveLoop, Becomes, ProgramTypes
  <1>3. TypeOK' /\ WaitInv'
    BY <1>0, <1>1, WrapperUnchanged
  <1>4. ProgramTypes'
    BY <1>0, <1>1, <1>3 DEF ProgramTypes, LeaveLoop, Becomes
  <1>5. /\ t \in Producers => produced_count[t] = crew.quota
        /\ t \in Consumers /\ crew.program = "priority" => total_consumed_ >= Total
    <2>1. t \in Producers => produced_count[t] <= crew.quota
      BY <1>0 DEF LoopInv
    <2>2. Total \in Nat /\ crew.quota \in Nat /\ Producers \cap Consumers = {}
      BY <1>0, CrewFacts
    <2> QED
      BY <1>0, <1>1, <2>1, <2>2 DEF GoesOn
  <1>6. pc' = pc /\ Producers' = Producers /\ Consumers' = Consumers /\ Total' = Total
    BY <1>1 DEF vars, Producers, Consumers, Total
  <1>7. LoopInv'
    BY <1>0, <1>1, <1>2, <1>5, <1>6 DEF LoopInv
  <1>9. EndInv'
    <2>1. Producers \subseteq Threads /\ Consumers \subseteq Threads
      BY <1>0, CrewFacts
    <2>2. Joined(Producers) => Joined(Producers)'
      BY <1>2, <1>6, <2>1 DEF Joined
    <2>3. Joined(Consumers) => Joined(Consumers)'
      BY <1>2, <1>6, <2>1 DEF Joined
    <2> QED
      BY <1>0, <1>1, <1>2, <1>5, <1>6, <2>1, <2>2, <2>3 DEF EndInv
  <1>10. Counting' = Counting
    BY <1>1, <1>2 DEF Counting
  <1>11. CountInv'
    BY <1>0, <1>1, <1>10, CountSteps
  <1> QED
    BY <1>3, <1>4, <1>7, <1>9, <1>11 DEF ProgramInv

LEMMA RunStep ==
  ASSUME ProgramInv, NEW t \in Threads, RunTransfer(t)
  PROVE  ProgramInv'
  <1>0. /\ ProgramTypes /\ TypeOK /\ WaitInv /\ LoopInv /\ EndInv /\ CountInv
        /\ crew \in Crews /\ produced_count \in [Threads -> Nat]
        /\ total_produced_ \in Nat /\ total_consumed_ \in Nat
    BY DEF ProgramInv, ProgramTypes
  <1>1. /\ Proceed(t)
        /\ UNCHANGED <<crew, total_produced_, total_consumed_, monitor, main>>
        /\ Producers' = Producers /\ Consumers' = Consumers /\ Total' = Total
    BY DEF RunTransfer, Producers, Consumers, Total
  <1>2. TypeOK'
    BY <1>0, <1>1, ProceedTypes
  <1>3. /\ WaitInv' /\ pc[t] # "idle"
        /\ pc[t] \in {"notify", "threw"} => pc'[t] = "idle"
        /\ \A u \in Threads \ {t} : pc'[u] = "idle" <=> pc[u] = "idle"
    BY <1>0, <1>1, ProceedPlaces
  <1>4. thread[t] = "looping" /\ t \in Producers \cup Consumers
        /\ (t \in Producers => produced_count[t] < crew.quota)
    BY <1>0, <1>3 DEF LoopInv
  <1>5. /\ Producers \subseteq Threads /\ Consumers \subseteq Threads
        /\ Producers \cap Consumers = {} /\ crew.quota \in Nat
    BY <1>0, CrewFacts
  <1>6. /\ \A u \in Threads \ {t} : thread'[u] = thread[u]
        /\ thread' \in [Threads -> {"looping", "stored", "received", "finished", "threw"}]
        /\ thread'[t] # "finished"
        /\ produced_count' \in [Threads -> Nat]
    BY <1>0, <1>4 DEF RunTransfer, Becomes, ProgramTypes
  <1>7. ProgramTypes'
    BY <1>0, <1>1, <1>2, <1>6 DEF ProgramTypes
  <1>8. EndInv'
    <2>1. Joined(Producers) => t \notin Producers
      BY <1>4 DEF Joined
    <2>2. Joined(Producers) => Joined(Producers)'
      BY <1>1, <1>5, <1>6, <2>1 DEF Joined
    <2>3. Joined(Consumers) => Joined(Consumers)'
      BY <1>1, <1>4, <1>5, <1>6 DEF Joined
    <2> QED
      BY <1>0, <1>1, <1>5, <1>6, <2>2, <2>3 DEF EndInv
  <1>9. CASE pc[t] = "threw" /\ Becomes(t, "threw") /\ UNCHANGED produced_count
    <2>1. thread'[t] = "threw"
      BY <1>0, <1>9 DEF Becomes, ProgramTypes
    <2>2. LoopInv'
      BY <1>0, <1>1, <1>3, <1>4, <1>6, <1>9, <2>1 DEF LoopInv
    <2>3. Counting' = Counting
      BY <1>4, <1>6, <2>1 DEF Counting
    <2> QED
      BY <1>0, <1>1, <1>3, <1>7, <1>8, <1>9, <2>2, <2>3, CountSteps DEF ProgramInv
  <1>10. CASE /\ pc[t] = "notify" /\ t \in Producers
              /\ produced_count' = [produced_count EXCEPT ![t] = @ + 1]
              /\ Becomes(t, "stored")
    <2>1. /\ thread'[t] = "stored" /\ produced_count'[t] = produced_count[t] + 1
          /\ \A u \in Threads \ {t} : produced_count'[u] = produced_count[u]
      BY <1>0, <1>10 DEF Becomes, ProgramTypes
    <2>2. produced_count'[t] <= crew.quota
      BY <1>0, <1>4, <1>5, <1>10, <2>1
    <2>3. LoopInv'
      BY <1>0, <1>1, <1>3, <1>4, <1>6, <1>10, <2>1, <2>2 DEF LoopInv
    <2>4. Counting' = Counting \cup {t} /\ t \notin Counting
      BY <1>4, <1>6, <2>1 DEF Counting
    <2>5. CountInv'
      BY <1>0, <1>1, <1>4, <1>10, <2>4, CountSteps
    <2> QED
      BY <1>3, <1>7, <1>8, <2>3, <2>5 DEF ProgramInv
  <1>11. CASE pc[t] = "notify" /\ t \in Consumers /\ Becomes(t, "received")
              /\ UNCHANGED produced_count
    <2>1. thread'[t] = "received"
      BY <1>0, <1>11 DEF Becomes, ProgramTypes
    <2>2. LoopInv'
      BY <1>0, <1>1, <1>3, <1>4, <1>5, <1>6, <1>11, <2>1 DEF LoopInv
    <2>3. Counting' = Counting
      BY <1>4, <1>6, <2>1 DEF Counting
    <2> QED
      BY <1>0, <1>1, <1>3, <1>7, <1>8, <1>11, <2>2, <2>3, CountSteps DEF ProgramInv
  <1>12. CASE pc[t] \notin {"threw", "notify"} /\ UNCHANGED <<produced_count, thread>>
    <2>1. LoopInv'
      BY <1>0, <1>1, <1>3, <1>4, <1>12 DEF LoopInv
    <2>2. Counting' = Counting
      BY <1>12 DEF Counting
    <2> QED
      BY <1>0, <1>1, <1>3, <1>7, <1>8, <1>12, <2>1, <2>2, CountSteps DEF ProgramInv
  <1> QED
    BY <1>9, <1>10, <1>11, <1>12 DEF RunTransfer

LEMMA CountStep ==
  ASSUME ProgramInv, NEW t \in Threads, Count(t)
  PROVE  ProgramInv'
  <1>0. /\ ProgramTypes /\ TypeOK /\ WaitInv /\ LoopInv /\ EndInv /\ CountInv
        /\ crew \in Crews /\ produced_count \in [Threads -> Nat]
        /\ total_produced_ \in Nat /\ total_consumed_ \in Nat /\ Total \in Nat
    BY CrewFacts DEF ProgramInv, ProgramTypes
  <1>1. /\ thread[t] \in {"stored", "received"}
        /\ UNCHANGED <<vars, crew, produced_count, monitor, main>>
        /\ total_consumed_' >= total_consumed_ /\ total_consumed_' \in Nat
        /\ total_produced_' \in Nat
        /\ pc' = pc
        /\ Producers' = Producers /\ Consumers' = Consumers /\ Total' = Total
    BY <1>0 DEF Count, vars, Producers, Consumers, Total
  <1>2. \A u \in Threads : thread'[u] = IF u = t THEN "looping" ELSE thread[u]
    BY <1>0 DEF Count, Becomes, ProgramTypes
  <1>3. TypeOK' /\ WaitInv'
    BY <1>0, <1>1, WrapperUnchanged
  <1>4. ProgramTypes'
    BY <1>0, <1>1, <1>3 DEF ProgramTypes, Count, Becomes
  <1>5. LoopInv'
    BY <1>0, <1>1, <1>2 DEF LoopInv
  <1>6. EndInv'
    <2>1. Producers \subseteq Threads /\ Consumers \subseteq Threads
      BY <1>0, CrewFacts
    <2>2. Joined(Producers) => Joined(Producers)'
      BY <1>1, <1>2, <2>1 DEF Joined
    <2>3. Joined(Consumers) => Joined(Consumers)'
      BY <1>1, <1>2, <2>1 DEF Joined
    <2>4. total_consumed_ >= Total => total_consumed_' >= Total
      BY <1>0, <1>1
    <2> QED
      BY <1>0, <1>1, <1>2, <2>1, <2>2, <2>3, <2>4 DEF EndInv
  <1>7. CASE thread[t] = "stored" /\ total_produced_' = total_produced_ + 1
    <2>1. t \in Counting /\ Counting' = Counting \ {t}
      BY <1>2, <1>7 DEF Counting
    <2> QED
      BY <1>0, <1>1, <1>3, <1>4, <1>5, <1>6, <1>7, <2>1, CountSteps DEF ProgramInv
  <1>8. CASE thread[t] = "received" /\ total_produced_' = total_produced_
    <2>1. Counting' = Counting
      BY <1>2, <1>8 DEF Counting
    <2> QED
      BY <1>0, <1>1, <1>3, <1>4, <1>5, <1>6, <1>8, <2>1, CountSteps DEF ProgramInv
  <1> QED
    BY <1>7, <1>8 DEF Count

LEMMA MainStep ==
  ASSUME ProgramInv, MonitorEnds \/ Main
  PROVE  ProgramInv'
  <1>0. /\ ProgramTypes /\ TypeOK /\ WaitInv /\ LoopInv /\ EndInv /\ CountInv
        /\ crew \in Crews /\ produced_count \in [Threads -> Nat]
        /\ total_produced_ \in Nat /\ total_consumed_ \in Nat
        /\ crew.program \in {"simulation", "priority"}
    BY CrewFacts DEF ProgramInv, ProgramTypes
  <1>1. /\ UNCHANGED <<vars, crew, produced_count, total_produced_,
                       total_consumed_, thread>>
        /\ pc' = pc /\ Counting' = Counting
        /\ Producers' = Producers /\ Consumers' = Consumers /\ Total' = Total
        /\ Joined(Producers)' = Joined(Producers)
        /\ Joined(Consumers)' = Joined(Consumers)
    BY DEF MonitorEnds, Main, JoinProducers, StopConsumers, JoinConsumers,
           JoinMonitor, MainWaits, vars, Counting, Producers, Consumers, Total,
           Joined
  <1>2. TypeOK' /\ WaitInv'
    BY <1>0, <1>1, WrapperUnchanged
  <1>3. LoopInv'
    BY <1>0, <1>1 DEF LoopInv
  <1>4. CountInv'
    BY <1>0, <1>1, CountSteps
  <1>5. CASE MonitorEnds
    <2>1. ProgramTypes'
      BY <1>0, <1>1, <1>2, <1>5 DEF ProgramTypes, MonitorEnds
    <2>2. EndInv'
      BY <1>0, <1>1, <1>5 DEF EndInv, MonitorEnds
    <2> QED
      BY <1>2, <1>3, <1>4, <2>1, <2>2 DEF ProgramInv
  <1>6. CASE Main
    <2>1. ProgramTypes'
      BY <1>0, <1>1, <1>2, <1>6
         DEF ProgramTypes, Main, JoinProducers, StopConsumers, JoinConsumers,
             JoinMonitor, MainWaits
    <2>2. EndInv'
      BY <1>0, <1>1, <1>6
         DEF EndInv, Main, JoinProducers, StopConsumers, JoinConsumers,
             JoinMonitor, MainWaits
    <2> QED
      BY <1>2, <1>3, <1>4, <2>1, <2>2 DEF ProgramInv
  <1> QED
    BY <1>5, <1>6

LEMMA ProgramInvStep == ProgramInv /\ [ProgramNext]_allVars => ProgramInv'
  <1> SUFFICES ASSUME ProgramInv, [ProgramNext]_allVars PROVE ProgramInv'
    OBVIOUS
  <1>1. ASSUME NEW t \in Threads, Program(t) \/ Acquire(t) \/ Expire(t)
        PROVE  ProgramInv'
    BY <1>1, StartStep, LeaveLoopStep, RunStep, CountStep, LockOrExpireStep
       DEF Program
  <1>2. CASE UNCHANGED allVars
    <2>1. UNCHANGED vars /\ UNCHANGED programVars
      BY <1>2 DEF allVars
    <2>2. TypeOK' /\ WaitInv'
      BY <2>1, WrapperUnchanged DEF ProgramInv, ProgramTypes
    <2>3. ProgramTypes'
      BY <2>1, <2>2 DEF ProgramInv, ProgramTypes, programVars
    <2>4. LoopInv'
      BY <2>1 DEF ProgramInv, LoopInv, vars, programVars, Producers, Consumers
    <2> QED
      BY <2>1, <2>2, <2>3, <2>4, ProgramUnchanged DEF ProgramInv
  <1> QED
    BY <1>1, <1>2, MainStep DEF ProgramNext

(* However the bodies interleave, what the program counts agrees with what *)
(* its threads have done, and none of its parts ends before it may.        *)
THEOREM ProgramInvariant == ProgramSpec => []ProgramInv
  BY ProgramInvInit, ProgramInvStep, PTL DEF ProgramSpec

-----------------------------------------------------------------------------
(* Every packet once, as long as no two bodies have overlapped.            *)

(* The producers whose packet is constructed but not yet counted as        *)
(* stored, the consumers whose packet is out of the buffer but not yet     *)
(* received.                                                               *)
Constructed == {t \in Producers : pc[t] \in Inserted}

Carrying == {t \in Consumers : pc[t] \in Removal}

(* The thread in its body has the buffer to itself; when there is none,    *)
(* the next one finds it sound.  Nothing has thrown.                       *)
SoloInv ==
  ~overlapped =>
    /\ \A t, u \in Threads : InBody(pc[t]) /\ InBody(pc[u]) => t = u
    /\ (\A t \in Threads : ~InBody(pc[t])) => SoundAt("idle")
    /\ \A t \in Threads : InBody(pc[t]) => Alone(t)
    /\ \A t \in Threads : thread[t] # "threw" /\ pc[t] # "threw"

(* A producer is in a call for its next packet.                            *)
CallInv ==
  ~overlapped =>
    \A t \in Threads : pc[t] # "idle" =>
      /\ call[t].op = Transfer(t)
      /\ t \in Producers => call[t].item = Packet(t)

(* Where the packets are, and that none of them is in two places: there    *)
(* are no more places than packets.                                        *)
OnceInv ==
  ~overlapped =>
    /\ Len(taken) + Cardinality(LiveSlots) + Cardinality(Carrying)
         = Cardinality(Stored) + Cardinality(Constructed)
    /\ Stored \cup {Packet(t) : t \in Constructed}
         = {taken[i] : i \in DOMAIN taken}
             \cup {buffer_[s] : s \in LiveSlots}
             \cup {call[t].item : t \in Carrying}

ExactlyOnceInv ==
  ProgramInv /\ taken \in Seq(Cells) /\ SoloInv /\ CallInv /\ OnceInv

(* What a thread in a call is for.                                         *)
LEMMA CallFacts ==
  ASSUME ProgramInv, CallInv, ~overlapped, NEW t \in Threads, pc[t] # "idle"
  PROVE  /\ t \in Producers \cup Consumers
         /\ t \in Producers <=> t \notin Consumers
         /\ IsInsert(t) <=> t \in Producers
         /\ t \in Producers => call[t].item = Packet(t) /\ Packet(t) \in Values
         /\ call[t].op = Transfer(t)
  <1>1. LoopInv /\ crew \in Crews /\ produced_count \in [Threads -> Nat]
    BY DEF ProgramInv, ProgramTypes
  <1>2. /\ Producers \cap Consumers = {} /\ crew.quota \in Nat
        /\ \A p \in Producers : \A i \in 1 .. crew.quota : <<p, i>> \in Values
    BY <1>1, CrewFacts
  <1>3. /\ t \in Producers \cup Consumers
        /\ t \in Producers => produced_count[t] < crew.quota
    BY <1>1 DEF LoopInv
  <1>4. /\ call[t].op = Transfer(t)
        /\ t \in Producers => call[t].item = Packet(t)
    BY DEF CallInv
  <1>5. IsInsert(t) <=> t \in Producers
    BY <1>2, <1>3, <1>4 DEF IsInsert, Transfer, Inserts
  <1>6. t \in Producers => Packet(t) \in Values
    <2>0. produced_count[t] \in Nat /\ crew.quota \in Nat
      BY <1>1, <1>2
    <2>1. ASSUME t \in Producers PROVE produced_count[t] + 1 \in 1 .. crew.quota
      BY <1>3, <2>0, <2>1
    <2>2. t \in Producers => <<t, produced_count[t] + 1>> \in Values
      BY <1>2, <2>1, Zenon
    <2>3. t \in Producers => Packet(t) = <<t, produced_count[t] + 1>>
      BY <1>2 DEF Packet
    <2> QED
      BY <2>2, <2>3
  <1> QED
    BY <1>2, <1>3, <1>4, <1>5, <1>6

LEMMA CountedSets ==
  ASSUME TypeOK, crew \in Crews
  PROVE  /\ IsFiniteSet(LiveSlots) /\ Cardinality(LiveSlots) \in Nat
         /\ IsFiniteSet(Constructed) /\ Cardinality(Constructed) \in Nat
         /\ IsFiniteSet(Carrying) /\ Cardinality(Carrying) \in Nat
         /\ IsFiniteSet(Stored) /\ Cardinality(Stored) \in Nat
  <1>1. IsFiniteSet(Slots)
    <2>1. 0 \in Int /\ Capacity - 1 \in Int
      BY CapacityAssumption
    <2> QED
      BY <2>1, FS_Interval DEF Slots
  <1>2. LiveSlots \subseteq Slots
    BY DEF LiveSlots
  <1>3. Constructed \subseteq Producers /\ Carrying \subseteq Consumers
    BY DEF Constructed, Carrying
  <1>4. IsFiniteSet(Producers) /\ IsFiniteSet(Consumers)
    BY CrewFacts
  <1> QED
    BY <1>1, <1>2, <1>3, <1>4, FiniteCounts, FS_Subset, FS_CardinalityType

(* A step that moves no packet and takes no thread into its body.          *)
Outside == {"idle", "lock", "test", "block", "waiting"}

Quiet ==
  /\ UNCHANGED <<rbVars, taken, produced_count, crew>>
  /\ overlapped => overlapped'
  /\ \A u \in Threads :
       /\ \/ pc'[u] = pc[u] /\ call'[u] = call[u] /\ reg'[u] = reg[u]
          \/ pc[u] \in Outside /\ pc'[u] \in Outside
       /\ thread'[u] = "threw" => thread[u] = "threw"

LEMMA OnceCarries ==
  ASSUME OnceInv, overlapped => overlapped', crew' = crew, crew \in Crews,
         UNCHANGED <<buffer_, taken, produced_count>>,
         Constructed' = Constructed, Carrying' = Carrying,
         \A t \in Carrying : call'[t].item = call[t].item
  PROVE  OnceInv'
  <1>1. Stored' = Stored
    BY DEF Stored, Producers
  <1>2. LiveSlots' = LiveSlots
    BY DEF LiveSlots
  <1>3. \A t : Packet(t)' = Packet(t)
    BY DEF Packet, Consumers
  <1>4. {Packet(t) : t \in Constructed}' = {Packet(t) : t \in Constructed}
    BY <1>3
  <1>5. {call[t].item : t \in Carrying}' = {call[t].item : t \in Carrying}
    OBVIOUS
  <1>6. {buffer_[s] : s \in LiveSlots}' = {buffer_[s] : s \in LiveSlots}
    BY <1>2
  <1> QED
    BY <1>1, <1>2, <1>4, <1>5, <1>6 DEF OnceInv

LEMMA SoloCarries ==
  ASSUME SoloInv, overlapped => overlapped', UNCHANGED rbVars,
         \A u \in Threads :
           /\ InBody(pc'[u]) <=> InBody(pc[u])
           /\ InBody(pc[u]) =>
                pc'[u] = pc[u] /\ call'[u] = call[u] /\ reg'[u] = reg[u]
           /\ pc'[u] = "threw" => pc[u] = "threw"
           /\ thread'[u] = "threw" => thread[u] = "threw"
  PROVE  SoloInv'
  <1>1. SoundAt("idle") => SoundAt("idle")'
    BY DEF rbVars, SoundAt
  <1>2. ASSUME NEW u \in Threads, InBody(pc[u]), Alone(u) PROVE Alone(u)'
    <2>1. /\ pc'[u] = pc[u] /\ call'[u] = call[u] /\ reg'[u] = reg[u]
          /\ UNCHANGED <<buffer_, head_, tail_, count_, full_>>
      BY <1>2 DEF rbVars
    <2>2. SoundAt(pc[u])'
      BY <1>2, <2>1 DEF Alone, SoundAt
    <2>3. InPlace(u)'
      BY <1>2, <2>1 DEF Alone, InPlace, IsInsert
    <2> QED
      BY <2>2, <2>3 DEF Alone
  <1> QED
    BY <1>1, <1>2 DEF SoloInv

LEMMA QuietStep ==
  ASSUME SoloInv, OnceInv, crew \in Crews, Quiet
  PROVE  SoloInv' /\ OnceInv'
  <1>1. /\ \A u \in Threads : InBody(pc'[u]) <=> InBody(pc[u])
        /\ \A u \in Threads : pc'[u] = "threw" <=> pc[u] = "threw"
        /\ \A u \in Threads : InBody(pc[u]) =>
             pc'[u] = pc[u] /\ call'[u] = call[u] /\ reg'[u] = reg[u]
    BY DEF Quiet, Outside, InBody
  <1>4. SoloInv'
    BY <1>1, SoloCarries DEF Quiet
  <1>5. Producers \subseteq Threads /\ Consumers \subseteq Threads
    BY CrewFacts
  <1>6. Constructed' = Constructed
    <2>1. \A u \in Producers : pc'[u] \in Inserted <=> pc[u] \in Inserted
      BY <1>5 DEF Quiet, Outside, Inserted, Appended
    <2> QED
      BY <2>1 DEF Constructed, Quiet, Producers
  <1>7. /\ Carrying' = Carrying
        /\ \A u \in Carrying : call'[u].item = call[u].item
    <2>1. \A u \in Consumers : pc'[u] \in Removal <=> pc[u] \in Removal
      BY <1>5 DEF Quiet, Outside, Removal, Removed
    <2>2. Carrying' = Carrying
      BY <2>1 DEF Carrying, Quiet, Consumers
    <2> QED
      BY <1>5, <2>2 DEF Quiet, Outside, Removal, Removed, Carrying
  <1>8. OnceInv'
    BY <1>6, <1>7, OnceCarries DEF Quiet, rbVars
  <1> QED
    BY <1>4, <1>8

(* What holds of any step of a transfer that overlaps no other.            *)
LEMMA RunFacts ==
  ASSUME ExactlyOnceInv, NEW t \in Threads, RunTransfer(t), ~overlapped'
  PROVE  /\ ~overlapped /\ Proceed(t) /\ crew' = crew
         /\ TypeOK /\ WaitInv /\ crew \in Crews /\ TypeOK'
         /\ InBody(pc'[t]) => \A u \in Threads \ {t} : ~InBody(pc[u])
         /\ pc[t] \notin {"idle", "lock", "waiting", "threw"}
         /\ pc[t] # "notify" => UNCHANGED <<produced_count, thread, taken>>
         /\ \A u \in Threads : thread[u] # "threw" /\ pc[u] # "threw"
         /\ \A u, v \in Threads : InBody(pc[u]) /\ InBody(pc[v]) => u = v
  <1>1. /\ TypeOK /\ WaitInv /\ crew \in Crews
        /\ ~overlapped /\ Proceed(t) /\ crew' = crew
    BY DEF ExactlyOnceInv, ProgramInv, ProgramTypes, RunTransfer
  <1>2. InBody(pc'[t]) => \A u \in Threads \ {t} : ~InBody(pc[u])
    BY DEF RunTransfer, InBody, Transferring
  <1>3. /\ \A u \in Threads : thread[u] # "threw" /\ pc[u] # "threw"
        /\ \A u, v \in Threads : InBody(pc[u]) /\ InBody(pc[v]) => u = v
    BY <1>1 DEF ExactlyOnceInv, SoloInv
  <1>4. pc[t] \notin {"idle", "lock", "waiting"}
    BY <1>1, ProceedPlaces
  <1>5. pc[t] # "notify" => UNCHANGED <<produced_count, thread, taken>>
    BY <1>3 DEF RunTransfer
  <1> QED
    BY <1>1, <1>2, <1>3, <1>4, <1>5, ProceedTypes

(* A call goes on.                                                         *)
LEMMA CallCarries ==
  ASSUME CallInv, overlapped => overlapped', crew' = crew,
         \A u \in Threads : pc'[u] # "idle" =>
           /\ pc[u] # "idle" /\ call'[u].op = call[u].op
           /\ u \in Producers =>
                /\ call'[u].item = call[u].item
                /\ produced_count'[u] = produced_count[u]
  PROVE  CallInv'
  <1>1. \A u : Transfer(u)' = Transfer(u) /\ (u \in Producers' <=> u \in Producers)
    BY DEF Transfer, Producers, Consumers
  <1>2. \A u : produced_count'[u] = produced_count[u] => Packet(u)' = Packet(u)
    BY DEF Packet, Consumers
  <1> QED
    BY <1>1, <1>2 DEF CallInv

(* The step of a body.                                                     *)
LEMMA BodyRunSolo ==
  ASSUME ExactlyOnceInv, NEW t \in Threads, RunTransfer(t), ~overlapped',
         InBody(pc[t])
  PROVE  /\ SoloInv' /\ CallInv'
         /\ \A u \in Threads \ {t} : pc'[u] = pc[u] /\ call'[u] = call[u]
         /\ Alone(t) /\ Alone(t)' /\ (IsInsert(t) => call[t].item \in Values)
  <1>0. /\ ~overlapped /\ Proceed(t) /\ crew' = crew
        /\ TypeOK /\ WaitInv /\ crew \in Crews /\ TypeOK'
        /\ UNCHANGED <<produced_count, thread, taken>>
        /\ \A u \in Threads : thread[u] # "threw" /\ pc[u] # "threw"
        /\ \A u \in Threads : InBody(pc[u]) => u = t
        /\ ProgramInv /\ SoloInv /\ CallInv
    BY RunFacts DEF InBody, ExactlyOnceInv
  <1>1. pc[t] # "idle"
    BY DEF InBody
  <1>2. Alone(t)
    BY <1>0 DEF SoloInv
  <1>3. /\ IsInsert(t) <=> t \in Producers
        /\ IsInsert(t) => call[t].item \in Values
    BY <1>0, <1>1, CallFacts
  <1>4. Alone(t)'
    BY <1>0, <1>2, <1>3, BodySteps
  <1>5. /\ \A u \in Threads \ {t} :
             pc'[u] = pc[u] /\ call'[u] = call[u] /\ reg'[u] = reg[u]
        /\ call'[t].op = call[t].op
        /\ pc[t] # "move" => call' = call
    BY <1>0, BodyFrame
  <1>6. pc'[t] = "notify" \/ InBody(pc'[t])
    BY <1>0, <1>2, <1>4, EffectSteps
  <1>7. IsInsert(t) => pc[t] # "move"
    BY <1>2 DEF Alone, InPlace, Inserting, Appended
  <1>8. CallInv'
    <2>1. \A u \in Threads : pc'[u] # "idle" =>
            /\ pc[u] # "idle" /\ call'[u].op = call[u].op
            /\ u \in Producers => call'[u].item = call[u].item
      BY <1>1, <1>3, <1>5, <1>7
    <2> QED
      BY <1>0, <2>1, CallCarries
  <1>9. (\A u \in Threads : ~InBody(pc'[u])) => SoundAt("idle")'
    <2> SUFFICES ASSUME \A u \in Threads : ~InBody(pc'[u]) PROVE SoundAt("idle")'
      OBVIOUS
    <2>1. pc'[t] = "notify"
      BY <1>6
    <2>2. SoundAt("notify")'
      BY <1>4, <2>1 DEF Alone, SoundAt
    <2>3. ASSUME SoundAt("notify")' PROVE SoundAt("idle")'
      BY <2>3, NotifySound, PTL
    <2> QED
      BY <2>2, <2>3
  <1>10. SoloInv'
    <2>1. \A u \in Threads : InBody(pc'[u]) => u = t
      BY <1>0, <1>5
    <2>2. \A u \in Threads : pc'[u] # "threw" /\ thread'[u] # "threw"
      BY <1>0, <1>5, <1>6 DEF InBody
    <2> QED
      BY <1>4, <1>9, <2>1, <2>2 DEF SoloInv
  <1> QED
    BY <1>2, <1>3, <1>4, <1>5, <1>8, <1>10

LEMMA BodyRunOnce ==
  ASSUME ExactlyOnceInv, NEW t \in Threads, RunTransfer(t), ~overlapped',
         InBody(pc[t])
  PROVE  OnceInv'
  <1>0. /\ ~overlapped /\ Proceed(t) /\ crew' = crew /\ pc[t] # "idle"
        /\ TypeOK /\ crew \in Crews /\ TypeOK'
        /\ UNCHANGED <<produced_count, taken>>
        /\ ProgramInv /\ CallInv /\ OnceInv
    BY RunFacts DEF InBody, ExactlyOnceInv
  <1>1. /\ \A u \in Threads \ {t} : pc'[u] = pc[u] /\ call'[u] = call[u]
        /\ Alone(t) /\ Alone(t)' /\ (IsInsert(t) => call[t].item \in Values)
        /\ Producers \subseteq Threads /\ Consumers \subseteq Threads
    BY <1>0, BodyRunSolo, CrewFacts
  <1>2. /\ t \in Producers \cup Consumers
        /\ t \in Producers <=> t \notin Consumers
        /\ IsInsert(t) <=> t \in Producers
        /\ t \in Producers => call[t].item = Packet(t)
    BY <1>0, CallFacts
  <1>3. /\ t \in Producers /\ pc[t] # "construct" =>
             (pc'[t] \in Inserted <=> pc[t] \in Inserted)
        /\ t \in Consumers /\ pc[t] # "destroy" =>
             (pc'[t] \in Removal <=> pc[t] \in Removal)
    BY <1>0, <1>1, <1>2, EffectSteps
  <1>4. /\ t \in Consumers => pc[t] # "construct"
        /\ t \in Producers => pc[t] \notin {"move", "destroy"}
    BY <1>1, <1>2 DEF Alone, InPlace, Inserting, Removing, Appended, Removed
  <1>5. Producers' = Producers /\ Consumers' = Consumers
    BY <1>0 DEF Producers, Consumers
  <1>6. /\ pc[t] # "move" => call' = call
        /\ call \in [Threads -> [op : Inserts \cup Removals \cup {"none"}, item : Cells]]
    BY <1>0, BodyFrame DEF TypeOK
  <1>7. pc[t] # "construct" => Constructed' = Constructed
    <2>1. pc[t] # "construct" =>
            \A u \in Producers : pc'[u] \in Inserted <=> pc[u] \in Inserted
      BY <1>1, <1>3
    <2> QED
      BY <1>5, <2>1 DEF Constructed
  <1>8. pc[t] # "destroy" => Carrying' = Carrying
    <2>1. pc[t] # "destroy" =>
            \A u \in Consumers : pc'[u] \in Removal <=> pc[u] \in Removal
      BY <1>1, <1>3
    <2> QED
      BY <1>5, <2>1 DEF Carrying
  <1>9. CASE pc[t] \notin {"construct", "destroy"}
    <2>1. buffer_' = buffer_
      BY <1>0, <1>1, <1>9, BodySteps DEF Bookkeeping
    <2>2. \A u \in Carrying : call'[u].item = call[u].item
      <3>1. t \in Carrying => pc[t] # "move"
        BY DEF Carrying, Removal, Removed
      <3> QED
        BY <1>1, <1>6, <3>1 DEF Carrying
    <2> QED
      BY <1>0, <1>7, <1>8, <1>9, <2>1, <2>2, OnceCarries
  <1>10. Stored' = Stored /\ \A u : Packet(u)' = Packet(u)
    BY <1>0, <1>5 DEF Stored, Packet
  <1>11. /\ IsFiniteSet(LiveSlots) /\ Cardinality(LiveSlots) \in Nat
         /\ IsFiniteSet(Constructed) /\ Cardinality(Constructed) \in Nat
         /\ IsFiniteSet(Carrying) /\ Cardinality(Carrying) \in Nat
         /\ Cardinality(Stored) \in Nat /\ Len(taken) \in Nat
    BY <1>0, CountedSets DEF ExactlyOnceInv
  <1>12. /\ Len(taken) + Cardinality(LiveSlots) + Cardinality(Carrying)
              = Cardinality(Stored) + Cardinality(Constructed)
         /\ Stored \cup {Packet(u) : u \in Constructed}
              = {taken[i] : i \in DOMAIN taken}
                  \cup {buffer_[s] : s \in LiveSlots}
                  \cup {call[u].item : u \in Carrying}
    BY <1>0 DEF OnceInv
  <1>13. buffer_ \in [Slots -> Cells] /\ head_ \in Slots /\ tail_ \in Slots
    BY <1>0 DEF TypeOK
  <1>14. CASE pc[t] = "construct"
    <2>0. t \in Producers
      BY <1>2, <1>4, <1>14
    <2>1. /\ pc'[t] = "tail" /\ buffer_[tail_] = Raw
          /\ buffer_' = [buffer_ EXCEPT ![tail_] = call[t].item]
      BY <1>0, <1>1, <1>14, BodySteps
    <2>2. call' = call /\ Carrying' = Carrying
      BY <1>6, <1>8, <1>14
    <2>3. call[t].item = Packet(t) /\ call[t].item # Raw
      BY <1>1, <1>2, <2>0, RawAssumption
    <2>4. \A s \in Slots : buffer_'[s] = IF s = tail_ THEN Packet(t) ELSE buffer_[s]
      BY <1>13, <2>1, <2>3
    <2>5. LiveSlots' = LiveSlots \cup {tail_} /\ tail_ \notin LiveSlots
      BY <1>13, <2>1, <2>3, <2>4 DEF LiveSlots
    <2>6. Constructed' = Constructed \cup {t} /\ t \notin Constructed
      <3>1. "tail" \in Inserted /\ "construct" \notin Inserted
        BY DEF Inserted, Appended
      <3> QED
        BY <1>1, <1>5, <1>14, <2>0, <2>1, <3>1 DEF Constructed
    <2>7. /\ Cardinality(LiveSlots') = Cardinality(LiveSlots) + 1
          /\ Cardinality(Constructed') = Cardinality(Constructed) + 1
      BY <1>11, <2>5, <2>6, FS_AddElement
    <2>8. {buffer_'[s] : s \in LiveSlots'} = {buffer_[s] : s \in LiveSlots} \cup {Packet(t)}
      <3>1. \A s \in LiveSlots : s \in Slots /\ s # tail_
        BY <2>5 DEF LiveSlots
      <3>2. \A s \in LiveSlots : buffer_'[s] = buffer_[s]
        BY <2>4, <3>1
      <3>3. buffer_'[tail_] = Packet(t)
        BY <1>13, <2>4
      <3> QED
        BY <2>5, <3>2, <3>3
    <2>9. {Packet(u)' : u \in Constructed'} = {Packet(u) : u \in Constructed} \cup {Packet(t)}
      BY <1>10, <2>6
    <2>10. /\ Len(taken') + Cardinality(LiveSlots') + Cardinality(Carrying')
                = Cardinality(Stored') + Cardinality(Constructed')
      BY <1>0, <1>10, <1>11, <1>12, <2>2, <2>7
    <2>11. /\ {taken'[i] : i \in DOMAIN taken'} = {taken[i] : i \in DOMAIN taken}
           /\ {call'[u].item : u \in Carrying'} = {call[u].item : u \in Carrying}
      BY <1>0, <2>2
    <2>12. Stored' \cup {Packet(u)' : u \in Constructed'}
             = {taken'[i] : i \in DOMAIN taken'}
                 \cup {buffer_'[s] : s \in LiveSlots'}
                 \cup {call'[u].item : u \in Carrying'}
      <3> DEFINE pending == {Packet(u) : u \in Constructed}
                 received == {taken[i] : i \in DOMAIN taken}
                 inside == {buffer_[s] : s \in LiveSlots}
                 carried == {call[u].item : u \in Carrying}
      <3>1. Stored \cup pending = received \cup inside \cup carried
        BY <1>12
      <3> HIDE DEF pending, received, inside, carried
      <3>2. Stored \cup (pending \cup {Packet(t)})
              = received \cup (inside \cup {Packet(t)}) \cup carried
        BY <3>1
      <3> QED
        BY <1>10, <2>8, <2>9, <2>11, <3>2 DEF pending, received, inside, carried
    <2> QED
      BY <2>10, <2>12 DEF OnceInv
  <1>15. CASE pc[t] = "destroy"
    <2>0. t \in Consumers
      BY <1>2, <1>4, <1>15
    <2>1. /\ pc'[t] = "head" /\ buffer_[head_] # Raw
          /\ buffer_' = [buffer_ EXCEPT ![head_] = Raw]
          /\ call[t].item = buffer_[head_]
      BY <1>0, <1>1, <1>15, BodySteps DEF Alone, InPlace
    <2>2. call' = call /\ Constructed' = Constructed
      BY <1>6, <1>7, <1>15
    <2>4. \A s \in Slots : buffer_'[s] = IF s = head_ THEN Raw ELSE buffer_[s]
      BY <1>13, <2>1
    <2>5. LiveSlots' = LiveSlots \ {head_} /\ head_ \in LiveSlots
      BY <1>13, <2>1, <2>4 DEF LiveSlots
    <2>6. Carrying' = Carrying \cup {t} /\ t \notin Carrying
      <3>1. "head" \in Removal /\ "destroy" \notin Removal
        BY DEF Removal, Removed
      <3> QED
        BY <1>1, <1>5, <1>15, <2>0, <2>1, <3>1 DEF Carrying
    <2>7. /\ Cardinality(LiveSlots') = Cardinality(LiveSlots) - 1
          /\ Cardinality(Carrying') = Cardinality(Carrying) + 1
      BY <1>11, <2>5, <2>6, FS_AddElement, FS_RemoveElement
    <2>8. {buffer_[s] : s \in LiveSlots}
            = {buffer_'[s] : s \in LiveSlots'} \cup {call[t].item}
      <3>1. \A s \in LiveSlots' : s \in Slots /\ buffer_'[s] = buffer_[s]
        BY <2>4, <2>5 DEF LiveSlots
      <3> QED
        BY <2>1, <2>5, <3>1
    <2>9. {call'[u].item : u \in Carrying'}
            = {call[u].item : u \in Carrying} \cup {call[t].item}
      BY <2>2, <2>6
    <2>10. {Packet(u)' : u \in Constructed'} = {Packet(u) : u \in Constructed}
      BY <1>10, <2>2
    <2>11. Len(taken') + Cardinality(LiveSlots') + Cardinality(Carrying')
             = Cardinality(Stored') + Cardinality(Constructed')
      BY <1>0, <1>10, <1>11, <1>12, <2>2, <2>7
    <2> QED
      BY <1>0, <1>10, <1>12, <2>8, <2>9, <2>10, <2>11 DEF OnceInv
  <1> QED
    BY <1>9, <1>14, <1>15

(* The step into a body.                                                   *)
LEMMA EnterRun ==
  ASSUME ExactlyOnceInv, NEW t \in Threads, RunTransfer(t), ~overlapped',
         ~InBody(pc[t]), InBody(pc'[t])
  PROVE  SoloInv' /\ CallInv' /\ OnceInv'
  <1>0. /\ ~overlapped /\ Proceed(t) /\ crew' = crew
        /\ TypeOK /\ crew \in Crews /\ pc[t] \notin {"idle", "threw"}
        /\ \A u \in Threads : ~InBody(pc[u])
        /\ \A u \in Threads : thread[u] # "threw" /\ pc[u] # "threw"
        /\ SoloInv /\ CallInv /\ OnceInv
    BY RunFacts DEF ExactlyOnceInv
  <1>1. SoundAt("idle")
    BY <1>0 DEF SoloInv
  <1>2. /\ Alone(t)' /\ pc[t] = "test" /\ pc'[t] \in {"unlock", "push", "pop"}
        /\ \A u \in Threads \ {t} : pc'[u] = pc[u]
        /\ UNCHANGED <<rbVars, call>>
    BY <1>0, <1>1, EnterStep
  <1>3. UNCHANGED <<produced_count, thread, taken>>
    BY <1>2, RunFacts
  <1>4. SoloInv'
    <2>1. \A u \in Threads : InBody(pc'[u]) => u = t
      BY <1>0, <1>2
    <2>2. \A u \in Threads : pc'[u] # "threw" /\ thread'[u] # "threw"
      BY <1>0, <1>2, <1>3
    <2> QED
      BY <1>2, <2>1, <2>2 DEF SoloInv
  <1>5. CallInv'
    BY <1>0, <1>2, <1>3, CallCarries
  <1>6. /\ \A u \in Threads : pc'[u] \in Inserted <=> pc[u] \in Inserted
        /\ \A u \in Threads : pc'[u] \in Removal <=> pc[u] \in Removal
    BY <1>2 DEF Inserted, Removal, Appended, Removed
  <1>7. /\ Producers \subseteq Threads /\ Consumers \subseteq Threads
        /\ Producers' = Producers /\ Consumers' = Consumers
    BY <1>0, CrewFacts DEF Producers, Consumers
  <1>8. Constructed' = Constructed
    BY <1>6, <1>7 DEF Constructed
  <1>9. Carrying' = Carrying
    BY <1>6, <1>7 DEF Carrying
  <1>10. OnceInv'
    BY <1>0, <1>2, <1>3, <1>8, <1>9, OnceCarries DEF rbVars
  <1> QED
    BY <1>4, <1>5, <1>10

(* The end of a call, and the steps before the body.                       *)
LEMMA OutsideRun ==
  ASSUME ExactlyOnceInv, NEW t \in Threads, RunTransfer(t), ~overlapped',
         ~InBody(pc[t]), ~InBody(pc'[t])
  PROVE  /\ SoloInv' /\ CallInv'
         /\ pc[t] \in {"test", "block", "notify"}
         /\ pc'[t] \in Outside /\ (pc[t] = "notify" => pc'[t] = "idle")
         /\ \A u \in Threads \ {t} :
              /\ pc'[u] = pc[u] \/ (pc[u] = "waiting" /\ pc'[u] = "lock")
              /\ call'[u] = call[u] /\ reg'[u] = reg[u]
         /\ UNCHANGED rbVars
  <1>0. /\ ~overlapped /\ Proceed(t) /\ crew' = crew
        /\ TypeOK /\ WaitInv /\ crew \in Crews /\ pc[t] \notin {"idle", "threw"}
        /\ pc[t] # "notify" => UNCHANGED <<produced_count, thread, taken>>
        /\ \A u \in Threads : thread[u] # "threw" /\ pc[u] # "threw"
        /\ SoloInv /\ CallInv
        /\ thread \in [Threads -> {"looping", "stored", "received", "finished", "threw"}]
        /\ produced_count \in [Threads -> Nat]
    BY RunFacts DEF ExactlyOnceInv, ProgramInv, ProgramTypes
  <1>1. /\ pc[t] \in {"test", "block", "notify"}
        /\ pc'[t] \in {"idle", "block", "waiting"}
        /\ pc'[t] = "idle" \/ call'[t] = call[t]
        /\ \A u \in Threads \ {t} :
             /\ pc'[u] = pc[u] \/ (pc[u] = "waiting" /\ pc'[u] = "lock")
             /\ call'[u] = call[u] /\ reg'[u] = reg[u]
        /\ UNCHANGED rbVars
    BY <1>0, OutsideStep
  <1>2. pc[t] = "notify" => pc'[t] = "idle"
    BY <1>0, ProceedPlaces
  <1>3. \A u \in Threads : thread'[u] # "threw"
    BY <1>0 DEF RunTransfer, Becomes
  <1>4. SoloInv'
    BY <1>0, <1>1, <1>3, SoloCarries DEF InBody
  <1>5. \A u \in Threads \ {t} : produced_count'[u] = produced_count[u]
    BY <1>0 DEF RunTransfer
  <1>6. pc[t] # "notify" => produced_count'[t] = produced_count[t]
    BY <1>0
  <1>7. CallInv'
    BY <1>0, <1>1, <1>2, <1>5, <1>6, CallCarries
  <1> QED
    BY <1>1, <1>2, <1>4, <1>7 DEF Outside

(* A producer's packet is stored.                                          *)
LEMMA StoreRun ==
  ASSUME ExactlyOnceInv, NEW t \in Threads, RunTransfer(t), ~overlapped',
         pc[t] = "notify", t \in Producers
  PROVE  OnceInv' /\ taken' = taken
  <1>0. /\ ~overlapped /\ crew' = crew /\ TypeOK /\ crew \in Crews
        /\ ProgramInv /\ CallInv /\ OnceInv /\ LoopInv
        /\ produced_count \in [Threads -> Nat]
        /\ ~InBody(pc[t]) /\ ~InBody(pc'[t])
    <2>1. pc'[t] = "idle"
      BY RunFacts, ProceedPlaces
    <2> QED
      BY <2>1, RunFacts DEF ExactlyOnceInv, ProgramInv, ProgramTypes, InBody
  <1>1. /\ pc'[t] = "idle"
        /\ \A u \in Threads \ {t} :
             /\ pc'[u] = pc[u] \/ (pc[u] = "waiting" /\ pc'[u] = "lock")
             /\ call'[u] = call[u]
        /\ buffer_' = buffer_
    BY <1>0, OutsideRun DEF rbVars
  <1>2. /\ Producers \subseteq Threads /\ Consumers \subseteq Threads
        /\ Producers \cap Consumers = {}
        /\ Producers' = Producers /\ Consumers' = Consumers
    BY <1>0, CrewFacts DEF Producers, Consumers
  <1>3. /\ produced_count' = [produced_count EXCEPT ![t] = @ + 1]
        /\ taken' = taken
    BY <1>2 DEF RunTransfer
  <1>4. produced_count[t] < crew.quota
    BY <1>0 DEF LoopInv
  <1>5. Packet(t) = <<t, produced_count[t] + 1>>
    BY <1>2 DEF Packet
  <1>6. Stored' = Stored \cup {Packet(t)} /\ Packet(t) \notin Stored
    BY <1>0, <1>3, <1>4, <1>5, StoredGrows
  <1>7. Constructed' = Constructed \ {t} /\ t \in Constructed
    <2>1. \A u \in Threads \ {t} : pc'[u] \in Inserted <=> pc[u] \in Inserted
      BY <1>1 DEF Inserted, Appended
    <2>2. pc[t] \in Inserted /\ pc'[t] \notin Inserted
      BY <1>1 DEF Inserted, Appended
    <2> QED
      BY <1>2, <2>1, <2>2 DEF Constructed
  <1>8. Carrying' = Carrying
    <2>1. \A u \in Threads \ {t} : pc'[u] \in Removal <=> pc[u] \in Removal
      BY <1>1 DEF Removal, Removed
    <2> QED
      BY <1>2, <2>1 DEF Carrying
  <1>9. {call'[u].item : u \in Carrying'} = {call[u].item : u \in Carrying}
    <2>1. \A u \in Carrying : call'[u] = call[u]
      BY <1>1, <1>2 DEF Carrying
    <2> QED
      BY <1>8, <2>1
  <1>10. {Packet(u)' : u \in Constructed'} \cup {Packet(t)}
           = {Packet(u) : u \in Constructed}
    <2>1. \A u \in Constructed \ {t} : Packet(u)' = Packet(u)
      <3>1. \A u \in Threads \ {t} : produced_count'[u] = produced_count[u]
        BY <1>0, <1>3
      <3> QED
        BY <1>2, <3>1 DEF Packet, Constructed
    <2> QED
      BY <1>7, <2>1
  <1>11. LiveSlots' = LiveSlots
    BY <1>1 DEF LiveSlots
  <1>12. {buffer_'[s] : s \in LiveSlots'} = {buffer_[s] : s \in LiveSlots}
    BY <1>1, <1>11
  <1>13. /\ IsFiniteSet(Constructed) /\ Cardinality(Constructed) \in Nat
         /\ IsFiniteSet(Stored) /\ Cardinality(Stored) \in Nat
         /\ Cardinality(LiveSlots) \in Nat /\ Cardinality(Carrying) \in Nat
         /\ Len(taken) \in Nat
    BY <1>0, CountedSets DEF ExactlyOnceInv
  <1>14. /\ Cardinality(Stored') = Cardinality(Stored) + 1
         /\ Cardinality(Constructed') = Cardinality(Constructed) - 1
    BY <1>6, <1>7, <1>13, FS_AddElement, FS_RemoveElement
  <1>15. Len(taken') + Cardinality(LiveSlots') + Cardinality(Carrying')
           = Cardinality(Stored') + Cardinality(Constructed')
    BY <1>0, <1>3, <1>8, <1>11, <1>13, <1>14 DEF OnceInv
  <1>16. Stored' \cup {Packet(u)' : u \in Constructed'}
           = {taken'[i] : i \in DOMAIN taken'}
               \cup {buffer_'[s] : s \in LiveSlots'}
               \cup {call'[u].item : u \in Carrying'}
    <2>1. Stored' \cup {Packet(u)' : u \in Constructed'}
            = Stored \cup {Packet(u) : u \in Constructed}
      BY <1>6, <1>10
    <2> QED
      BY <1>0, <1>3, <1>9, <1>12, <2>1 DEF OnceInv
  <1> QED
    BY <1>3, <1>15, <1>16 DEF OnceInv

(* A consumer receives its packet.                                         *)
LEMMA ReceiveRun ==
  ASSUME ExactlyOnceInv, NEW t \in Threads, RunTransfer(t), ~overlapped',
         pc[t] = "notify", t \notin Producers
  PROVE  OnceInv' /\ taken' \in Seq(Cells)
  <1>0. /\ ~overlapped /\ crew' = crew /\ TypeOK /\ crew \in Crews
        /\ ProgramInv /\ CallInv /\ OnceInv /\ taken \in Seq(Cells)
        /\ ~InBody(pc[t]) /\ ~InBody(pc'[t])
    <2>1. pc'[t] = "idle"
      BY RunFacts, ProceedPlaces
    <2> QED
      BY <2>1, RunFacts DEF ExactlyOnceInv, ProgramInv, ProgramTypes, InBody
  <1>1. /\ pc'[t] = "idle"
        /\ \A u \in Threads \ {t} :
             /\ pc'[u] = pc[u] \/ (pc[u] = "waiting" /\ pc'[u] = "lock")
             /\ call'[u] = call[u]
        /\ buffer_' = buffer_
    BY <1>0, OutsideRun DEF rbVars
  <1>2. /\ Producers \subseteq Threads /\ Consumers \subseteq Threads
        /\ Producers \cap Consumers = {} /\ t \in Consumers
        /\ Producers' = Producers /\ Consumers' = Consumers
    BY <1>0, CrewFacts, CallFacts DEF Producers, Consumers
  <1>3. /\ produced_count' = produced_count
        /\ taken' = Append(taken, call[t].item)
    BY <1>2 DEF RunTransfer
  <1>4. call[t].item \in Cells
    BY <1>0 DEF TypeOK
  <1>5. /\ taken' \in Seq(Cells) /\ Len(taken') = Len(taken) + 1
        /\ {taken'[i] : i \in DOMAIN taken'}
             = {taken[i] : i \in DOMAIN taken} \cup {call[t].item}
    <2>1. /\ taken' \in Seq(Cells) /\ Len(taken') = Len(taken) + 1
          /\ Len(taken) \in Nat
          /\ DOMAIN taken = 1 .. Len(taken) /\ DOMAIN taken' = 1 .. Len(taken) + 1
          /\ \A i \in 1 .. Len(taken) : taken'[i] = taken[i]
          /\ taken'[Len(taken) + 1] = call[t].item
      BY <1>0, <1>3, <1>4
    <2>2. 1 .. Len(taken) + 1 = (1 .. Len(taken)) \cup {Len(taken) + 1}
      BY <2>1
    <2> QED
      BY <2>1, <2>2
  <1>6. Stored' = Stored
    BY <1>0, <1>3 DEF Stored, Producers
  <1>7. Constructed' = Constructed
    <2>1. \A u \in Threads \ {t} : pc'[u] \in Inserted <=> pc[u] \in Inserted
      BY <1>1 DEF Inserted, Appended
    <2> QED
      BY <1>2, <2>1 DEF Constructed
  <1>8. Carrying' = Carrying \ {t} /\ t \in Carrying
    <2>1. \A u \in Threads \ {t} : pc'[u] \in Removal <=> pc[u] \in Removal
      BY <1>1 DEF Removal, Removed
    <2>2. pc[t] \in Removal /\ pc'[t] \notin Removal
      BY <1>1 DEF Removal, Removed
    <2> QED
      BY <1>2, <2>1, <2>2 DEF Carrying
  <1>9. {call'[u].item : u \in Carrying'} \cup {call[t].item}
          = {call[u].item : u \in Carrying}
    <2>1. \A u \in Carrying \ {t} : call'[u] = call[u]
      BY <1>1, <1>2 DEF Carrying
    <2> QED
      BY <1>8, <2>1
  <1>10. {Packet(u)' : u \in Constructed'} = {Packet(u) : u \in Constructed}
    BY <1>2, <1>3, <1>7 DEF Packet
  <1>11. LiveSlots' = LiveSlots
    BY <1>1 DEF LiveSlots
  <1>12. {buffer_'[s] : s \in LiveSlots'} = {buffer_[s] : s \in LiveSlots}
    BY <1>1, <1>11
  <1>13. /\ IsFiniteSet(Carrying) /\ Cardinality(Carrying) \in Nat
         /\ Cardinality(Stored) \in Nat /\ Cardinality(Constructed) \in Nat
         /\ Cardinality(LiveSlots) \in Nat /\ Len(taken) \in Nat
    BY <1>0, CountedSets
  <1>14. Cardinality(Carrying') = Cardinality(Carrying) - 1
    BY <1>8, <1>13, FS_RemoveElement
  <1>15. Len(taken') + Cardinality(LiveSlots') + Cardinality(Carrying')
           = Cardinality(Stored') + Cardinality(Constructed')
    BY <1>0, <1>5, <1>6, <1>7, <1>11, <1>13, <1>14 DEF OnceInv
  <1>16. Stored' \cup {Packet(u)' : u \in Constructed'}
           = {taken'[i] : i \in DOMAIN taken'}
               \cup {buffer_'[s] : s \in LiveSlots'}
               \cup {call'[u].item : u \in Carrying'}
    <2> DEFINE received == {taken[i] : i \in DOMAIN taken}
               carried == {call'[u].item : u \in Carrying'}
    <2>1. /\ {taken'[i] : i \in DOMAIN taken'} = received \cup {call[t].item}
          /\ {call[u].item : u \in Carrying} = carried \cup {call[t].item}
      BY <1>5, <1>9
    <2>2. Stored \cup {Packet(u) : u \in Constructed}
            = received \cup {buffer_[s] : s \in LiveSlots}
                \cup {call[u].item : u \in Carrying}
      BY <1>0 DEF OnceInv
    <2> HIDE DEF received, carried
    <2>3. Stored' \cup {Packet(u)' : u \in Constructed'}
            = (received \cup {call[t].item}) \cup {buffer_'[s] : s \in LiveSlots'}
                \cup carried
      BY <1>6, <1>10, <1>12, <2>1, <2>2
    <2> QED
      BY <2>1, <2>3 DEF carried
  <1> QED
    BY <1>5, <1>15, <1>16 DEF OnceInv

LEMMA RunExactly ==
  ASSUME ExactlyOnceInv, NEW t \in Threads, RunTransfer(t)
  PROVE  ExactlyOnceInv'
  <1>0. /\ ProgramInv /\ TypeOK /\ taken \in Seq(Cells) /\ SoloInv /\ CallInv /\ OnceInv
        /\ crew \in Crews
    BY DEF ExactlyOnceInv, ProgramInv, ProgramTypes
  <1>1. ProgramInv'
    BY <1>0, RunStep
  <1>2. taken' \in Seq(Cells)
    <2>1. call[t].item \in Cells
      BY <1>0 DEF TypeOK
    <2> QED
      BY <1>0, <2>1 DEF RunTransfer
  <1>3. CASE overlapped'
    BY <1>1, <1>2, <1>3 DEF ExactlyOnceInv, SoloInv, CallInv, OnceInv
  <1>4. CASE ~overlapped' /\ InBody(pc[t])
    BY <1>1, <1>2, <1>4, BodyRunSolo, BodyRunOnce DEF ExactlyOnceInv
  <1>5. CASE ~overlapped' /\ ~InBody(pc[t]) /\ InBody(pc'[t])
    BY <1>1, <1>2, <1>5, EnterRun DEF ExactlyOnceInv
  <1>6. CASE ~overlapped' /\ ~InBody(pc[t]) /\ ~InBody(pc'[t])
    <2>1. /\ SoloInv' /\ CallInv' /\ pc[t] \in {"test", "block", "notify"}
          /\ pc'[t] \in Outside
          /\ \A u \in Threads \ {t} :
               /\ pc'[u] = pc[u] \/ (pc[u] = "waiting" /\ pc'[u] = "lock")
               /\ call'[u] = call[u] /\ reg'[u] = reg[u]
          /\ UNCHANGED rbVars
      BY <1>6, OutsideRun
    <2>2. CASE pc[t] = "notify"
      BY <1>1, <1>2, <1>6, <2>1, <2>2, StoreRun, ReceiveRun DEF ExactlyOnceInv
    <2>3. CASE pc[t] # "notify"
      <3>1. UNCHANGED <<produced_count, thread, taken, crew>> /\ ~overlapped
        BY <1>6, <2>3, RunFacts
      <3>2. Quiet
        BY <2>1, <2>3, <3>1 DEF Quiet, Outside
      <3> QED
        BY <1>0, <1>1, <1>2, <2>1, <3>2, QuietStep DEF ExactlyOnceInv
    <2> QED
      BY <2>2, <2>3
  <1> QED
    BY <1>3, <1>4, <1>5, <1>6

(* The steps outside the transfers.                                        *)
LEMMA StartExactly ==
  ASSUME ExactlyOnceInv, NEW t \in Threads, StartTransfer(t)
  PROVE  ExactlyOnceInv'
  <1>0. /\ ProgramInv /\ TypeOK /\ taken \in Seq(Cells) /\ SoloInv /\ CallInv /\ OnceInv
        /\ crew \in Crews
    BY DEF ExactlyOnceInv, ProgramInv, ProgramTypes
  <1>1. /\ Call(t, Transfer(t), Packet(t))
        /\ UNCHANGED <<crew, produced_count, thread, taken, overlapped>>
    BY DEF StartTransfer, programVars
  <1>2. /\ pc[t] = "idle" /\ pc'[t] = "lock"
        /\ call'[t] = [op |-> Transfer(t), item |-> Packet(t)]
        /\ \A u \in Threads \ {t} : pc'[u] = pc[u] /\ call'[u] = call[u]
        /\ UNCHANGED <<rbVars, reg>>
    BY <1>0, <1>1 DEF Call, Go, TypeOK
  <1>3. Quiet
    BY <1>1, <1>2 DEF Quiet, Outside
  <1>4. CallInv'
    <2>1. \A u : /\ Transfer(u)' = Transfer(u) /\ Packet(u)' = Packet(u)
                 /\ u \in Producers' <=> u \in Producers
      BY <1>1 DEF Transfer, Packet, Producers, Consumers
    <2> QED
      BY <1>0, <1>1, <1>2, <2>1 DEF CallInv
  <1> QED
    BY <1>0, <1>1, <1>3, <1>4, StartStep, QuietStep DEF ExactlyOnceInv

LEMMA OtherExactly ==
  ASSUME ExactlyOnceInv,
         \/ \E t \in Threads : LeaveLoop(t) \/ Count(t) \/ Acquire(t) \/ Expire(t)
         \/ MonitorEnds
         \/ Main
  PROVE  ExactlyOnceInv'
  <1>0. /\ ProgramInv /\ ProgramTypes /\ TypeOK /\ taken \in Seq(Cells)
        /\ SoloInv /\ CallInv /\ OnceInv /\ crew \in Crews
    BY DEF ExactlyOnceInv, ProgramInv, ProgramTypes
  <1>1. ProgramInv'
    BY <1>0, LeaveLoopStep, CountStep, LockOrExpireStep, MainStep
  <1>2. ASSUME UNCHANGED <<vars, crew, produced_count, taken, overlapped>>,
               \A u \in Threads : thread'[u] = "threw" => thread[u] = "threw"
        PROVE  Quiet /\ CallInv'
    <2>1. UNCHANGED <<rbVars, pc, call, reg>>
      BY <1>2 DEF vars, rbVars
    <2>2. Quiet
      BY <1>2, <2>1 DEF Quiet
    <2> QED
      BY <1>0, <1>2, <2>1, <2>2, CallCarries
  <1>3. ASSUME NEW t \in Threads, Acquire(t) \/ Expire(t) PROVE Quiet /\ CallInv'
    <2>1. /\ UNCHANGED <<rbVars, call, reg>>
          /\ UNCHANGED <<crew, produced_count, thread, taken, overlapped>>
      BY <1>3 DEF Acquire, Expire, programVars, Lock, Timeout, LeaveWait
    <2>2. /\ pc[t] \in {"lock", "waiting"} /\ pc'[t] \in {"test", "lock"}
          /\ \A u \in Threads \ {t} : pc'[u] = pc[u]
      BY <1>0, <1>3 DEF Acquire, Expire, Lock, Timeout, LeaveWait, Go, TypeOK
    <2>3. Quiet
      BY <2>1, <2>2 DEF Quiet, Outside
    <2> QED
      BY <1>0, <2>1, <2>2, <2>3, CallCarries
  <1>4. ASSUME NEW t \in Threads, LeaveLoop(t) \/ Count(t) PROVE Quiet /\ CallInv'
    <2>1. UNCHANGED <<vars, crew, produced_count, taken, overlapped>>
      BY <1>4 DEF LeaveLoop, Count
    <2>2. \A u \in Threads : thread'[u] = "threw" => thread[u] = "threw"
      BY <1>0, <1>4 DEF LeaveLoop, Count, Becomes, ProgramTypes
    <2> QED
      BY <1>2, <2>1, <2>2
  <1>5. ASSUME MonitorEnds \/ Main PROVE Quiet /\ CallInv'
    <2>1. UNCHANGED <<vars, crew, produced_count, thread, taken, overlapped>>
      BY <1>5 DEF MonitorEnds, Main, JoinProducers, StopConsumers, JoinConsumers,
                  JoinMonitor, MainWaits
    <2> QED
      BY <1>2, <2>1
  <1>6. Quiet /\ CallInv'
    BY <1>3, <1>4, <1>5
  <1>7. SoloInv' /\ OnceInv'
    BY <1>0, <1>6, QuietStep
  <1> QED
    BY <1>0, <1>1, <1>6, <1>7 DEF ExactlyOnceInv, Quiet

LEMMA ExactlyOnceInit == ProgramInit => ExactlyOnceInv
  <1> SUFFICES ASSUME ProgramInit PROVE ExactlyOnceInv
    OBVIOUS
  <1>1. /\ ProgramInv /\ TypeOK /\ crew \in Crews
        /\ ring_buffer /\ taken = <<>> /\ taken \in Seq(Cells)
        /\ \A t \in Threads : pc[t] = "idle" /\ produced_count[t] = 0
        /\ \A t \in Threads : thread[t] # "threw"
    BY ProgramInvInit DEF ProgramInit, Init, ProgramInv, ProgramTypes
  <1>2. SoloInv
    BY <1>1, NewSound DEF SoloInv, InBody
  <1>3. CallInv
    BY <1>1 DEF CallInv
  <1>4. /\ Producers \subseteq Threads /\ Consumers \subseteq Threads
        /\ crew.quota \in Nat
    BY <1>1, CrewFacts
  <1>5. Constructed = {} /\ Carrying = {}
    BY <1>1, <1>4 DEF Constructed, Carrying, Inserted, Removal, Appended, Removed
  <1>6. LiveSlots = {}
    BY <1>1 DEF LiveSlots, ring_buffer
  <1>7. Stored = {}
    BY <1>1, <1>4 DEF Stored
  <1>8. OnceInv
    BY <1>1, <1>5, <1>6, <1>7, FS_EmptySet DEF OnceInv
  <1> QED
    BY <1>1, <1>2, <1>3, <1>8 DEF ExactlyOnceInv

LEMMA ExactlyOnceStep == ExactlyOnceInv /\ [ProgramNext]_allVars => ExactlyOnceInv'
  <1> SUFFICES ASSUME ExactlyOnceInv, [ProgramNext]_allVars PROVE ExactlyOnceInv'
    OBVIOUS
  <1>1. ASSUME NEW t \in Threads, Program(t) \/ Acquire(t) \/ Expire(t)
        PROVE  ExactlyOnceInv'
    BY <1>1, StartExactly, RunExactly, OtherExactly DEF Program
  <1>2. CASE MonitorEnds \/ Main
    BY <1>2, OtherExactly
  <1>3. CASE UNCHANGED allVars
    <2>1. UNCHANGED <<rbVars, pc, call, reg, taken, produced_count, crew, overlapped, thread>>
      BY <1>3 DEF allVars, vars, programVars, rbVars
    <2>2. ProgramInv'
      BY <1>3, ProgramInvStep DEF ExactlyOnceInv
    <2>3. Quiet
      BY <2>1 DEF Quiet
    <2>4. crew \in Crews /\ SoloInv /\ CallInv /\ OnceInv /\ taken \in Seq(Cells)
      BY DEF ExactlyOnceInv, ProgramInv, ProgramTypes
    <2>5. CallInv'
      BY <2>1, <2>4, CallCarries
    <2> QED
      BY <2>1, <2>2, <2>3, <2>4, <2>5, QuietStep DEF ExactlyOnceInv
  <1> QED
    BY <1>1, <1>2, <1>3 DEF ProgramNext

(* Until two bodies overlap, the one that runs has the buffer to itself,   *)
(* and every packet is in one place: with its producer, in the buffer,     *)
(* with its consumer, or received.                                         *)
THEOREM ExactlyOnceInvariant == ProgramSpec => []ExactlyOnceInv
  BY ExactlyOnceInit, ExactlyOnceStep, PTL DEF ProgramSpec

(* For every capacity, any number of producers and consumers, any quota    *)
(* and however long anybody waits: until the bodies of two transfers run   *)
(* at once, no consumer throws, size() is the number of elements, and      *)
(* every packet a producer has stored was received exactly once or is in   *)
(* the buffer exactly once.                                                *)
THEOREM ProgramsExactlyOnceUnlessOverlapped ==
  ProgramSpec => []ExactlyOnceUnlessOverlapped
  <1>1. ExactlyOnceInv => ExactlyOnceUnlessOverlapped
    <2> SUFFICES ASSUME ExactlyOnceInv, ~overlapped
                 PROVE  /\ ~terminated
                        /\ Settled =>
                             /\ count_ = Cardinality(LiveSlots)
                             /\ Len(taken) + count_ = Cardinality(Stored)
                             /\ Stored = {taken[i] : i \in DOMAIN taken}
                                           \cup {buffer_[s] : s \in LiveSlots}
      BY DEF ExactlyOnceUnlessOverlapped
    <2>0. /\ TypeOK /\ crew \in Crews /\ SoloInv /\ OnceInv
      BY DEF ExactlyOnceInv, ProgramInv, ProgramTypes
    <2>1. ~terminated
      BY <2>0 DEF SoloInv, terminated
    <2>2. ASSUME Settled
          PROVE  /\ count_ = Cardinality(LiveSlots)
                 /\ Len(taken) + count_ = Cardinality(Stored)
                 /\ Stored = {taken[i] : i \in DOMAIN taken}
                               \cup {buffer_[s] : s \in LiveSlots}
      <3>1. \A t \in Threads : ~InBody(pc[t]) /\ pc[t] # "notify"
        BY <2>2 DEF Settled, Transferring, InBody
      <3>2. SoundAt("idle")
        BY <2>0, <3>1 DEF SoloInv
      <3>3. head_ \in Slots /\ count_ \in Int
        BY <2>0 DEF TypeOK, size_t
      <3>4. Held("idle", count_) = count_
        BY DEF Held, Appended, Removed
      <3>5. count_ = Cardinality(LiveSlots)
        BY <3>2, <3>3, <3>4, SoundCounts DEF SoundAt, LiveSlots
      <3>6. Producers \subseteq Threads /\ Consumers \subseteq Threads
        BY <2>0, CrewFacts
      <3>7. Constructed = {} /\ Carrying = {}
        BY <3>1, <3>6 DEF Constructed, Carrying, Inserted, Removal, Appended,
                          Removed, InBody
      <3>8. Cardinality(Constructed) = 0 /\ Cardinality(Carrying) = 0
        BY <3>7, FS_EmptySet
      <3>9. /\ Cardinality(Stored) \in Nat /\ Len(taken) \in Nat
            /\ Cardinality(LiveSlots) \in Nat
        BY <2>0, CountedSets DEF ExactlyOnceInv
      <3>10. Len(taken) + count_ = Cardinality(Stored)
        BY <2>0, <3>5, <3>8, <3>9 DEF OnceInv
      <3>11. Stored = {taken[i] : i \in DOMAIN taken}
                        \cup {buffer_[s] : s \in LiveSlots}
        BY <2>0, <3>7 DEF OnceInv
      <3> QED
        BY <3>5, <3>10, <3>11
    <2> QED
      BY <2>1, <2>2
  <1> QED
    BY <1>1, ExactlyOnceInvariant, PTL

-----------------------------------------------------------------------------
(* The end of a program.                                                   *)

(* The consumers that have a packet which is not yet counted.              *)
Received == {t \in Threads : thread[t] = "received"}

ReceivedInv == Len(taken) = total_consumed_ + Cardinality(Received)

LEMMA ReceivedFinite == IsFiniteSet(Received) /\ Cardinality(Received) \in Nat
  <1>1. Received \subseteq Threads
    BY DEF Received
  <1> QED
    BY <1>1, TransferAssumption, FS_Subset, FS_CardinalityType

LEMMA ReceivedInit == ProgramInit => ReceivedInv
  <1> SUFFICES ASSUME ProgramInit PROVE ReceivedInv
    OBVIOUS
  <1>1. Received = {} /\ taken = <<>> /\ total_consumed_ = 0
    BY DEF ProgramInit, Received
  <1> QED
    BY <1>1, FS_EmptySet DEF ReceivedInv

LEMMA ReceivedStep ==
  ASSUME ExactlyOnceInv, ReceivedInv, [ProgramNext]_allVars
  PROVE  ReceivedInv'
  <1>0. /\ ProgramTypes /\ TypeOK /\ WaitInv /\ LoopInv /\ taken \in Seq(Cells)
        /\ total_consumed_ \in Nat /\ Len(taken) \in Nat
    BY DEF ExactlyOnceInv, ProgramInv, ProgramTypes
  <1>1. CASE UNCHANGED <<taken, total_consumed_>> /\ Received' = Received
    BY <1>1 DEF ReceivedInv
  <1>2. CASE UNCHANGED <<taken, total_consumed_, thread>>
    BY <1>1, <1>2 DEF Received
  <1>3. ASSUME NEW t \in Threads, LeaveLoop(t)
        PROVE  ReceivedInv'
    <2>1. \A u \in Threads : thread'[u] = IF u = t THEN "finished" ELSE thread[u]
      BY <1>0, <1>3 DEF LeaveLoop, Becomes, ProgramTypes
    <2>2. Received' = Received
      BY <1>3, <2>1 DEF LeaveLoop, Received
    <2> QED
      BY <1>1, <1>3, <2>2 DEF LeaveLoop
  <1>4. ASSUME NEW t \in Threads, Count(t)
        PROVE  ReceivedInv'
    <2>1. /\ \A u \in Threads : thread'[u] = IF u = t THEN "looping" ELSE thread[u]
          /\ taken' = taken
      BY <1>0, <1>4 DEF Count, Becomes, ProgramTypes
    <2>2. CASE thread[t] = "stored" /\ total_consumed_' = total_consumed_
      <3>1. Received' = Received
        BY <2>1, <2>2 DEF Received
      <3> QED
        BY <1>1, <2>1, <2>2, <3>1
    <2>3. CASE thread[t] = "received" /\ total_consumed_' = total_consumed_ + 1
      <3>1. t \in Received /\ Received' = Received \ {t}
        BY <2>1, <2>3 DEF Received
      <3>2. Cardinality(Received') = Cardinality(Received) - 1
        BY <3>1, ReceivedFinite, FS_RemoveElement
      <3> QED
        BY <1>0, <2>1, <2>3, <3>2, ReceivedFinite DEF ReceivedInv
    <2> QED
      BY <1>4, <2>2, <2>3 DEF Count
  <1>5. ASSUME NEW t \in Threads, RunTransfer(t)
        PROVE  ReceivedInv'
    <2>1. thread[t] = "looping" /\ total_consumed_' = total_consumed_
      <3>1. pc[t] # "idle"
        BY <1>0, <1>5, ProceedPlaces DEF RunTransfer
      <3> QED
        BY <1>0, <1>5, <3>1 DEF LoopInv, RunTransfer
    <2>2. ASSUME NEW what, Becomes(t, what)
          PROVE  \A u \in Threads : thread'[u] = IF u = t THEN what ELSE thread[u]
      BY <1>0, <2>2 DEF Becomes, ProgramTypes
    <2>3. ASSUME NEW what, what # "received", Becomes(t, what), taken' = taken
          PROVE  ReceivedInv'
      <3>1. Received' = Received
        BY <2>1, <2>2, <2>3 DEF Received
      <3> QED
        BY <1>1, <2>1, <2>3, <3>1
    <2>4. CASE Becomes(t, "received") /\ taken' = Append(taken, call[t].item)
      <3>1. t \notin Received /\ Received' = Received \cup {t}
        BY <2>1, <2>2, <2>4 DEF Received
      <3>2. Cardinality(Received') = Cardinality(Received) + 1
        BY <3>1, ReceivedFinite, FS_AddElement
      <3>3. Len(taken') = Len(taken) + 1
        BY <1>0, <2>4 DEF TypeOK
      <3> QED
        BY <1>0, <2>1, <3>2, <3>3, ReceivedFinite DEF ReceivedInv
    <2>5. CASE UNCHANGED <<thread, taken>>
      BY <1>2, <2>1, <2>5
    <2> QED
      BY <1>5, <2>3, <2>4, <2>5 DEF RunTransfer
  <1>6. CASE MonitorEnds \/ Main
    BY <1>2, <1>6 DEF MonitorEnds, Main, JoinProducers, StopConsumers,
                      JoinConsumers, JoinMonitor, MainWaits
  <1>7. ASSUME NEW t \in Threads, StartTransfer(t) \/ Acquire(t) \/ Expire(t)
        PROVE  ReceivedInv'
    BY <1>2, <1>7 DEF StartTransfer, Acquire, Expire, programVars
  <1>8. CASE UNCHANGED allVars
    BY <1>2, <1>8 DEF allVars, programVars
  <1> QED
    BY <1>3, <1>4, <1>5, <1>6, <1>7, <1>8 DEF ProgramNext, Program

(* However the bodies interleave, total_consumed_ counts what the          *)
(* consumers have received.                                                *)
THEOREM ReceivedInvariant == ProgramSpec => [](ExactlyOnceInv /\ ReceivedInv)
  <1>1. ExactlyOnceInv /\ ReceivedInv /\ [ProgramNext]_allVars => ReceivedInv'
    BY ReceivedStep
  <1> QED
    BY <1>1, ReceivedInit, ExactlyOnceInvariant, PTL DEF ProgramSpec

(* For every capacity, any number of producers and consumers and any       *)
(* quota: a program that ends has stored all its packets and received at   *)
(* least as many; if no two bodies have overlapped, then each exactly      *)
(* once, and the buffer is empty.                                          *)
THEOREM ProgramsFinishedMeansConsumed == ProgramSpec => []FinishedMeansConsumed
  <1>1. ExactlyOnceInv /\ ExactlyOnceUnlessOverlapped /\ ReceivedInv
          => FinishedMeansConsumed
    <2> SUFFICES ASSUME ExactlyOnceInv, ExactlyOnceUnlessOverlapped, ReceivedInv,
                        main = "done"
                 PROVE  /\ total_produced_ = Total /\ total_consumed_ >= Total
                        /\ ~overlapped =>
                             /\ empty /\ LiveSlots = {}
                             /\ total_consumed_ = Total /\ Len(taken) = Total
                             /\ {taken[i] : i \in DOMAIN taken}
                                   = Producers \X (1 .. crew.quota)
      BY DEF FinishedMeansConsumed
    <2>0. /\ TypeOK /\ LoopInv /\ EndInv /\ CountInv /\ crew \in Crews
          /\ total_produced_ \in Nat /\ total_consumed_ \in Nat
          /\ taken \in Seq(Cells) /\ Len(taken) \in Nat
      BY DEF ExactlyOnceInv, ProgramInv, ProgramTypes
    <2>1. /\ Joined(Producers) /\ Joined(Consumers)
          /\ crew.program = "simulation" => ~monitor
      BY <2>0 DEF EndInv
    <2>2. /\ Producers \subseteq Threads /\ Consumers \subseteq Threads
          /\ crew.program \in {"simulation", "priority"}
          /\ crew.program = "priority" => Consumers # {}
          /\ crew.quota \in Nat /\ Total \in Nat
      BY <2>0, CrewFacts
    <2>3. total_consumed_ >= Total
      BY <2>0, <2>1, <2>2 DEF EndInv, Joined
    <2>4. \A t \in Threads : thread[t] = "finished"
      BY <2>0, <2>1, <2>2 DEF LoopInv, Joined
    <2>5. Counting = {} /\ Received = {}
      BY <2>4 DEF Counting, Received
    <2>6. Stored = Producers \X (1 .. crew.quota)
      <3>1. \A p \in Producers : produced_count[p] = crew.quota
        BY <2>0, <2>1, <2>2 DEF LoopInv, Joined
      <3>2. \A s \in Producers \X (1 .. crew.quota) : s[2] <= produced_count[s[1]]
        BY <3>1, <2>2
      <3> QED
        BY <3>2 DEF Stored
    <2>7. /\ Cardinality(Stored) = Total
          /\ Cardinality(Counting) = 0 /\ Cardinality(Received) = 0
      BY <2>0, <2>5, <2>6, FiniteCounts, FS_EmptySet
    <2>8. total_produced_ = Total /\ Len(taken) = total_consumed_
      BY <2>0, <2>2, <2>7 DEF CountInv, ReceivedInv
    <2>9. ASSUME ~overlapped
          PROVE  /\ empty /\ LiveSlots = {}
                 /\ total_consumed_ = Total /\ Len(taken) = Total
                 /\ {taken[i] : i \in DOMAIN taken} = Producers \X (1 .. crew.quota)
      <3>1. Settled
        BY <2>0, <2>4 DEF LoopInv, Settled, Transferring
      <3>2. /\ count_ = Cardinality(LiveSlots)
            /\ Len(taken) + count_ = Total
            /\ Stored = {taken[i] : i \in DOMAIN taken}
                          \cup {buffer_[s] : s \in LiveSlots}
        BY <2>7, <2>9, <3>1 DEF ExactlyOnceUnlessOverlapped
      <3>3. IsFiniteSet(LiveSlots) /\ Cardinality(LiveSlots) \in Nat
        BY <2>0, CountedSets
      <3>4. count_ = 0 /\ total_consumed_ = Total
        BY <2>0, <2>2, <2>3, <2>8, <3>2, <3>3
      <3>5. LiveSlots = {}
        BY <3>2, <3>3, <3>4, FS_EmptySet
      <3>6. Stored = {taken[i] : i \in DOMAIN taken}
        BY <3>2, <3>5
      <3> QED
        BY <2>6, <2>8, <3>4, <3>5, <3>6 DEF empty
    <2> QED
      BY <2>3, <2>8, <2>9
  <1> QED
    BY <1>1, ReceivedInvariant, ProgramsExactlyOnceUnlessOverlapped, PTL
=============================================================================
