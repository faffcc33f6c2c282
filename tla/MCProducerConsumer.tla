------------------------- MODULE MCProducerConsumer -------------------------
(* Instances of ProducerConsumer for TLC: which threads do what.           *)
EXTENDS ProducerConsumer

CONSTANTS t1, t2, t3

Everything == [t \in Threads |-> Inserts \cup Removals]

Packets == Threads \X (1 .. 3)

Crew(program, producers, consumers, quota) ==
  [program |-> program, producers |-> producers, consumers |-> consumers,
   quota |-> quota]

TwoConsumers == Crew("simulation", {t1}, {t2, t3}, 1)

(* One producer that fills the buffer, one consumer; a producer with two   *)
(* consumers; the priority program.                                        *)
AllCrews ==
  {Crew("simulation", {t1}, {t2}, 3), TwoConsumers,
   Crew("priority", {t1, t3}, {t2}, 1)}

RacingCrew == {TwoConsumers}
=============================================================================
