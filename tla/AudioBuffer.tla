---------------------------- MODULE AudioBuffer ----------------------------
(***************************************************************************)
(* AudioBufferExample::run_simulation (examples/audio_buffer_example.cc):  *)
(* 20 steps, in each of which some chunks of samples are generated into    *)
(* the ring buffer and some are taken out and played.  A sample is the     *)
(* number of its generation, 1, 2, ...; the wave form, the gain and the    *)
(* statistics are left out.                                                *)
(***************************************************************************)
EXTENDS RingBuffer

CONSTANT CHUNK_SIZE  \* samples per chunk, at least 1; Capacity is two chunks

VARIABLES
  step,    \* of the simulation
  phase,   \* whether the step generates or processes
  calls,   \* calls of generate_ or process_audio_samples yet to start in it
  left,    \* samples the running call has still to push or pop
  sample,  \* the newest sample generated, 0 before the first
  played   \* the last sample played, 0 before the first

vars == <<rbVars, step, phase, calls, left, sample, played>>

simulation_steps == 20

generation_factor(s) == IF s % 7 = 0 THEN 0 ELSE IF s % 5 = 0 THEN 2 ELSE 1

processing_factor(s) == IF s % 4 = 0 THEN 0 ELSE IF s % 3 = 0 THEN 2 ELSE 1

Init ==
  /\ ring_buffer
  /\ step = 0
  /\ phase = "generate"
  /\ calls = generation_factor(0)
  /\ left = 0
  /\ sample = 0
  /\ played = 0

(* A chunk is processed as far as there are samples; of an empty buffer    *)
(* there is nothing to process.                                            *)
StartCall ==
  /\ calls > 0 /\ left = 0
  /\ calls' = calls - 1
  /\ left' = IF phase = "process" /\ size < CHUNK_SIZE THEN size ELSE CHUNK_SIZE
  /\ UNCHANGED <<rbVars, step, phase, sample, played>>

generate_audio_samples ==
  /\ phase = "generate" /\ left > 0
  /\ push_back(sample + 1)
  /\ sample' = sample + 1
  /\ left' = left - 1
  /\ UNCHANGED <<step, phase, calls, played>>

process_audio_samples ==
  /\ phase = "process" /\ left > 0
  /\ pop_front
  /\ played' = front
  /\ left' = left - 1
  /\ UNCHANGED <<step, phase, calls, sample>>

NextPhase ==
  /\ calls = 0 /\ left = 0
  /\ \/ /\ phase = "generate" /\ step < simulation_steps
        /\ phase' = "process"
        /\ calls' = processing_factor(step)
        /\ UNCHANGED step
     \/ /\ phase = "process"
        /\ phase' = "generate"
        /\ step' = step + 1
        /\ calls' = IF step' = simulation_steps THEN 0 ELSE generation_factor(step')
  /\ UNCHANGED <<rbVars, left, sample, played>>

Next ==
  \/ StartCall
  \/ generate_audio_samples
  \/ process_audio_samples
  \/ NextPhase

Spec == Init /\ [][Next]_vars

(* The buffer "helps prevent audio glitches": bursts may cost the oldest   *)
(* samples, but what is played is played once and in the order in which it *)
(* was generated.                                                          *)
PlaysInOrder ==
  [][process_audio_samples => front \in Values /\ front > played]_vars
=============================================================================
