------------------------ MODULE CircularLoggerProofs ------------------------
(***************************************************************************)
(* Proofs about CircularLogger, for every capacity, every set of entries   *)
(* and every assignment of levels: it uses its ring buffer as a            *)
(* disciplined client does, and it keeps, shows and writes the newest      *)
(* entries.                                                                *)
(***************************************************************************)
EXTENDS CircularLogger, RingBufferClientProofs

-----------------------------------------------------------------------------
(* The last elements of a sequence.                                        *)

LEMMA LastProperties ==
  ASSUME NEW S, NEW s \in Seq(S), NEW n \in 0 .. Len(s)
  PROVE  /\ Last(s, n) \in Seq(S)
         /\ Len(Last(s, n)) = n
         /\ \A i \in 1 .. n : Last(s, n)[i] = s[Len(s) - n + i]
  <1> DEFINE m == Len(s) - n + 1
  <1>1. Len(s) \in Nat /\ n \in Nat /\ m \in Int /\ m >= 1
    BY LenProperties
  <1>2. \A i \in m .. Len(s) : s[i] \in S
    BY <1>1, LenProperties
  <1>3. (Len(s) - m) + 1 = n /\ (m <= Len(s) <=> n # 0)
    BY <1>1
  <1>4. \A i \in 1 .. n : (m + i) - 1 = (Len(s) - n) + i
    BY <1>1
  <1> HIDE DEF m
  <1>5. /\ SubSeq(s, m, Len(s)) \in Seq(S)
        /\ Len(SubSeq(s, m, Len(s))) = IF m <= Len(s) THEN (Len(s) - m) + 1 ELSE 0
        /\ \A i \in 1 .. (Len(s) - m) + 1 : SubSeq(s, m, Len(s))[i] = s[(m + i) - 1]
    BY <1>1, <1>2, SubSeqProperties
  <1>6. Last(s, n) = SubSeq(s, m, Len(s))
    BY DEF Last, m
  <1> QED
    BY <1>1, <1>3, <1>4, <1>5, <1>6

LEMMA LastAppend ==
  ASSUME NEW S, NEW s \in Seq(S), NEW e \in S, NEW n \in 0 .. Len(s)
  PROVE  Last(Append(s, e), n + 1) = Append(Last(s, n), e)
  <1> DEFINE t == Append(s, e)
             old == Last(s, n)
             new == Last(t, n + 1)
  <1>1. /\ t \in Seq(S) /\ Len(t) = Len(s) + 1 /\ Len(s) \in Nat /\ n \in Nat
        /\ \A i \in 1 .. Len(s) : t[i] = s[i]
        /\ t[Len(s) + 1] = e
    BY AppendProperties, LenProperties
  <1> HIDE DEF t
  <1>2. n + 1 \in 0 .. Len(t)
    BY <1>1
  <1>3. /\ old \in Seq(S) /\ Len(old) = n
        /\ \A i \in 1 .. n : old[i] = s[Len(s) - n + i]
    BY LastProperties
  <1>4. /\ new \in Seq(S) /\ Len(new) = n + 1
        /\ \A i \in 1 .. n + 1 : new[i] = t[Len(t) - (n + 1) + i]
    BY <1>1, <1>2, LastProperties
  <1> HIDE DEF old, new
  <1>5. /\ Append(old, e) \in Seq(S) /\ Len(Append(old, e)) = n + 1
        /\ \A i \in 1 .. n : Append(old, e)[i] = old[i]
        /\ Append(old, e)[n + 1] = e
    BY <1>3, AppendProperties
  <1>6. ASSUME NEW i \in 1 .. n + 1
        PROVE  new[i] = Append(old, e)[i]
    <2>1. new[i] = t[(Len(s) - n) + i]
      <3>1. Len(t) - (n + 1) + i = (Len(s) - n) + i
        BY <1>1
      <3> QED
        BY <1>4, <3>1
    <2>2. CASE i = n + 1
      <3>1. (Len(s) - n) + i = Len(s) + 1
        BY <2>2, <1>1
      <3> QED
        BY <2>1, <2>2, <3>1, <1>1, <1>5
    <2>3. CASE i \in 1 .. n
      <3>1. (Len(s) - n) + i \in 1 .. Len(s)
        BY <2>3, <1>1
      <3> QED
        BY <2>1, <2>3, <3>1, <1>1, <1>3, <1>5
    <2>4. i = n + 1 \/ i \in 1 .. n
      BY <1>1
    <2> QED
      BY <2>2, <2>3, <2>4
  <1>7. new = Append(old, e)
    BY <1>4, <1>5, <1>6, SeqEqual
  <1> QED
    BY <1>7 DEF new, old, t

LEMMA TailOfLast ==
  ASSUME NEW S, NEW s \in Seq(S), NEW n \in 1 .. Len(s)
  PROVE  Tail(Last(s, n)) = Last(s, n - 1)
  <1> DEFINE old == Last(s, n)
             new == Last(s, n - 1)
  <1>1. /\ Len(s) \in Nat /\ n \in Nat /\ n # 0
        /\ n \in 0 .. Len(s) /\ n - 1 \in 0 .. Len(s)
    BY LenProperties
  <1>2. /\ old \in Seq(S) /\ Len(old) = n
        /\ \A i \in 1 .. n : old[i] = s[Len(s) - n + i]
    BY <1>1, LastProperties
  <1>3. /\ new \in Seq(S) /\ Len(new) = n - 1
        /\ \A i \in 1 .. n - 1 : new[i] = s[Len(s) - (n - 1) + i]
    BY <1>1, LastProperties
  <1> HIDE DEF old, new
  <1>4. old # <<>>
    BY <1>1, <1>2, EmptySeq
  <1>5. /\ Tail(old) \in Seq(S) /\ Len(Tail(old)) = n - 1
        /\ \A i \in 1 .. n - 1 : Tail(old)[i] = old[i + 1]
    BY <1>2, <1>4, HeadTailProperties
  <1>6. ASSUME NEW i \in 1 .. n - 1
        PROVE  Tail(old)[i] = new[i]
    <2>1. i + 1 \in 1 .. n /\ Len(s) - n + (i + 1) = Len(s) - (n - 1) + i
      BY <1>1
    <2>2. Tail(old)[i] = old[i + 1]
      BY <1>5
    <2>3. old[i + 1] = s[Len(s) - n + (i + 1)]
      BY <2>1, <1>2
    <2>4. new[i] = s[Len(s) - (n - 1) + i]
      BY <1>3
    <2> QED
      BY <2>1, <2>2, <2>3, <2>4
  <1> QED
    BY <1>3, <1>5, <1>6, SeqEqual DEF old, new

LEMMA LastOfLast ==
  ASSUME NEW S, NEW s \in Seq(S), NEW n \in 0 .. Len(s), NEW k \in 0 .. n
  PROVE  Last(Last(s, n), k) = Last(s, k)
  <1> DEFINE mid == Last(s, n)
             one == Last(mid, k)
             two == Last(s, k)
  <1>1. Len(s) \in Nat /\ n \in Nat /\ k \in Nat /\ k \in 0 .. Len(s)
    BY LenProperties
  <1>2. /\ mid \in Seq(S) /\ Len(mid) = n
        /\ \A i \in 1 .. n : mid[i] = s[Len(s) - n + i]
    BY LastProperties
  <1> HIDE DEF mid
  <1>3. /\ one \in Seq(S) /\ Len(one) = k
        /\ \A i \in 1 .. k : one[i] = mid[Len(mid) - k + i]
    BY <1>2, LastProperties
  <1>4. /\ two \in Seq(S) /\ Len(two) = k
        /\ \A i \in 1 .. k : two[i] = s[Len(s) - k + i]
    BY <1>1, LastProperties
  <1> HIDE DEF one, two
  <1>5. ASSUME NEW i \in 1 .. k
        PROVE  one[i] = two[i]
    <2>1. n - k + i \in 1 .. n /\ Len(s) - n + (n - k + i) = Len(s) - k + i
      BY <1>1
    <2>2. one[i] = mid[n - k + i]
      BY <1>2, <1>3
    <2> QED
      BY <2>1, <2>2, <1>2, <1>4
  <1> QED
    BY <1>3, <1>4, <1>5, SeqEqual DEF one, two, mid

(* What a buffer keeps of the entries logged, and what one more changes.   *)
Kept(s) == Last(s, IF Len(s) < Capacity THEN Len(s) ELSE Capacity)

LEMMA KeptProperties ==
  ASSUME NEW S, NEW s \in Seq(S)
  PROVE  /\ Kept(s) \in Seq(S)
         /\ Len(Kept(s)) = IF Len(s) < Capacity THEN Len(s) ELSE Capacity
         /\ Len(Kept(s)) \in 0 .. Len(s)
         /\ Kept(s) = Last(s, Len(Kept(s)))
         /\ s # <<>> => Kept(s) # <<>> /\ Kept(s)[Len(Kept(s))] = s[Len(s)]
         /\ s = <<>> => Kept(s) = <<>>
  <1> DEFINE n == IF Len(s) < Capacity THEN Len(s) ELSE Capacity
  <1>1. /\ Len(s) \in Nat /\ n \in 0 .. Len(s) /\ n \in Nat
        /\ s = <<>> <=> Len(s) = 0
        /\ Len(s) # 0 => n # 0 /\ n \in 1 .. n /\ (Len(s) - n) + n = Len(s)
        /\ Len(s) = 0 => n = 0
    BY CapacityAssumption, LenProperties, EmptySeq
  <1> HIDE DEF n
  <1>2. /\ Last(s, n) \in Seq(S) /\ Len(Last(s, n)) = n
        /\ \A i \in 1 .. n : Last(s, n)[i] = s[(Len(s) - n) + i]
    BY <1>1, LastProperties
  <1>3. Kept(s) = Last(s, n)
    BY DEF Kept, n
  <1>4. Kept(s) = <<>> <=> n = 0
    BY <1>2, <1>3, EmptySeq
  <1>5. ASSUME s # <<>>
        PROVE  Kept(s)[n] = s[Len(s)]
    BY <1>1, <1>2, <1>3, <1>5
  <1>6. n = IF Len(s) < Capacity THEN Len(s) ELSE Capacity
    BY DEF n
  <1> QED
    BY <1>1, <1>2, <1>3, <1>4, <1>5, <1>6

LEMMA KeptAppend ==
  ASSUME NEW S, NEW s \in Seq(S), NEW e \in S
  PROVE  Kept(Append(s, e))
           = Append(IF Len(Kept(s)) = Capacity THEN Tail(Kept(s)) ELSE Kept(s), e)
  <1>1. /\ Len(s) \in Nat /\ Len(Append(s, e)) = Len(s) + 1
        /\ Len(Kept(s)) = IF Len(s) < Capacity THEN Len(s) ELSE Capacity
    BY AppendProperties, LenProperties, KeptProperties
  <1>2. CASE Len(s) < Capacity
    <2>1. Len(Kept(s)) # Capacity /\ Kept(s) = Last(s, Len(s))
      BY <1>1, <1>2 DEF Kept
    <2>2. Kept(Append(s, e)) = Last(Append(s, e), Len(s) + 1)
      BY <1>1, <1>2, CapacityAssumption DEF Kept
    <2>3. Len(s) \in 0 .. Len(s)
      BY <1>1
    <2>4. Last(Append(s, e), Len(s) + 1) = Append(Last(s, Len(s)), e)
      BY <2>3, LastAppend
    <2> QED
      BY <2>1, <2>2, <2>4
  <1>3. CASE ~(Len(s) < Capacity)
    <2>1. Len(Kept(s)) = Capacity /\ Kept(s) = Last(s, Capacity)
      BY <1>1, <1>3 DEF Kept
    <2>2. /\ Capacity \in 1 .. Len(s) /\ Capacity - 1 \in 0 .. Len(s)
          /\ (Capacity - 1) + 1 = Capacity /\ ~(Len(s) + 1 < Capacity)
      BY <1>1, <1>3, CapacityAssumption
    <2>3. Kept(Append(s, e)) = Last(Append(s, e), Capacity)
      BY <1>1, <2>2 DEF Kept
    <2>4. Last(Append(s, e), (Capacity - 1) + 1) = Append(Last(s, Capacity - 1), e)
      BY <2>2, LastAppend
    <2>5. Tail(Last(s, Capacity)) = Last(s, Capacity - 1)
      BY <2>2, TailOfLast
    <2> QED
      BY <2>1, <2>2, <2>3, <2>4, <2>5
  <1> QED
    BY <1>2, <1>3

-----------------------------------------------------------------------------
(* The logger is a disciplined client: it does not pop, so that its buffer *)
(* is full from the first overwrite to the next clear().                   *)

LoggerInv == DisciplineInv /\ TailUsable

LEMMA LoggerInvInit == CircularLogger => LoggerInv
  <1> SUFFICES ASSUME CircularLogger PROVE LoggerInv
    OBVIOUS
  <1>1. Init /\ lag = 0
    BY DEF CircularLogger, Init
  <1> QED
    BY <1>1, DisciplineInvInit DEF LoggerInv, TailUsable

LEMMA ReaderStepDisciplined ==
  ASSUME LoggerInv, Front \/ Back \/ Available \/ Empty \/ Traverse
  PROVE  DisciplinedNext /\ TailUsable' /\ UNCHANGED <<rbVars, lag>>
  <1>1. TailUsable /\ count_ \in 0 .. Capacity
    BY MembersTyped DEF LoggerInv, DisciplineInv
  <1>2. ~empty => count_ - 1 \in 0 .. Capacity
    BY <1>1, CapacityAssumption DEF empty
  <1>3. Front \/ Back \/ Available \/ Empty \/ (~empty /\ At(count_ - 1))
    BY DEF Traverse
  <1>4. UNCHANGED <<rbVars, lag>>
    BY <1>3 DEF Front, Back, Available, Empty, At, Answer
  <1>5. TailUsable'
    BY <1>1, <1>4 DEF rbVars, TailUsable
  <1>6. DisciplinedNext
    BY <1>1, <1>2, <1>3 DEF DisciplinedNext, HeadCalls, TailCalls
  <1> QED
    BY <1>4, <1>5, <1>6

LEMMA ReadersRead ==
  ASSUME \/ print_status
         \/ dump_logs
         \/ \E e \in Values : dump_logs_by_level(Level[e])
         \/ get_oldest_entry
         \/ get_newest_entry
  PROVE  /\ Front \/ Back \/ Available \/ Empty \/ Traverse
         /\ UNCHANGED <<enabled_, write_to_file_, file_, accepted, missed>>
  BY DEF print_status, dump_logs, dump_logs_by_level, get_oldest_entry,
         get_newest_entry, Shows

LEMMA LoggerStepDisciplined ==
  ASSUME LoggerInv, [LoggerNext]_loggerVars
  PROVE  [DisciplinedNext]_vars /\ TailUsable'
  <1>0. TailUsable
    BY DEF LoggerInv
  <1>1. ASSUME NEW e \in Values, log(e)
        PROVE  DisciplinedNext /\ TailUsable'
    <2>1. PushBack(e)
      BY <1>1 DEF log
    <2>2. TailUsable'
      <3>1. CASE full_
        BY <2>1, <3>1 DEF PushBack, push_back, overwrite_advance_head, TailUsable
      <3>2. CASE ~full_
        BY <1>0, <2>1, <3>2 DEF PushBack, Overwriting, TailUsable
      <3> QED
        BY <3>1, <3>2
    <2> QED
      BY <1>0, <2>1, <2>2 DEF DisciplinedNext, TailCalls
  <1>2. CASE clear_
    BY <1>2 DEF clear_, Clear, DisciplinedNext, HeadCalls, TailUsable
  <1>3. CASE UNCHANGED vars
    BY <1>0, <1>3 DEF vars, TailUsable
  <1>4. CASE Front \/ Back \/ Available \/ Empty \/ Traverse
    BY <1>4, ReaderStepDisciplined
  <1>5. CASE \E enabled \in BOOLEAN : set_enabled(enabled)
    BY <1>5, <1>3 DEF set_enabled
  <1>6. CASE UNCHANGED loggerVars
    BY <1>6, <1>3 DEF loggerVars
  <1> QED
    BY <1>1, <1>2, <1>4, <1>5, <1>6, ReadersRead DEF LoggerNext

LEMMA LoggerInvStep == LoggerInv /\ [LoggerNext]_loggerVars => LoggerInv'
  <1> SUFFICES ASSUME LoggerInv, [LoggerNext]_loggerVars
               PROVE  LoggerInv'
    OBVIOUS
  <1>1. [DisciplinedNext]_vars /\ TailUsable'
    BY LoggerStepDisciplined
  <1>2. DisciplineInv /\ IndexInv
    BY DEF LoggerInv, DisciplineInv
  <1>3. IndexInv'
    BY <1>1, <1>2, DisciplinedIsClient, IndexInvStep
  <1> QED
    BY <1>1, <1>2, <1>3, DisciplineInvStep DEF LoggerInv

(* In every state of every logger tail_ is in place or not used: the       *)
(* inductive invariant of disciplined clients holds, whatever is logged,   *)
(* cleared and read.                                                       *)
THEOREM LoggerInvariant == LoggerSpec => []LoggerInv
  BY LoggerInvInit, LoggerInvStep, PTL DEF LoggerSpec

(* Every behaviour of a logger is one of a disciplined client.             *)
THEOREM LoggerIsDisciplined == LoggerSpec => DisciplinedSpec
  <1>1. CircularLogger => Init
    BY DEF CircularLogger
  <1>2. LoggerInv /\ [LoggerNext]_loggerVars => [DisciplinedNext]_vars
    BY LoggerStepDisciplined
  <1> QED
    BY <1>1, <1>2, LoggerInvariant, PTL DEF LoggerSpec, DisciplinedSpec

(* The log entries alive in the storage are those of the logger: logging   *)
(* and clearing leak no entry and destroy none twice.                      *)
THEOREM LoggerLiveExactly == LoggerSpec => []LiveExactly
  BY LoggerIsDisciplined, DisciplinedLiveExactly, PTL

(* Under the logger the ring buffer is the ideal bounded sequence.         *)
THEOREM LoggerImplementsWindow == LoggerSpec => ImplementsWindow
  BY LoggerIsDisciplined, DisciplinedRefinesWindow

-----------------------------------------------------------------------------
(* What the logger holds and what its file holds.                          *)

(* The part of the invariant about the entries logged: they are kept, and  *)
(* the file, if none of them was missed, ends with them.                   *)
EntriesInv ==
  /\ accepted \in Seq(Values)
  /\ file_ \in Seq(Values)
  /\ Contents = Kept(accepted)
  /\ write_to_file_ /\ ~missed =>
       /\ Len(accepted) <= Len(file_)
       /\ accepted = Last(file_, Len(accepted))

LEMMA EntriesInvInit == CircularLogger => EntriesInv
  <1> SUFFICES ASSUME CircularLogger PROVE EntriesInv
    OBVIOUS
  <1>1. /\ Init /\ accepted = <<>> /\ file_ = <<>>
        /\ <<>> \in Seq(Values) /\ Len(<<>>) = 0
    BY DEF CircularLogger
  <1>2. Contents = <<>>
    <2>1. IndexInv /\ empty
      BY <1>1, DisciplineInvInit DEF Init, ring_buffer, empty, DisciplineInv
    <2> QED
      BY <2>1, ContentsTyped
  <1>3. Kept(<<>>) = <<>>
    BY <1>1, KeptProperties
  <1>4. Last(<<>>, 0) = <<>>
    <2>1. 0 \in 0 .. Len(<<>>)
      BY <1>1
    <2>2. Last(<<>>, 0) \in Seq(Values) /\ Len(Last(<<>>, 0)) = 0
      BY <1>1, <2>1, LastProperties
    <2> QED
      BY <2>2, EmptySeq
  <1> QED
    BY <1>1, <1>2, <1>3, <1>4 DEF EntriesInv

LEMMA EntriesInvLog ==
  ASSUME LoggerInv, LoggerInv', EntriesInv, NEW e \in Values, log(e)
  PROVE  EntriesInv'
  <1>1. /\ accepted \in Seq(Values) /\ file_ \in Seq(Values)
        /\ Contents = Kept(accepted)
        /\ accepted' = Append(accepted, e) /\ UNCHANGED write_to_file_
    BY DEF EntriesInv, log
  <1>2. Contents' = Kept(accepted')
    <2>1. IndexInv /\ IndexInv' /\ TailUsable /\ push_back(e) /\ e \in Cells
      BY DEF LoggerInv, DisciplineInv, log, PushBack, Cells
    <2>2. Contents' = Append(IF Len(Contents) = Capacity THEN Tail(Contents)
                             ELSE Contents, e)
      BY <2>1, EnqueueStep DEF Window_!Enqueue
    <2> QED
      BY <1>1, <2>2, KeptAppend
  <1>3. PICK written \in {write_to_file_, FALSE} :
          /\ file_' = IF written THEN Append(file_, e) ELSE file_
          /\ missed' = (missed \/ ~written)
    BY DEF log
  <1>4. accepted' \in Seq(Values) /\ file_' \in Seq(Values)
    BY <1>1, <1>3, AppendProperties
  <1>5. ASSUME write_to_file_', ~missed'
        PROVE  /\ Len(accepted') <= Len(file_')
               /\ accepted' = Last(file_', Len(accepted'))
    <2>1. file_' = Append(file_, e) /\ write_to_file_ /\ ~missed
      BY <1>1, <1>3, <1>5
    <2>2. /\ Len(accepted) \in 0 .. Len(file_)
          /\ accepted = Last(file_, Len(accepted))
      BY <1>1, <2>1, LenProperties DEF EntriesInv
    <2>3. /\ Len(accepted') = Len(accepted) + 1 /\ Len(file_') = Len(file_) + 1
          /\ Len(accepted) \in Nat /\ Len(file_) \in Nat
      BY <1>1, <2>1, AppendProperties, LenProperties
    <2>4. Last(Append(file_, e), Len(accepted) + 1)
            = Append(Last(file_, Len(accepted)), e)
      BY <1>1, <2>2, LastAppend
    <2>5. Last(file_', Len(accepted')) = accepted'
      BY <1>1, <2>1, <2>2, <2>3, <2>4
    <2> QED
      BY <2>2, <2>3, <2>5
  <1> QED
    BY <1>2, <1>4, <1>5 DEF EntriesInv

LEMMA EntriesInvClear ==
  ASSUME EntriesInv, clear_
  PROVE  EntriesInv'
  <1>1. /\ accepted' = <<>> /\ file_' = file_ /\ file_ \in Seq(Values)
        /\ <<>> \in Seq(Values) /\ Len(<<>>) = 0
    BY DEF EntriesInv, clear_
  <1>2. Contents' = <<>>
    BY ClearStep DEF clear_, Window_!Clear
  <1>3. Kept(<<>>) = <<>>
    BY <1>1, KeptProperties
  <1>4. Last(file_, 0) = <<>> /\ 0 <= Len(file_)
    <2>1. 0 \in 0 .. Len(file_)
      BY <1>1, LenProperties
    <2>2. Last(file_, 0) \in Seq(Values) /\ Len(Last(file_, 0)) = 0
      BY <1>1, <2>1, LastProperties
    <2> QED
      BY <2>1, <2>2, EmptySeq
  <1> QED
    BY <1>1, <1>2, <1>3, <1>4 DEF EntriesInv

LEMMA EntriesInvUnchanged ==
  ASSUME EntriesInv, UNCHANGED <<rbVars, write_to_file_, file_, accepted, missed>>
  PROVE  EntriesInv'
  <1>1. Contents' = Contents
    BY ContentsIsElements, ContentsIsElementsNext DEF rbVars
  <1> QED
    BY <1>1 DEF EntriesInv

LEMMA EntriesInvStep ==
  LoggerInv /\ LoggerInv' /\ EntriesInv /\ [LoggerNext]_loggerVars => EntriesInv'
  <1> SUFFICES ASSUME LoggerInv, LoggerInv', EntriesInv, [LoggerNext]_loggerVars
               PROVE  EntriesInv'
    OBVIOUS
  <1>1. ASSUME NEW e \in Values, log(e)
        PROVE  EntriesInv'
    BY <1>1, EntriesInvLog
  <1>2. CASE clear_
    BY <1>2, EntriesInvClear
  <1>3. CASE UNCHANGED <<rbVars, write_to_file_, file_, accepted, missed>>
    BY <1>3, EntriesInvUnchanged
  <1>4. CASE \E enabled \in BOOLEAN : set_enabled(enabled)
    BY <1>4, <1>3 DEF set_enabled, vars, rbVars
  <1>5. CASE UNCHANGED loggerVars
    BY <1>5, <1>3 DEF loggerVars, vars, rbVars
  <1>6. CASE /\ Front \/ Back \/ Available \/ Empty \/ Traverse
             /\ UNCHANGED <<enabled_, write_to_file_, file_, accepted, missed>>
    BY <1>6, <1>3, ReaderStepDisciplined
  <1> QED
    BY <1>1, <1>2, <1>4, <1>5, <1>6, ReadersRead DEF LoggerNext

(* The inductive invariant about the entries holds in every state.         *)
THEOREM LoggerEntries == LoggerSpec => []EntriesInv
  BY EntriesInvInit, EntriesInvStep, LoggerInvariant, PTL DEF LoggerSpec

(* For every capacity the logger holds exactly the newest entries, in the  *)
(* order in which they were logged, and none of before the last clear().   *)
THEOREM LoggerKeepsNewest == LoggerSpec => []KeepsNewest
  <1>1. EntriesInv => KeepsNewest
    BY DEF EntriesInv, KeepsNewest, Newest, Kept
  <1> QED
    BY <1>1, LoggerEntries, PTL

(* For every capacity the file ends with the entries in the buffer, as     *)
(* long as it could be opened for each of them.                            *)
THEOREM LoggerFileEndsWithBuffer == LoggerSpec => []FileEndsWithBuffer
  <1>1. LoggerInv /\ EntriesInv => FileEndsWithBuffer
    <2> SUFFICES ASSUME LoggerInv, EntriesInv, write_to_file_, ~missed
                 PROVE  Contents = Last(file_, count_)
      BY DEF FileEndsWithBuffer
    <2>1. /\ file_ \in Seq(Values) /\ accepted \in Seq(Values)
          /\ Contents = Kept(accepted)
          /\ Len(accepted) <= Len(file_) /\ accepted = Last(file_, Len(accepted))
      BY DEF EntriesInv
    <2>2. count_ = Len(Kept(accepted))
      BY <2>1, ContentsTyped DEF LoggerInv, DisciplineInv
    <2>3. /\ count_ \in 0 .. Len(accepted) /\ Kept(accepted) = Last(accepted, count_)
          /\ Len(accepted) \in 0 .. Len(file_)
      BY <2>1, <2>2, KeptProperties, LenProperties
    <2>4. Last(Last(file_, Len(accepted)), count_) = Last(file_, count_)
      BY <2>1, <2>3, LastOfLast
    <2> QED
      BY <2>1, <2>3, <2>4
  <1> QED
    BY <1>1, LoggerEntries, LoggerInvariant, PTL

-----------------------------------------------------------------------------
(* What the reading members show.                                          *)

LEMMA ReadFacts ==
  ASSUME LoggerInv, EntriesInv
  PROVE  /\ Contents = Newest
         /\ size = Len(Newest)
         /\ full_ = (Len(Newest) = Capacity)
         /\ empty = (accepted = <<>>)
         /\ available = Capacity - Len(Newest)
         /\ ~empty => front = Newest[1] /\ back = accepted[Len(accepted)]
  <1>1. /\ DisciplineInv /\ IndexInv /\ TailUsable /\ accepted \in Seq(Values)
        /\ Contents = Kept(accepted) /\ Contents = Newest
    BY DEF LoggerInv, DisciplineInv, EntriesInv, Newest, Kept
  <1>2. /\ count_ = Len(Newest) /\ count_ \in 0 .. Capacity /\ count_ \in Nat
        /\ full_ \in BOOLEAN /\ (full_ <=> count_ = Capacity)
        /\ \A i \in 1 .. count_ : Newest[i] = buffer_[SlotOf(head_, i - 1)]
        /\ (Newest = <<>> <=> empty)
    BY <1>1, MembersTyped, ContentsTyped
  <1>3. full_ = (Len(Newest) = Capacity)
    BY <1>2
  <1>4. /\ (accepted = <<>> <=> Newest = <<>>)
        /\ accepted # <<>> => Newest[count_] = accepted[Len(accepted)]
    <2>1. Newest = Kept(accepted) /\ count_ = Len(Kept(accepted))
      BY <1>1, <1>2
    <2>2. /\ accepted # <<>> => /\ Kept(accepted) # <<>>
                               /\ Kept(accepted)[Len(Kept(accepted))]
                                    = accepted[Len(accepted)]
          /\ accepted = <<>> => Kept(accepted) = <<>>
      BY <1>1, KeptProperties
    <2> QED
      BY <2>1, <2>2
  <1>5. empty = (accepted = <<>>)
    BY <1>2, <1>4 DEF empty
  <1>6. available = Capacity - Len(Newest)
    BY <1>2, CapacityAssumption DEF available
  <1>7. ASSUME ~empty
        PROVE  front = Newest[1] /\ back = accepted[Len(accepted)]
    <2>1. count_ \in 1 .. Capacity /\ count_ \in 1 .. count_ /\ 1 \in 1 .. count_
      BY <1>2, <1>7, CapacityAssumption DEF empty
    <2>2. front = Newest[1]
      <3>1. head_ \in Slots /\ 1 - 1 = 0 /\ 0 \in 0 .. Capacity
        BY <1>1, MembersTyped, CapacityAssumption
      <3>2. SlotOf(head_, 0) = head_
        <4>1. SlotOf(head_, 0) = IF head_ + 0 < Capacity THEN head_ + 0
                                 ELSE head_ + 0 - Capacity
          BY <3>1, SlotOfValue
        <4> QED
          BY <3>1, <4>1, CapacityAssumption DEF Slots
      <3> QED
        BY <1>2, <2>1, <3>1, <3>2 DEF front
    <2>3. back = Newest[count_]
      BY <1>1, <1>2, <1>7, <2>1, BackSlotNewest DEF back
    <2> QED
      BY <1>4, <1>5, <1>7, <2>2, <2>3
  <1> QED
    BY <1>1, <1>2, <1>3, <1>5, <1>6, <1>7 DEF size

LEMMA ShowsNewestStep ==
  LoggerInv /\ EntriesInv /\ ShowsNewest /\ [LoggerNext]_loggerVars => ShowsNewest'
  <1> SUFFICES ASSUME LoggerInv, EntriesInv, ShowsNewest, [LoggerNext]_loggerVars
               PROVE  ShowsNewest'
    OBVIOUS
  <1>1. CASE shown' = Nothing
    BY <1>1 DEF ShowsNewest, Nothing
  <1>2. CASE UNCHANGED <<shown, accepted>>
    BY <1>2 DEF ShowsNewest, Newest, Last
  <1>3. ASSUME UNCHANGED accepted
        PROVE  Newest' = Newest
    BY <1>3 DEF Newest, Last
  <1>4. CASE print_status
    BY <1>4, <1>3, ReadFacts DEF print_status, Shows, ShowsNewest
  <1>5. CASE dump_logs
    BY <1>5, <1>3, ReadFacts DEF dump_logs, Shows, ShowsNewest
  <1>6. ASSUME NEW e \in Values, dump_logs_by_level(Level[e])
        PROVE  ShowsNewest'
    BY <1>6, <1>3, ReadFacts DEF dump_logs_by_level, Shows, ShowsNewest
  <1>7. /\ empty <=> accepted = <<>>
        /\ ~empty => front = Newest[1] /\ back = accepted[Len(accepted)]
    BY ReadFacts DEF empty
  <1>8. CASE get_oldest_entry
    <2>1. accepted' = accepted /\ Newest' = Newest
      BY <1>8, <1>3 DEF get_oldest_entry, Shows
    <2>2. CASE empty
      <3>1. shown' = [what |-> <<"oldest">>, of |-> <<>>]
        BY <1>8, <2>2 DEF get_oldest_entry, Shows
      <3>2. accepted = <<>>
        BY <2>2, <1>7
      <3> QED
        BY <2>1, <3>1, <3>2 DEF ShowsNewest
    <2>3. CASE ~empty
      <3>1. shown' = [what |-> <<"oldest">>, of |-> <<front>>]
        BY <1>8, <2>3 DEF get_oldest_entry, Shows
      <3>2. accepted # <<>> /\ front = Newest[1]
        BY <2>3, <1>7
      <3> QED
        BY <2>1, <3>1, <3>2 DEF ShowsNewest
    <2> QED
      BY <2>2, <2>3
  <1>9. CASE get_newest_entry
    <2>1. accepted' = accepted /\ Newest' = Newest
      BY <1>9, <1>3 DEF get_newest_entry, Shows
    <2>2. CASE empty
      <3>1. shown' = [what |-> <<"newest">>, of |-> <<>>]
        BY <1>9, <2>2 DEF get_newest_entry, Shows
      <3>2. accepted = <<>>
        BY <2>2, <1>7
      <3> QED
        BY <2>1, <3>1, <3>2 DEF ShowsNewest
    <2>3. CASE ~empty
      <3>1. shown' = [what |-> <<"newest">>, of |-> <<back>>]
        BY <1>9, <2>3 DEF get_newest_entry, Shows
      <3>2. accepted # <<>> /\ back = accepted[Len(accepted)]
        BY <2>3, <1>7
      <3> QED
        BY <2>1, <3>1, <3>2 DEF ShowsNewest
    <2> QED
      BY <2>2, <2>3
  <1> QED
    BY <1>1, <1>2, <1>4, <1>5, <1>6, <1>8, <1>9
       DEF LoggerNext, log, clear_, set_enabled, loggerVars

(* For every capacity and every assignment of levels, the status, both     *)
(* dumps, the oldest and the newest entry are those that follow from the   *)
(* entries logged, in every state of the buffer.                           *)
THEOREM LoggerShowsNewest == LoggerSpec => []ShowsNewest
  <1>1. CircularLogger => ShowsNewest
    BY DEF CircularLogger, ShowsNewest, Nothing
  <1> QED
    BY <1>1, ShowsNewestStep, LoggerInvariant, LoggerEntries, PTL DEF LoggerSpec
=============================================================================
