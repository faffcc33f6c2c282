--------------------------- MODULE CircularLogger ---------------------------
(***************************************************************************)
(* CircularLogger (examples/logging_example.cc): a ring buffer of log      *)
(* entries that is pushed to, cleared and read, never popped, and a file   *)
(* to which the entries are appended as well.  The program around it, its  *)
(* SystemComponents included, calls it from one thread.  An entry is a     *)
(* value with a level; its text and the console are left out.              *)
(***************************************************************************)
EXTENDS RingBufferClient

CONSTANTS
  Level,       \* Level[e]: the level of entry e
  MaxEntries,  \* bound: entries logged between two calls of clear()
  MaxFile      \* bound: entries in the file

ASSUME LoggerAssumption == MaxEntries \in Nat /\ MaxFile \in Nat

VARIABLES
  enabled_,
  write_to_file_,  \* this flag, and log_file_ is not empty
  file_,           \* the entries in the file
  shown,           \* what the last call has printed or returned
  accepted,        \* history: the entries logged since construction or clear()
  missed           \* history: one of them did not get into the file

loggerVars == <<vars, enabled_, write_to_file_, file_, shown, accepted, missed>>

Nothing == [what |-> <<"nothing">>, of |-> <<>>]

CircularLogger ==
  /\ Init
  /\ enabled_ = TRUE
  /\ write_to_file_ \in BOOLEAN
  /\ file_ = <<>>
  /\ shown = Nothing
  /\ accepted = <<>>
  /\ missed = FALSE

-----------------------------------------------------------------------------
(* The members that change the logger.                                     *)

(* Mutant: a disabled logger only keeps the entry out of the buffer.       *)
log_file_first(e) ==
  /\ Len(accepted) < MaxEntries /\ Len(file_) < MaxFile
  /\ IF enabled_ THEN PushBack(e) /\ accepted' = Append(accepted, e)
                 ELSE UNCHANGED <<vars, accepted>>
  /\ file_' = IF write_to_file_ THEN Append(file_, e) ELSE file_
  /\ missed' = (missed \/ ~write_to_file_)
  /\ shown' = Nothing
  /\ UNCHANGED <<enabled_, write_to_file_>>

(* debug, info, warning, error and critical call log; so does a component  *)
(* with an entry of its choice.  A disabled logger returns at once.  The   *)
(* file may not open.                                                      *)
log(e) ==
  /\ Len(accepted) < MaxEntries /\ Len(file_) < MaxFile
  /\ enabled_
  /\ PushBack(e)
  /\ accepted' = Append(accepted, e)
  /\ \E written \in {write_to_file_, FALSE} :
       /\ file_' = IF written THEN Append(file_, e) ELSE file_
       /\ missed' = (missed \/ ~written)
  /\ shown' = Nothing
  /\ UNCHANGED <<enabled_, write_to_file_>>

clear_ ==
  /\ Clear
  /\ accepted' = <<>>
  /\ missed' = FALSE
  /\ shown' = Nothing
  /\ UNCHANGED <<enabled_, write_to_file_, file_>>

set_enabled(enabled) ==
  /\ enabled_' = enabled
  /\ shown' = Nothing
  /\ UNCHANGED <<vars, write_to_file_, file_, accepted, missed>>

-----------------------------------------------------------------------------
(* The members that read it.  What a call leaves in `out' is the result of *)
(* its last call of the ring buffer.                                       *)

Shows(what, of) ==
  /\ shown' = [what |-> what, of |-> of]
  /\ UNCHANGED <<enabled_, write_to_file_, file_, accepted, missed>>

print_status == Available /\ Shows(<<"status">>, <<size, full_, empty, available>>)

(* The range-based for of both dumps ends at the last element.             *)
Traverse == IF empty THEN Empty ELSE At(count_ - 1)

dump_logs == Traverse /\ Shows(<<"dump">>, Contents)

OfLevel(entries, level) == SelectSeq(entries, LAMBDA e : Level[e] = level)

dump_logs_by_level(level) ==
  Traverse /\ Shows(<<"dump", level>>, OfLevel(Contents, level))

get_oldest_entry ==
  IF empty THEN Empty /\ Shows(<<"oldest">>, <<>>)
  ELSE Front /\ Shows(<<"oldest">>, <<front>>)

get_newest_entry ==
  IF empty THEN Empty /\ Shows(<<"newest">>, <<>>)
  ELSE Back /\ Shows(<<"newest">>, <<back>>)

LoggerNext ==
  \/ \E e \in Values : log(e)
  \/ clear_
  \/ \E enabled \in BOOLEAN : set_enabled(enabled)
  \/ print_status
  \/ dump_logs
  \/ \E e \in Values : dump_logs_by_level(Level[e])
  \/ get_oldest_entry
  \/ get_newest_entry

LoggerSpec == CircularLogger /\ [][LoggerNext]_loggerVars

-----------------------------------------------------------------------------
(* Properties.                                                             *)

(* The last n of a sequence.                                               *)
Last(s, n) == SubSeq(s, Len(s) - n + 1, Len(s))

Newest == Last(accepted, IF Len(accepted) < Capacity THEN Len(accepted) ELSE Capacity)

(* The logger "automatically overwrites old log entries when the buffer is *)
(* full": it holds the newest entries, in the order they were logged, and  *)
(* none of before the last clear().                                        *)
KeepsNewest == Contents = Newest

(* Every reading member shows what follows from the entries logged: the    *)
(* newest entry is the one logged last even while the buffer overwrites,   *)
(* and a dump by level misses none of those held.                          *)
ShowsNewest ==
  /\ shown.what = <<"status">> =>
       shown.of = <<Len(Newest), Len(Newest) = Capacity, accepted = <<>>,
                    Capacity - Len(Newest)>>
  /\ shown.what = <<"dump">> => shown.of = Newest
  /\ \A e \in Values :
       shown.what = <<"dump", Level[e]>> => shown.of = OfLevel(Newest, Level[e])
  /\ shown.what \in {<<"oldest">>, <<"newest">>} /\ accepted = <<>> => shown.of = <<>>
  /\ shown.what = <<"oldest">> /\ accepted # <<>> => shown.of = <<Newest[1]>>
  /\ shown.what = <<"newest">> /\ accepted # <<>> =>
       shown.of = <<accepted[Len(accepted)]>>

(* The file ends with the entries in the buffer, through disabled periods, *)
(* overwriting and clear(), as long as it could be opened for each.        *)
FileEndsWithBuffer ==
  write_to_file_ /\ ~missed => Contents = Last(file_, count_)
=============================================================================
