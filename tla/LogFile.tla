------------------------------ MODULE LogFile -------------------------------
(***************************************************************************)
(* class LogFile (log_file.cpp) over FileAppender (file_appender.cpp): the *)
(* file behind AsyncLogging, which is rolled when it has grown too large   *)
(* or a day has begun, and flushed now and then.  One thread calls it.     *)
(* Record n is the n-th one that is appended; what has left the buffer of  *)
(* stdio is on disk and survives the end of the process, which may come at *)
(* any time.  The clock is the wall clock and can be set back.             *)
(***************************************************************************)
EXTENDS Naturals, Sequences, SequencesExt, FiniteSets, FiniteSetsExt

CONSTANTS RollSize,       \* roll_size_
          FlushInterval,  \* flush_interval_
          CheckPerCount,  \* check_per_count_
          Day,            \* kRollPerSeconds
          MaxLen,         \* bound: length of a record
          MaxRecords,     \* bound: records appended
          MaxTime,        \* bound: the last second
          MaxBack         \* bound: times the clock is set back

ASSUME LogFileAssumption ==
  /\ {RollSize, FlushInterval, CheckPerCount, Day, MaxLen, MaxTime} \subseteq Nat \ {0}
  /\ {MaxRecords, MaxBack} \subseteq Nat

VARIABLES
  now,          \* time(nullptr)
  backs,        \* how often the clock was set back
  pc,           \* where the caller is
  lastDay,      \* last_day_
  lastRoll,     \* last_roll_second_
  lastFlush,    \* last_flush_second_
  count,        \* count_
  opened,       \* file_ is set
  written,      \* written_bytes_ of file_
  buf,          \* the records in the stdio buffer of file_
  old,          \* those of the FileAppender that a roll is about to close
  files,        \* the files: the second in the name, the records on disk and
                \* (history) those that the close of the file failed to write
  len,          \* history: the length of each record
  at,           \* history: when each record was appended
  checked       \* history: how many records there were at the last look at the
                \* clock in appendWOLock, and when that was

clockVars == <<now, backs>>
rollVars  == <<lastDay, lastRoll, lastFlush>>
fileVars  == <<opened, written, buf, old, files>>
histVars  == <<len, at, checked>>
vars == <<clockVars, pc, rollVars, count, fileVars, histVars>>

Records == 1..Len(at)

(* Type correctness; count_ stays below the number that triggers a check,  *)
(* and written_bytes_ exceeds roll_size_ only inside append().             *)
TypeOK ==
  /\ now \in 0..MaxTime /\ backs \in 0..MaxBack
  /\ pc \in {"ctor", "ready", "check", "close", "closed", "dead"}
  /\ {lastDay, lastRoll, lastFlush} \subseteq 0..MaxTime
  /\ count \in 0..CheckPerCount - 1
  /\ opened \in BOOLEAN
  /\ written \in 0..RollSize + MaxLen
  /\ pc \in {"ready", "close"} => written <= RollSize
  /\ buf \in Seq(Records) /\ old \in Seq(Records)
  /\ files \in Seq([sec: 0..MaxTime, recs: Seq(Records), cut: Seq(Records)])
  /\ len \in Seq(1..MaxLen) /\ at \in Seq(0..MaxTime) /\ Len(len) = Len(at)
  /\ checked.upto \in 0..Len(at) /\ checked.time \in 0..MaxTime

(* The three times have no initializer: whatever is on the stack.          *)
Init ==
  /\ now = 1 /\ backs = 0
  /\ pc = "ctor"
  /\ lastRoll \in 0..MaxTime /\ lastDay = 0 /\ lastFlush = 0
  /\ count = 0
  /\ opened = FALSE /\ written = 0 /\ buf = <<>> /\ old = <<>> /\ files = <<>>
  /\ len = <<>> /\ at = <<>> /\ checked = [upto |-> 0, time |-> 0]

-----------------------------------------------------------------------------
(***************************************************************************)
(* FileAppender                                                            *)
(***************************************************************************)

(* the records r leave the buffer and reach the file that is open          *)
ToDisk(r) == [files EXCEPT ![Len(files)].recs = @ \o r]

(* fflush                                                                  *)
flushFile ==
  /\ files' = ToDisk(buf)
  /\ buf' = <<>>
  /\ UNCHANGED <<opened, written, old>>

(* An open that throws the buffer of the old file away.                    *)
openFileDiscard(sec) ==
  /\ files' = Append(files, [sec |-> sec, recs |-> <<>>, cut |-> <<>>])
  /\ opened' = TRUE /\ written' = 0 /\ buf' = <<>> /\ old' = <<>>
  /\ pc' = IF opened THEN "close" ELSE "ready"

(* the constructor of the new FileAppender; the old one is still there     *)
openFile(sec) ==
  /\ files' = Append(files, [sec |-> sec, recs |-> <<>>, cut |-> <<>>])
  /\ opened' = TRUE /\ written' = 0 /\ buf' = <<>> /\ old' = buf
  /\ pc' = IF opened THEN "close" ELSE "ready"

(* ~FileAppender of file n with b in its buffer: fflush and fclose, which  *)
(* may fail after any number of records; nobody looks at their results     *)
shutFile(n, b) ==
  \E i \in 0..Len(b) :
     files' = [files EXCEPT ![n].recs = @ \o SubSeq(b, 1, i),
                            ![n].cut  = SubSeq(b, i + 1, Len(b))]

(* fwrite_unlocked: any number of complete records may go to disk          *)
writeFile(n, l) ==
  /\ \E i \in 0..Len(buf) + 1 :
        /\ files' = ToDisk(SubSeq(Append(buf, n), 1, i))
        /\ buf' = SubSeq(Append(buf, n), i + 1, Len(buf) + 1)
  /\ written' = written + l
  /\ UNCHANGED <<opened, old>>

(* the process ends, and the buffers of stdio with it (what a write was    *)
(* putting on disk just then could have gone there with the append before) *)
dies ==
  /\ pc' = "dead"
  /\ buf' = <<>> /\ old' = <<>>
  /\ UNCHANGED <<clockVars, rollVars, count, opened, written, files, histVars>>

(* a roll finds no directory or cannot open the new file: an exception,    *)
(* and nobody catches it                                                   *)
openFails ==
  /\ \/ pc = "ctor"
     \/ pc = "check" /\ written > RollSize
     \/ pc = "check" /\ count + 1 >= CheckPerCount /\ now \div Day # lastDay
  /\ now > lastRoll
  /\ dies

(* the same for the fwrite of append() and the fflush of flush(), also the *)
(* flush that a look at the clock asks for                                 *)
writeFails ==
  /\ \/ pc = "ready" /\ opened
     \/ /\ pc = "check" /\ written <= RollSize /\ count + 1 >= CheckPerCount
        /\ now \div Day = lastDay /\ now >= lastFlush + FlushInterval
  /\ dies

(* a signal                                                                *)
killed ==
  /\ pc \notin {"closed", "dead"}
  /\ dies

-----------------------------------------------------------------------------
(***************************************************************************)
(* LogFile                                                                 *)
(***************************************************************************)

(* A roll whenever the second is another one.                              *)
rollFileOther(bytes) ==
  IF now # lastRoll
  THEN /\ lastRoll' = now /\ lastFlush' = now /\ lastDay' = now \div Day
       /\ openFile(now)
  ELSE /\ written' = bytes /\ pc' = "ready"
       /\ UNCHANGED <<rollVars, opened, buf, old, files>>

(* A roll that leaves two seconds between files.                           *)
rollFileLater(bytes) ==
  IF now > lastRoll + 1
  THEN /\ lastRoll' = now /\ lastFlush' = now /\ lastDay' = now \div Day
       /\ openFile(now)
  ELSE /\ written' = bytes /\ pc' = "ready"
       /\ UNCHANGED <<rollVars, opened, buf, old, files>>

(* rollFile(): at most one new file in a second, as the name has no more;  *)
(* bytes is the caller's count for a file that stays                       *)
rollFile(bytes) ==
  IF now > lastRoll
  THEN /\ lastRoll' = now /\ lastFlush' = now /\ lastDay' = now \div Day
       /\ openFile(now)
  ELSE /\ written' = bytes /\ pc' = "ready"
       /\ UNCHANGED <<rollVars, opened, buf, old, files>>

(* the end of a roll: file_ lets go of the old FileAppender                *)
closeFile ==
  /\ pc = "close"
  /\ shutFile(Len(files) - 1, old)
  /\ old' = <<>>
  /\ pc' = "ready"
  /\ UNCHANGED <<clockVars, rollVars, count, opened, written, buf, histVars>>

(* the constructor                                                         *)
construct ==
  /\ pc = "ctor"
  /\ rollFile(0)
  /\ UNCHANGED <<clockVars, count, histVars>>

(* append() or flush() without a file                                      *)
nullFile ==
  /\ pc = "ready"
  /\ ~opened
  /\ pc' = "dead"
  /\ UNCHANGED <<clockVars, rollVars, count, fileVars, histVars>>

(* the head of appendWOLock: the record is written                         *)
append(l) ==
  /\ pc = "ready"
  /\ opened
  /\ Len(at) < MaxRecords
  /\ writeFile(Len(at) + 1, l)
  /\ len' = Append(len, l) /\ at' = Append(at, now)
  /\ pc' = "check"
  /\ UNCHANGED <<clockVars, rollVars, count, checked>>

(* too large: roll, and count the bytes from zero in either case           *)
rollSize ==
  /\ pc = "check"
  /\ written > RollSize
  /\ rollFile(0)
  /\ UNCHANGED <<clockVars, count, histVars>>

countOn ==
  /\ pc = "check"
  /\ written <= RollSize
  /\ count + 1 < CheckPerCount
  /\ count' = count + 1
  /\ pc' = "ready"
  /\ UNCHANGED <<clockVars, rollVars, fileVars, histVars>>

(* Another day: roll.  Otherwise flush, a second too late.                 *)
dayOrFlushLate ==
  IF now \div Day # lastDay THEN rollFile(written)
  ELSE /\ pc' = "ready"
       /\ IF now > lastFlush + FlushInterval
          THEN lastFlush' = now /\ flushFile /\ UNCHANGED <<lastDay, lastRoll>>
          ELSE UNCHANGED <<rollVars, fileVars>>

(* A look at the clock that does not know about days.                      *)
dayOrFlushNoDay ==
  /\ pc' = "ready"
  /\ IF now >= lastFlush + FlushInterval
     THEN lastFlush' = now /\ flushFile /\ UNCHANGED <<lastDay, lastRoll>>
     ELSE UNCHANGED <<rollVars, fileVars>>

(* another day: roll; otherwise flush when the last flush is long ago      *)
dayOrFlush ==
  IF now \div Day # lastDay THEN rollFile(written)
  ELSE /\ pc' = "ready"
       /\ IF now >= lastFlush + FlushInterval
          THEN lastFlush' = now /\ flushFile /\ UNCHANGED <<lastDay, lastRoll>>
          ELSE UNCHANGED <<rollVars, fileVars>>

(* A look at the clock that leaves count_ as it is.                        *)
lookAtClockNoReset ==
  /\ pc = "check"
  /\ written <= RollSize
  /\ count + 1 >= CheckPerCount
  /\ count' = count + 1
  /\ checked' = [upto |-> Len(at), time |-> now]
  /\ dayOrFlush
  /\ UNCHANGED <<clockVars, len, at>>

(* every check_per_count_ records, a look at the clock                     *)
lookAtClock ==
  /\ pc = "check"
  /\ written <= RollSize
  /\ count + 1 >= CheckPerCount
  /\ count' = 0
  /\ checked' = [upto |-> Len(at), time |-> now]
  /\ dayOrFlush
  /\ UNCHANGED <<clockVars, len, at>>

(* flush(), which AsyncLogging calls after each batch                      *)
flush ==
  /\ pc = "ready"
  /\ opened
  /\ flushFile
  /\ UNCHANGED <<clockVars, pc, rollVars, count, histVars>>

(* the destructor                                                          *)
destroy ==
  /\ pc = "ready"
  /\ IF opened THEN shutFile(Len(files), buf) ELSE UNCHANGED files
  /\ buf' = <<>>
  /\ pc' = "closed"
  /\ UNCHANGED <<clockVars, rollVars, count, opened, written, old, histVars>>

tick ==
  /\ pc \notin {"closed", "dead"}
  /\ now < MaxTime
  /\ now' = now + 1
  /\ UNCHANGED <<backs, pc, rollVars, count, fileVars, histVars>>

setBack ==
  /\ pc \notin {"closed", "dead"}
  /\ backs < MaxBack
  /\ now' \in 0..now - 1
  /\ backs' = backs + 1
  /\ UNCHANGED <<pc, rollVars, count, fileVars, histVars>>

Next ==
  \/ construct \/ nullFile \/ (\E l \in 1..MaxLen : append(l))
  \/ rollSize \/ countOn \/ lookAtClock \/ closeFile
  \/ flush \/ destroy \/ openFails \/ writeFails \/ killed
  \/ tick \/ setBack

Spec == Init /\ [][Next]_vars

-----------------------------------------------------------------------------
(***************************************************************************)
(* Properties                                                              *)
(***************************************************************************)

(* the records of the files, those that a close failed to write included   *)
GoneThrough == FlattenSeq([i \in DOMAIN files |-> files[i].recs \o files[i].cut])

(* Whenever and however the process ends, the files read one after the     *)
(* other hold the records up to some point, in order and each of them      *)
(* once, except those at the end of a file that its close failed to write: *)
(* a gap is nowhere else.  While the process runs, or after an orderly     *)
(* end, nothing else that was appended is missing from files and buffers.  *)
NoGap ==
  /\ \A i \in DOMAIN GoneThrough : GoneThrough[i] = i
  /\ pc # "dead" => Len(GoneThrough) + Len(old) + Len(buf) = Len(at)

(* The seconds of the rolls go up, even when the clock is set back: no     *)
(* roll reopens a file that was left (unless local time repeats an hour).  *)
RollsIncrease ==
  \A i, j \in DOMAIN files : i < j => files[i].sec < files[j].sec

(* the records of file i, those in its buffer included                     *)
RecordsOf(i) == ToSet(files[i].recs) \cup
                CASE i = Len(files)     -> ToSet(buf)
                  [] i = Len(files) - 1 -> ToSet(old)
                  [] OTHER              -> {}

(* What goes into a file after the second in its name is at most roll_size *)
(* and one record more.  During that second there is no limit.             *)
SizeBound ==
  backs = 0 => \A i \in DOMAIN files :
     MapThenSumSet(LAMBDA r : len[r],
                   {r \in RecordsOf(i) : at[r] > files[i].sec})
       <= RollSize + MaxLen

(* A file holds at most check_per_count records of a day other than its    *)
(* own.                                                                    *)
DaySplit ==
  backs = 0 => \A i \in DOMAIN files :
     Cardinality({r \in RecordsOf(i) : at[r] \div Day # files[i].sec \div Day})
       <= CheckPerCount

(* What a crash can lose: at a look at the clock, no record that stays in  *)
(* the buffer of the open file is flush_interval old.                      *)
LossBound ==
  backs = 0 => \A i \in DOMAIN buf :
     buf[i] <= checked.upto => checked.time < at[buf[i]] + FlushInterval
=============================================================================
