--------------------------- MODULE LogFileProof ----------------------------
(***************************************************************************)
(* The log, for any number of threads, days and lines: order, the right    *)
(* file and nothing lost.  None of the three is inductive by itself: they  *)
(* need the mutex, the dates the sink and its callers have read, and the   *)
(* numbers of the lines not yet written.                                   *)
(***************************************************************************)
EXTENDS LogFile, SequenceTheorems, TLAPS

Critical == {"date", "reopen", "append"}
Writing == Critical \cup {"lock"}

\* The mutex: one thread at a time is between the lock and the release.
MutexInv == \A t \in Thread : pc[t] \in Critical <=> holder = t

\* Dates only grow from the files to the sink to its caller to the clock.
DateInv ==
  /\ current_date <= day
  /\ \A d \in DOMAIN files : d <= day /\ (up => d <= current_date)
  /\ \A t \in Thread :
       /\ pc[t] \in Writing => called[t] <= day
       /\ pc[t] \in {"reopen", "append"} =>
            called[t] <= today[t] /\ today[t] <= day
       /\ pc[t] = "append" => today[t] = current_date
       /\ pc[t] = "reopen" => current_date <= today[t]

\* The number of a line being written is above those on disk.
NumberInv ==
  \A d \in DOMAIN files : \A i \in DOMAIN files[d] :
    LET t == files[d][i].by
    IN files[d][i].n <= sent[t] /\ (pc[t] \in Writing => files[d][i].n < sent[t])

\* A good stream has its file in the directory, and without trouble the stream
\* is good.
StreamInv ==
  /\ ~up => \A t \in Thread : pc[t] = "idle"
  /\ stream = "good" => current_date \in DOMAIN files
  /\ up /\ trouble = "none" => stream = "good"

LogInv ==
  /\ TypeOK
  /\ MutexInv /\ DateInv /\ NumberInv /\ StreamInv
  /\ LinesInOrder /\ FileOfTheDay /\ LinesKept

-----------------------------------------------------------------------------
\* What is on disk are lines.
LEMMA LinesTyped ==
  ASSUME TypeOK
  PROVE  \A d \in DOMAIN files : \A i \in DOMAIN files[d] :
           /\ files[d][i] \in Line
           /\ files[d][i].by \in Thread /\ files[d][i].n \in Nat
<1>1. ASSUME NEW d \in DOMAIN files, NEW i \in DOMAIN files[d]
      PROVE  files[d][i] \in Line
  <2>1. files[d] \in Seq(Line)
    BY DEF TypeOK
  <2> QED  BY <2>1, ElementOfSeq, LenProperties
<1> QED  BY <1>1 DEF Line

\* The disk after a line is appended to the open file: one place more, the
\* others as they were.
LEMMA AppendShape ==
  ASSUME TypeOK, current_date \in DOMAIN files, NEW line \in Line,
         files' = [files EXCEPT ![current_date] = Append(@, line)]
  PROVE  /\ DOMAIN files' = DOMAIN files
         /\ files' \in [DOMAIN files' -> Seq(Line)]
         /\ \A d \in DOMAIN files : d # current_date => files'[d] = files[d]
         /\ \A i \in DOMAIN files'[current_date] :
              \/ /\ i \in DOMAIN files[current_date]
                 /\ files'[current_date][i] = files[current_date][i]
              \/ /\ files'[current_date][i] = line
                 /\ \A j \in DOMAIN files'[current_date] : j <= i
         /\ \A i \in DOMAIN files[current_date] :
              /\ i \in DOMAIN files'[current_date]
              /\ files'[current_date][i] = files[current_date][i]
         /\ line \in Range(files'[current_date])
<1> DEFINE old == files[current_date]
           new == Append(old, line)
<1>1. /\ old \in Seq(Line) /\ files \in [DOMAIN files -> Seq(Line)]
  BY DEF TypeOK
<1>2. /\ new \in Seq(Line) /\ Len(new) = Len(old) + 1 /\ Len(old) \in Nat
      /\ \A i \in 1 .. Len(old) : new[i] = old[i]
      /\ new[Len(old) + 1] = line
  BY <1>1, AppendProperties, LenProperties
<1>3. DOMAIN old = 1 .. Len(old) /\ DOMAIN new = 1 .. (Len(old) + 1)
  BY <1>1, <1>2, LenProperties
<1>4. files'[current_date] = new /\ DOMAIN files' = DOMAIN files
  BY <1>1
<1>5. \A d \in DOMAIN files : d # current_date => files'[d] = files[d]
  BY <1>1
<1>6. files' \in [DOMAIN files' -> Seq(Line)]
  BY <1>1, <1>2
<1> HIDE DEF old, new
<1>7. \A i \in DOMAIN new :
        \/ i \in DOMAIN old /\ new[i] = old[i]
        \/ new[i] = line /\ \A j \in DOMAIN new : j <= i
  BY <1>2, <1>3
<1>8. \A i \in DOMAIN old : i \in DOMAIN new /\ new[i] = old[i]
  BY <1>2, <1>3
<1>9. line \in Range(new)
  <2>1. Len(old) + 1 \in DOMAIN new
    BY <1>2, <1>3
  <2> QED  BY <1>2, <2>1 DEF Range
<1> QED  BY <1>4, <1>5, <1>6, <1>7, <1>8, <1>9 DEF old

\* Opening a file, with success or without, adds no line and takes none away;
\* a stream without trouble has its file.
LEMMA OpenShape ==
  ASSUME TypeOK, NEW d \in Day, NEW exists, Open(d, exists)
  PROVE  /\ DOMAIN files' \in {DOMAIN files, DOMAIN files \cup {d}}
         /\ files' \in [DOMAIN files' -> Seq(Line)]
         /\ \A e \in DOMAIN files : files'[e] = files[e]
         /\ \A e \in DOMAIN files' : e \notin DOMAIN files => files'[e] = << >>
         /\ \/ stream' = "good" /\ trouble' = "none" /\ d \in DOMAIN files'
            \/ stream' = "closed" /\ trouble' = "open"
<1>1. << >> \in Seq(Line) /\ files \in [DOMAIN files -> Seq(Line)]
  BY EmptySeq DEF TypeOK
<1>2. CASE files' = WithFile(files, d) /\ stream' = "good" /\ trouble' = "none"
  BY <1>1, <1>2 DEF WithFile
<1>3. CASE files' = files /\ stream' = "closed" /\ trouble' = "open"
  BY <1>1, <1>3
<1> QED  BY <1>2, <1>3 DEF Open

\* What depends on the lines on disk, while the files lose and gain none and
\* no thread's count or place changes so that it matters.
LEMMA DiskKept ==
  ASSUME LogInv, NumberInv',
         \A d \in DOMAIN files' :
           \/ d \in DOMAIN files /\ files'[d] = files[d]
           \/ files'[d] = << >>
  PROVE  LinesInOrder' /\ FileOfTheDay'
<1>1. \A d \in DOMAIN files' : \A i \in DOMAIN files'[d] :
        d \in DOMAIN files /\ files'[d] = files[d] /\ i \in DOMAIN files[d]
  BY EmptySeq
<1>2. LinesInOrder'
  BY <1>1 DEF LogInv, LinesInOrder
<1>3. FileOfTheDay'
  BY <1>1 DEF LogInv, FileOfTheDay, LinesOf, Range
<1> QED  BY <1>2, <1>3

-----------------------------------------------------------------------------
\* Nothing has been written before the first start.
LEMMA LogInit == Init => LogInv
<1> SUFFICES ASSUME Init PROVE LogInv
  OBVIOUS
<1>1. DOMAIN files = {}
  BY DEF Init
<1>2. 1 \in Day
  BY LogAssumption DEF Day
<1>3. TypeOK
  <2>1. files \in [DOMAIN files -> Seq(Line)]
    BY <1>1 DEF Init
  <2> QED  BY <1>1, <1>2, <2>1 DEF Init, TypeOK
<1>4. MutexInv
  BY LogAssumption DEF Init, MutexInv, Critical
<1>5. DateInv /\ NumberInv /\ StreamInv
  BY <1>1 DEF Init, DateInv, NumberInv, StreamInv, Writing, Critical
<1>6. LinesInOrder /\ FileOfTheDay /\ LinesKept
  BY <1>1 DEF Init, LinesInOrder, FileOfTheDay, LinesKept
<1> QED  BY <1>3, <1>4, <1>5, <1>6 DEF LogInv

\* Start: today's file is opened, or not, in a directory that exists now.
LEMMA StartKeeps ==
  ASSUME LogInv, Start
  PROVE  LogInv'
<1>1. /\ TypeOK /\ day \in Day /\ ~up /\ up' = TRUE /\ dir' = TRUE
      /\ current_date' = day /\ Open(day, TRUE)
      /\ UNCHANGED <<day, holder, listing, owed, pc, today, called, sent>>
  BY DEF LogInv, TypeOK, Start, threadVars
<1>2. /\ DOMAIN files' \in {DOMAIN files, DOMAIN files \cup {day}}
      /\ files' \in [DOMAIN files' -> Seq(Line)]
      /\ \A e \in DOMAIN files : files'[e] = files[e]
      /\ \A e \in DOMAIN files' : e \notin DOMAIN files => files'[e] = << >>
      /\ \/ stream' = "good" /\ trouble' = "none" /\ day \in DOMAIN files'
         \/ stream' = "closed" /\ trouble' = "open"
  BY <1>1, OpenShape
<1>3. \A t \in Thread : pc[t] = "idle"
  BY <1>1 DEF LogInv, StreamInv
<1>4. TypeOK'
  BY <1>1, <1>2 DEF TypeOK
<1>5. MutexInv' /\ StreamInv'
  BY <1>1, <1>2 DEF LogInv, MutexInv, StreamInv
<1>6. DateInv'
  <2>1. day \in Nat /\ \A d \in DOMAIN files : d <= day
    BY <1>1 DEF LogInv, DateInv, Day
  <2> QED  BY <1>1, <1>2, <1>3, <2>1 DEF DateInv, Writing, Critical
<1>7. NumberInv'
  <2>1. \A d \in DOMAIN files' : \A i \in DOMAIN files'[d] :
          d \in DOMAIN files /\ files'[d] = files[d]
    BY <1>2, EmptySeq
  <2> QED  BY <1>1, <2>1 DEF LogInv, NumberInv
<1>8. LinesInOrder' /\ FileOfTheDay'
  BY <1>2, <1>7, DiskKept
<1>9. LinesKept'
  <2>1. OnDisk \subseteq OnDisk'
    BY <1>2 DEF OnDisk, LinesOf
  <2> QED  BY <1>1, <2>1 DEF LogInv, LinesKept
<1> QED  BY <1>4, <1>5, <1>6, <1>7, <1>8, <1>9 DEF LogInv

\* Stop: the disk stays as it is.
LEMMA StopKeeps ==
  ASSUME LogInv, Stop
  PROVE  LogInv'
<1>1. /\ up' = FALSE /\ stream' = "closed" /\ holder' = "none"
      /\ pc' = [t \in Thread |-> "idle"] /\ listing' = {}
      /\ UNCHANGED <<day, dir, files, current_date, today, called, sent,
                     trouble, owed>>
  BY DEF Stop
<1>2. TypeOK'
  BY <1>1 DEF LogInv, TypeOK
<1>3. MutexInv' /\ StreamInv'
  BY <1>1, LogAssumption DEF MutexInv, StreamInv, Critical
<1>4. DateInv'
  BY <1>1 DEF LogInv, DateInv, Writing, Critical
<1>5. NumberInv'
  BY <1>1, LinesTyped DEF LogInv, NumberInv, Writing, Critical
<1>6. LinesInOrder' /\ FileOfTheDay' /\ LinesKept'
  BY <1>1 DEF LogInv, LinesInOrder, FileOfTheDay, LinesKept, OnDisk, LinesOf
<1> QED  BY <1>2, <1>3, <1>4, <1>5, <1>6 DEF LogInv

\* The steps of write() before the file is touched.
LEMMA WaitingKeeps ==
  ASSUME LogInv, NEW t \in Thread, Call(t) \/ Lock(t) \/ ReadDate(t)
  PROVE  LogInv'
<1>1. /\ TypeOK /\ day \in Nat
      /\ UNCHANGED <<day, dir, files, up, current_date, stream, trouble,
                     listing, owed>>
  BY DEF LogInv, TypeOK, Day, Call, Lock, ReadDate, sinkVars
<1>2. LinesInOrder' /\ FileOfTheDay' /\ LinesKept'
  BY <1>1 DEF LogInv, LinesInOrder, FileOfTheDay, LinesKept, OnDisk, LinesOf
<1>3. CASE Call(t)
  <2>1. TypeOK'
    <3>1. /\ pc' = [pc EXCEPT ![t] = "lock"]
          /\ sent' = [sent EXCEPT ![t] = sent[t] + 1]
          /\ called' = [called EXCEPT ![t] = day]
          /\ UNCHANGED <<day, dir, files, up, current_date, stream, holder,
                         today, listing, trouble, owed>>
      BY <1>3 DEF Call, sinkVars
    <3>2. sent[t] + 1 \in Nat /\ day \in Day
      BY <1>1 DEF TypeOK
    <3> QED  BY <1>1, <3>1, <3>2 DEF TypeOK
  <2>2. MutexInv' /\ StreamInv'
    BY <1>1, <1>3 DEF LogInv, TypeOK, MutexInv, StreamInv, Call, sinkVars, Critical
  <2>3. DateInv'
    BY <1>1, <1>3 DEF LogInv, TypeOK, DateInv, Call, sinkVars, Writing, Critical
  <2>4. NumberInv'
    <3>1. sent' = [sent EXCEPT ![t] = sent[t] + 1] /\ sent \in [Thread -> Nat]
          /\ pc' = [pc EXCEPT ![t] = "lock"] /\ files' = files
          /\ DOMAIN pc = Thread
      BY <1>1, <1>3 DEF Call, TypeOK
    <3>2. \A d \in DOMAIN files : \A i \in DOMAIN files[d] :
            /\ files[d][i].by \in Thread /\ files[d][i].n \in Nat
            /\ files[d][i].n <= sent[files[d][i].by]
            /\ pc[files[d][i].by] \in Writing =>
                 files[d][i].n < sent[files[d][i].by]
      BY <1>1, LinesTyped DEF LogInv, NumberInv
    <3> QED  BY <3>1, <3>2 DEF NumberInv, Writing, Critical
  <2> QED  BY <1>2, <2>1, <2>2, <2>3, <2>4 DEF LogInv
<1>4. CASE Lock(t)
  <2>1. TypeOK'
    BY <1>1, <1>4 DEF Lock, TypeOK
  <2>2. MutexInv' /\ StreamInv'
    BY <1>1, <1>4, LogAssumption
       DEF LogInv, TypeOK, MutexInv, StreamInv, Lock, Critical
  <2>3. DateInv' /\ NumberInv'
    BY <1>1, <1>4 DEF LogInv, TypeOK, DateInv, NumberInv, Lock, Writing, Critical
  <2> QED  BY <1>2, <2>1, <2>2, <2>3 DEF LogInv
<1>5. CASE ReadDate(t)
  <2>1. TypeOK'
    BY <1>1, <1>5 DEF ReadDate, sinkVars, TypeOK
  <2>2. MutexInv' /\ StreamInv'
    BY <1>1, <1>5 DEF LogInv, TypeOK, MutexInv, StreamInv, ReadDate, sinkVars,
                      Critical
  <2>3. DateInv' /\ NumberInv'
    BY <1>1, <1>5 DEF LogInv, TypeOK, DateInv, NumberInv, ReadDate, sinkVars,
                      Writing, Critical
  <2> QED  BY <1>2, <2>1, <2>2, <2>3 DEF LogInv
<1> QED  BY <1>3, <1>4, <1>5

\* Rotation: the sink moves on to the date its caller has read.  No other
\* thread is past the lock, so nobody is about to append to the old file.
LEMMA ReopenKeeps ==
  ASSUME LogInv, NEW t \in Thread, Reopen(t)
  PROVE  LogInv'
<1>1. /\ TypeOK /\ pc[t] = "reopen" /\ pc' = [pc EXCEPT ![t] = "append"]
      /\ current_date' = today[t] /\ today[t] \in Day
      /\ Open(today[t], dir)
      /\ UNCHANGED <<day, dir, up, holder, today, called, listing, sent, owed>>
  BY DEF LogInv, TypeOK, Reopen
<1>2. /\ DOMAIN files' \in {DOMAIN files, DOMAIN files \cup {today[t]}}
      /\ files' \in [DOMAIN files' -> Seq(Line)]
      /\ \A e \in DOMAIN files : files'[e] = files[e]
      /\ \A e \in DOMAIN files' : e \notin DOMAIN files => files'[e] = << >>
      /\ \/ stream' = "good" /\ trouble' = "none" /\ today[t] \in DOMAIN files'
         \/ stream' = "closed" /\ trouble' = "open"
  BY <1>1, OpenShape
<1>3. TypeOK'
  BY <1>1, <1>2 DEF TypeOK
<1>4. MutexInv'
  BY <1>1 DEF LogInv, TypeOK, MutexInv, Critical
<1>5. up
  BY <1>1 DEF LogInv, StreamInv
<1>6. StreamInv'
  BY <1>1, <1>2, <1>5 DEF LogInv, TypeOK, StreamInv
<1>7. DateInv'
  <2>1. /\ \A u \in Thread : u # t => pc[u] \notin {"reopen", "append"}
    BY <1>1 DEF LogInv, MutexInv, Critical
  <2>2. /\ called[t] <= today[t] /\ today[t] <= day /\ current_date <= today[t]
        /\ \A d \in DOMAIN files : d <= current_date
        /\ \A u \in Thread : pc[u] \in Writing => called[u] <= day
    BY <1>1, <1>5 DEF LogInv, DateInv
  <2>3. day \in Nat /\ current_date \in Nat /\ today[t] \in Nat
        /\ \A d \in DOMAIN files : d \in Nat
    BY <1>1 DEF TypeOK, Day
  <2>4. \A d \in DOMAIN files' : d <= today[t] /\ d <= day
    BY <1>2, <2>2, <2>3
  <2>5. DOMAIN pc = Thread
    BY <1>1 DEF TypeOK
  <2> QED  BY <1>1, <2>1, <2>2, <2>4, <2>5 DEF DateInv, Writing, Critical
<1>8. NumberInv'
  <2>1. \A d \in DOMAIN files' : \A i \in DOMAIN files'[d] :
          d \in DOMAIN files /\ files'[d] = files[d]
    BY <1>2, EmptySeq
  <2>2. \A u \in Thread : pc'[u] \in Writing => pc[u] \in Writing
    BY <1>1 DEF TypeOK, Writing, Critical
  <2> QED  BY <1>1, <2>1, <2>2, LinesTyped DEF LogInv, NumberInv
<1>9. LinesInOrder' /\ FileOfTheDay'
  BY <1>2, <1>8, DiskKept
<1>10. LinesKept'
  <2>1. OnDisk \subseteq OnDisk'
    BY <1>2 DEF OnDisk, LinesOf
  <2> QED  BY <1>1, <2>1 DEF LogInv, LinesKept
<1> QED  BY <1>3, <1>4, <1>6, <1>7, <1>8, <1>9, <1>10 DEF LogInv

\* The end of write() where nothing reaches the disk: the stream is not good,
\* or the write fails.
LEMMA NothingAppendedKeeps ==
  ASSUME LogInv, NEW t \in Thread,
         (AppendLine(t) /\ stream # "good") \/ AppendFails(t)
  PROVE  LogInv'
<1>1. /\ TypeOK /\ pc[t] = "append" /\ pc' = [pc EXCEPT ![t] = "idle"]
      /\ holder' = "none" /\ up
      /\ UNCHANGED <<day, dir, files, up, current_date, today, called, listing,
                     sent>>
  BY DEF LogInv, StreamInv, AppendLine, AppendFails
<1>2. /\ owed' = owed
      /\ \/ UNCHANGED <<stream, trouble>>
         \/ /\ stream' = "bad" /\ stream = "good"
            /\ trouble' = "write"
  BY <1>1 DEF LogInv, StreamInv, AppendLine, AppendFails
<1>3. TypeOK'
  BY <1>1, <1>2 DEF TypeOK
<1>4. MutexInv'
  BY <1>1, LogAssumption DEF LogInv, TypeOK, MutexInv, Critical
<1>5. StreamInv'
  BY <1>1, <1>2 DEF LogInv, TypeOK, StreamInv
<1>6. DateInv'
  BY <1>1 DEF LogInv, TypeOK, DateInv, Writing, Critical
<1>7. NumberInv'
  <2>1. \A u \in Thread : pc'[u] \in Writing => pc[u] \in Writing
    BY <1>1 DEF TypeOK, Writing, Critical
  <2> QED  BY <1>1, <2>1, LinesTyped DEF LogInv, NumberInv
<1>8. LinesInOrder' /\ FileOfTheDay' /\ LinesKept'
  BY <1>1, <1>2
     DEF LogInv, LinesInOrder, FileOfTheDay, LinesKept, OnDisk, LinesOf
<1> QED  BY <1>3, <1>4, <1>5, <1>6, <1>7, <1>8 DEF LogInv

\* A line reaches the file of the date its thread has read: the newest file,
\* behind all the lines of that thread.
LEMMA AppendKeeps ==
  ASSUME LogInv, NEW t \in Thread, AppendLine(t), stream = "good"
  PROVE  LogInv'
<1> DEFINE line == [by |-> t, n |-> sent[t], called |-> called[t], done |-> day]
           cd == current_date
<1>1. /\ TypeOK /\ pc[t] = "append" /\ pc' = [pc EXCEPT ![t] = "idle"]
      /\ holder' = "none" /\ up
      /\ files' = [files EXCEPT ![current_date] = Append(@, line)]
      /\ owed' \subseteq owed \cup {line}
      /\ UNCHANGED <<day, dir, up, current_date, stream, today, called, listing,
                     sent, trouble>>
  BY DEF LogInv, StreamInv, AppendLine
<1>2. line \in Line /\ cd \in DOMAIN files
  BY <1>1 DEF LogInv, TypeOK, StreamInv, Line
<1>3. /\ DOMAIN files' = DOMAIN files
      /\ files' \in [DOMAIN files' -> Seq(Line)]
      /\ \A d \in DOMAIN files : d # cd => files'[d] = files[d]
      /\ \A i \in DOMAIN files'[cd] :
           \/ /\ i \in DOMAIN files[cd]
              /\ files'[cd][i] = files[cd][i]
           \/ /\ files'[cd][i] = line
              /\ \A j \in DOMAIN files'[cd] : j <= i
      /\ \A i \in DOMAIN files[cd] :
           /\ i \in DOMAIN files'[cd]
           /\ files'[cd][i] = files[cd][i]
      /\ line \in Range(files'[cd])
  BY <1>1, <1>2, AppendShape
<1>4. /\ line.by = t /\ line.n = sent[t] /\ line.called = called[t]
      /\ line.done = day
  OBVIOUS
<1>5. /\ called[t] <= cd /\ cd <= day /\ \A d \in DOMAIN files : d <= cd
  BY <1>1 DEF LogInv, DateInv
<1> HIDE DEF line
\* A place on the new disk is one of the old disk or the last of the file.
<1>6. ASSUME NEW d \in DOMAIN files', NEW i \in DOMAIN files'[d]
      PROVE  \/ /\ d \in DOMAIN files /\ i \in DOMAIN files[d]
                /\ files'[d][i] = files[d][i]
             \/ /\ d = cd /\ files'[d][i] = line
                /\ \A j \in DOMAIN files'[cd] : j <= i
  <2>1. CASE d = cd
    BY <1>3, <2>1
  <2>2. CASE d # cd
    BY <1>3, <2>2
  <2> QED  BY <2>1, <2>2
<1>7. TypeOK'
  <2>1. owed' \subseteq Line
    BY <1>1, <1>2 DEF TypeOK
  <2> QED  BY <1>1, <1>3, <2>1 DEF TypeOK
<1>8. MutexInv'
  BY <1>1, LogAssumption DEF LogInv, TypeOK, MutexInv, Critical
<1>9. StreamInv'
  BY <1>1, <1>3 DEF LogInv, TypeOK, StreamInv
<1>10. DateInv'
  BY <1>1, <1>3 DEF LogInv, TypeOK, DateInv, Writing, Critical
<1>11. \A d \in DOMAIN files : \A i \in DOMAIN files[d] :
         /\ files[d][i].by \in Thread /\ files[d][i].n \in Nat
         /\ files[d][i].n <= sent[files[d][i].by]
         /\ files[d][i].by = t => files[d][i].n < sent[t]
         /\ pc[files[d][i].by] \in Writing =>
              files[d][i].n < sent[files[d][i].by]
  BY <1>1, LinesTyped DEF LogInv, NumberInv, Writing, Critical
<1>12. NumberInv'
  <2>1. /\ \A u \in Thread : pc'[u] \in Writing => pc[u] \in Writing /\ u # t
        /\ sent[t] \in Nat /\ sent' = sent
    BY <1>1 DEF TypeOK, Writing, Critical
  <2> SUFFICES ASSUME NEW d \in DOMAIN files', NEW i \in DOMAIN files'[d]
               PROVE  /\ files'[d][i].n <= sent[files'[d][i].by]
                      /\ pc'[files'[d][i].by] \in Writing =>
                           files'[d][i].n < sent[files'[d][i].by]
    BY <2>1 DEF NumberInv
  <2> QED  BY <1>4, <1>6, <1>11, <2>1
<1>13. LinesInOrder'
  <2> SUFFICES ASSUME NEW d \in DOMAIN files', NEW e \in DOMAIN files',
                      NEW i \in DOMAIN files'[d], NEW j \in DOMAIN files'[e],
                      files'[d][i].by = files'[e][j].by,
                      d < e \/ (d = e /\ i < j)
               PROVE  files'[d][i].n < files'[e][j].n
    BY DEF LinesInOrder
  <2>1. d \in Nat /\ e \in Nat /\ i \in Nat /\ j \in Nat
    <3>1. /\ d \in Nat /\ e \in Nat
      BY <1>1, <1>3 DEF TypeOK, Day
    <3>2. files'[d] \in Seq(Line) /\ files'[e] \in Seq(Line)
      BY <1>3
    <3> QED  BY <3>1, <3>2, LenProperties
  \* The new line is the last one, so the earlier of the two is an old one.
  <2>2. /\ d \in DOMAIN files /\ i \in DOMAIN files[d]
        /\ files'[d][i] = files[d][i]
    <3> SUFFICES ASSUME d = cd, \A k \in DOMAIN files'[cd] : k <= i
                 PROVE  FALSE
      BY <1>6
    <3>1. e <= cd
      BY <1>3, <1>5
    <3> QED  BY <2>1, <3>1
  <2>3. CASE e \in DOMAIN files /\ j \in DOMAIN files[e]
             /\ files'[e][j] = files[e][j]
    BY <2>2, <2>3 DEF LogInv, LinesInOrder
  <2>4. CASE files'[e][j] = line
    BY <1>4, <1>11, <2>2, <2>4
  <2> QED  BY <1>6, <2>3, <2>4
<1>14. FileOfTheDay'
  <2> SUFFICES ASSUME NEW d \in DOMAIN files', NEW i \in DOMAIN files'[d]
               PROVE  files'[d][i].called <= d /\ d <= files'[d][i].done
    BY DEF FileOfTheDay, LinesOf, Range
  <2>1. CASE d \in DOMAIN files /\ i \in DOMAIN files[d]
             /\ files'[d][i] = files[d][i]
    BY <2>1 DEF LogInv, FileOfTheDay, LinesOf, Range
  <2>2. CASE d = cd /\ files'[d][i] = line
    BY <1>4, <1>5, <2>2
  <2> QED  BY <1>6, <2>1, <2>2
<1>15. LinesKept'
  <2>1. \A d \in DOMAIN files : LinesOf(d) \subseteq Range(files'[d])
    BY <1>3 DEF LinesOf, Range
  <2>2. OnDisk \subseteq OnDisk' /\ line \in OnDisk'
    BY <1>2, <1>3, <2>1 DEF OnDisk, LinesOf
  <2> QED  BY <1>1, <2>2 DEF LogInv, LinesKept
<1> QED  BY <1>7, <1>8, <1>9, <1>10, <1>12, <1>13, <1>14, <1>15 DEF LogInv

\* :clear-runtime: lines go with their file, and what was owed with them.
LEMMA ClearKeeps ==
  ASSUME LogInv, Clear
  PROVE  LogInv'
<1>1. TypeOK /\ UI \in Thread
  BY LogAssumption DEF LogInv
<1>2. CASE ClearBegin \/ ClearFails
  <2>1. /\ UNCHANGED <<day, dir, files, up, today, called, sent, owed,
                       current_date, stream, holder, trouble>>
        /\ listing' \in SUBSET Day
        /\ \/ pc[UI] = "idle" /\ up /\ pc' = [pc EXCEPT ![UI] = "clear"]
           \/ pc[UI] = "clear" /\ pc' = [pc EXCEPT ![UI] = "idle"]
    BY <1>1, <1>2 DEF ClearBegin, ClearFails, sinkVars, TypeOK
  <2>2. TypeOK' /\ MutexInv'
    BY <1>1, <2>1 DEF LogInv, TypeOK, MutexInv, Critical
  <2>3. StreamInv'
    BY <1>1, <2>1 DEF LogInv, TypeOK, StreamInv
  <2>4. DateInv'
    BY <1>1, <2>1 DEF LogInv, TypeOK, DateInv, Writing, Critical
  <2>5. NumberInv'
    <3>1. \A u \in Thread : pc'[u] \in Writing => pc[u] \in Writing
      BY <1>1, <2>1 DEF TypeOK, Writing, Critical
    <3> QED  BY <1>1, <2>1, <3>1, LinesTyped DEF LogInv, NumberInv
  <2>6. LinesInOrder' /\ FileOfTheDay' /\ LinesKept'
    BY <2>1 DEF LogInv, LinesInOrder, FileOfTheDay, LinesKept, OnDisk, LinesOf
  <2> QED  BY <2>2, <2>3, <2>4, <2>5, <2>6 DEF LogInv
<1>3. CASE Unlink
  <2>1. PICK d \in DOMAIN files :
          /\ pc[UI] = "clear" /\ files' = Without(files, d)
          /\ stream' = IF d = current_date /\ stream # "closed"
                         THEN "unlinked" ELSE stream
          /\ listing' = listing \ {d}
          /\ trouble' = IF d = current_date THEN "clear" ELSE trouble
          /\ owed' = owed \ LinesOf(d)
          /\ UNCHANGED <<day, dir, up, current_date, holder, pc, today, called,
                         sent>>
    BY <1>3 DEF Unlink, threadVars
  <2>2. /\ DOMAIN files' = DOMAIN files \ {d}
        /\ \A e \in DOMAIN files' : files'[e] = files[e]
        /\ files' \in [DOMAIN files' -> Seq(Line)]
    BY <1>1, <2>1 DEF Without, TypeOK
  <2>3. TypeOK'
    BY <1>1, <2>1, <2>2 DEF TypeOK
  <2>4. MutexInv' /\ StreamInv'
    BY <2>1, <2>2 DEF LogInv, MutexInv, StreamInv
  <2>5. DateInv'
    BY <2>1, <2>2 DEF LogInv, DateInv
  <2>6. NumberInv'
    BY <2>1, <2>2 DEF LogInv, NumberInv
  <2>7. LinesInOrder' /\ FileOfTheDay'
    BY <2>2, <2>6, DiskKept
  <2>8. LinesKept'
    <3>1. OnDisk \ LinesOf(d) \subseteq OnDisk'
      BY <2>2 DEF OnDisk, LinesOf
    <3> QED  BY <2>1, <3>1 DEF LogInv, LinesKept
  <2> QED  BY <2>3, <2>4, <2>5, <2>6, <2>7, <2>8 DEF LogInv
<1>4. CASE RemoveDirectory
  <2>1. /\ pc[UI] = "clear" /\ pc' = [pc EXCEPT ![UI] = "idle"]
        /\ dir' = (DOMAIN files # {})
        /\ trouble' = IF DOMAIN files = {} THEN "clear" ELSE trouble
        /\ UNCHANGED <<day, files, up, current_date, stream, holder, today,
                       called, listing, sent, owed>>
    BY <1>4 DEF RemoveDirectory
  <2>2. TypeOK' /\ MutexInv'
    BY <1>1, <2>1 DEF LogInv, TypeOK, MutexInv, Critical
  <2>3. StreamInv'
    BY <1>1, <2>1 DEF LogInv, TypeOK, StreamInv
  <2>4. DateInv'
    BY <1>1, <2>1 DEF LogInv, TypeOK, DateInv, Writing, Critical
  <2>5. NumberInv'
    <3>1. \A u \in Thread : pc'[u] \in Writing => pc[u] \in Writing
      BY <1>1, <2>1 DEF TypeOK, Writing, Critical
    <3> QED  BY <1>1, <2>1, <3>1, LinesTyped DEF LogInv, NumberInv
  <2>6. LinesInOrder' /\ FileOfTheDay' /\ LinesKept'
    BY <2>1 DEF LogInv, LinesInOrder, FileOfTheDay, LinesKept, OnDisk, LinesOf
  <2> QED  BY <2>2, <2>3, <2>4, <2>5, <2>6 DEF LogInv
<1> QED  BY <1>2, <1>3, <1>4 DEF Clear

\* Midnight: only the clock moves.
LEMMA MidnightKeeps ==
  ASSUME LogInv, Midnight
  PROVE  LogInv'
<1>1. /\ TypeOK /\ day' = day + 1 /\ day < MaxDay
      /\ UNCHANGED <<dir, files, up, listing, owed, current_date, stream, holder,
                     trouble, pc, today, called, sent>>
  BY DEF LogInv, Midnight, sinkVars, threadVars
<1>2. day \in Nat /\ day' \in Day
  BY <1>1, LogAssumption DEF TypeOK, Day
<1>3. TypeOK'
  BY <1>1, <1>2 DEF TypeOK
<1>4. MutexInv' /\ StreamInv' /\ NumberInv'
  BY <1>1 DEF LogInv, MutexInv, StreamInv, NumberInv
<1>5. DateInv'
  <2>1. /\ current_date \in Nat /\ \A d \in DOMAIN files : d \in Nat
        /\ \A t \in Thread : called[t] \in Nat /\ today[t] \in Nat
    BY <1>1 DEF TypeOK, Day
  <2> QED  BY <1>1, <1>2, <2>1 DEF LogInv, DateInv
<1>6. LinesInOrder' /\ FileOfTheDay' /\ LinesKept'
  BY <1>1 DEF LogInv, LinesInOrder, FileOfTheDay, LinesKept, OnDisk, LinesOf
<1> QED  BY <1>3, <1>4, <1>5, <1>6 DEF LogInv

\* The sink, its callers and the disk agree in every reachable state: LogInv is
\* inductive.
THEOREM LogInductive == Spec => []LogInv
<1>1. LogInv /\ [Next]_vars => LogInv'
  <2> SUFFICES ASSUME LogInv, [Next]_vars PROVE LogInv'
    OBVIOUS
  <2>1. CASE UNCHANGED vars
    BY <2>1 DEF vars, LogInv, TypeOK, MutexInv, DateInv, NumberInv, StreamInv,
                LinesInOrder, FileOfTheDay, LinesKept, OnDisk, LinesOf
  <2>2. ASSUME NEW t \in Thread, Write(t) PROVE LogInv'
    BY <2>2, WaitingKeeps, ReopenKeeps, AppendKeeps, NothingAppendedKeeps
       DEF Write
  <2> QED  BY <2>1, <2>2, StartKeeps, StopKeeps, ClearKeeps, MidnightKeeps
           DEF Next
<1> QED  BY LogInit, <1>1, PTL DEF Spec

\* The state of the sink and of its callers has the type given for it.
THEOREM LogTyped == Spec => []TypeOK
<1>1. LogInv => TypeOK
  BY DEF LogInv
<1> QED  BY <1>1, LogInductive, PTL

\* Every thread's lines are on disk in the order it wrote them, within a day's
\* file and from one to the next, however many threads rotate it.
THEOREM LogKeepsOrder == Spec => []LinesInOrder
<1>1. LogInv => LinesInOrder
  BY DEF LogInv
<1> QED  BY <1>1, LogInductive, PTL

\* Every line is in the file of a day on which its write() was under way.
THEOREM LogFilesByDay == Spec => []FileOfTheDay
<1>1. LogInv => FileOfTheDay
  BY DEF LogInv
<1> QED  BY <1>1, LogInductive, PTL

\* A line whose write() returned while the last open had succeeded, no write had
\* failed since and no clear had taken the file away is on disk, through
\* rotation, crashes and restarts, until :clear-runtime deletes its file.
THEOREM LogLosesNothing == Spec => []LinesKept
<1>1. LogInv => LinesKept
  BY DEF LogInv
<1> QED  BY <1>1, LogInductive, PTL
=============================================================================
