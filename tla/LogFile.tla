------------------------------ MODULE LogFile ------------------------------
(***************************************************************************)
(* The log file: class FileSink (src/logging/FileSink.cpp) behind the      *)
(* Logger singleton, written by the UI thread and by the sync worker       *)
(* under one mutex, rotated when the UTC date changes, and deleted under   *)
(* its feet by :clear-runtime (App::clear_runtime_files, src/app/App.cpp), *)
(* which takes no lock and tells the sink nothing.                         *)
(*                                                                         *)
(* The directory and its files survive the process.  A line is the record  *)
(* of who wrote it, its number and the days around the call; its text,     *)
(* level and time of day are left out.                                     *)
(***************************************************************************)
EXTENDS Integers, Sequences, Functions

CONSTANTS
  Thread,    \* the threads that log
  UI,        \* the one that runs :clear-runtime
  MaxDay,    \* days that pass (bounds Midnight)
  MaxLines   \* lines each thread writes (bounds Call)

ASSUME LogAssumption ==
  /\ UI \in Thread
  /\ MaxDay \in Nat \ {0}
  /\ MaxLines \in Nat
  /\ "none" \notin Thread

Day == 1 .. MaxDay

\* A line: the thread, its number, the day of the call and of the append.
Line == [by : Thread, n : Nat, called : Day, done : Day]

VARIABLES
  day,           \* what date_provider_() returns now
  dir,           \* does ~/.cwe-man/logs exist?
  files,         \* files[d]: the lines of cwe-man-<d>.log, for those that exist
  up,            \* the process runs
  current_date,  \* FileSink::current_date_
  stream,        \* FileSink::stream_: "closed", "good", "bad" (a write has
                 \* failed), "unlinked" (open on a file that was deleted)
  holder,        \* who holds FileSink::mutex_, "none" if nobody
  pc,            \* pc[t]: where thread t is in write() or clear_runtime_files()
  today,         \* today[t]: the local of rotate_if_needed()
  called,        \* called[t]: the day t called write()
  listing,       \* the files clear_runtime_files() still has to delete
  sent,          \* history: lines thread t has begun to write
  trouble,       \* history: what the outside has done to the log since it was
                 \* last opened with success: "open" if an open has failed,
                 \* "write" a write, "clear" if a clear has deleted the file
                 \* or the directory in use
  owed           \* history: lines whose write() returned without trouble

vars == <<day, dir, files, up, current_date, stream, holder, pc, today, called,
          listing, sent, trouble, owed>>

sinkVars == <<current_date, stream, holder, trouble>>
threadVars == <<pc, today, called, sent>>

\* The lines on disk in the file of day d.
LinesOf(d) == Range(files[d])
OnDisk == UNION {LinesOf(d) : d \in DOMAIN files}

\* Mutant of WithFile: opened with ios::trunc.
WithEmptyFile(fs, d) == [e \in DOMAIN fs \cup {d} |-> IF e = d THEN << >> ELSE fs[e]]

\* ofstream::open(path, ios::app): the file exists afterwards, as it was or
\* empty.
WithFile(fs, d) ==
  [e \in DOMAIN fs \cup {d} |-> IF e \in DOMAIN fs THEN fs[e] ELSE << >>]

Without(fs, d) == [e \in DOMAIN fs \ {d} |-> fs[e]]

\* stream_.open(log_path_for_today(), ios::app): without the directory it
\* fails, with it it may (permissions, no descriptor, no space).  Nobody asks.
Open(d, exists) ==
  \/ /\ exists
     /\ files' = WithFile(files, d)
     /\ stream' = "good"
     /\ trouble' = "none"
  \/ /\ stream' = "closed"
     /\ trouble' = "open"
     /\ UNCHANGED files

-----------------------------------------------------------------------------
(* The process.                                                            *)

\* FileSink's constructor: create_directories (which throws and ends the
\* program if it cannot), then open today's file.
Start ==
  /\ ~up
  /\ up' = TRUE
  /\ dir' = TRUE
  /\ current_date' = day
  /\ Open(day, TRUE)
  /\ UNCHANGED <<day, holder, listing, owed>> /\ UNCHANGED threadVars

\* The process ends or dies between any two steps, with all it was doing.
Stop ==
  /\ up
  /\ up' = FALSE
  /\ stream' = "closed"
  /\ holder' = "none"
  /\ pc' = [t \in Thread |-> "idle"]
  /\ listing' = {}
  /\ UNCHANGED <<day, dir, files, current_date, today, called, sent, trouble,
                 owed>>

-----------------------------------------------------------------------------
(* FileSink::write() on thread t.                                          *)

\* A thread logs a line and waits for the mutex.
Call(t) ==
  /\ up
  /\ pc[t] = "idle"
  /\ sent[t] < MaxLines
  /\ pc' = [pc EXCEPT ![t] = "lock"]
  /\ sent' = [sent EXCEPT ![t] = @ + 1]
  /\ called' = [called EXCEPT ![t] = day]
  /\ UNCHANGED <<day, dir, files, up, today, listing, owed>>
  /\ UNCHANGED sinkVars

\* Mutant of Lock: no lock_guard.
NoLock(t) ==
  /\ pc[t] = "lock"
  /\ pc' = [pc EXCEPT ![t] = "date"]
  /\ UNCHANGED <<day, dir, files, up, today, called, listing, sent, owed>>
  /\ UNCHANGED sinkVars

\* std::lock_guard lock{mutex_}.
Lock(t) ==
  /\ pc[t] = "lock"
  /\ holder = "none"
  /\ holder' = t
  /\ pc' = [pc EXCEPT ![t] = "date"]
  /\ UNCHANGED <<day, dir, files, up, today, called, listing, sent, owed>>
  /\ UNCHANGED <<current_date, stream, trouble>>

\* Mutant of ReadDate: the file is never rotated.
NeverRotate(t) ==
  /\ pc[t] = "date"
  /\ today' = [today EXCEPT ![t] = day]
  /\ pc' = [pc EXCEPT ![t] = "append"]
  /\ UNCHANGED <<day, dir, files, up, called, listing, sent, owed>>
  /\ UNCHANGED sinkVars

\* Mutant of ReadDate: the date in local time, west of Greenwich.
LocalDate(t) ==
  /\ pc[t] = "date"
  /\ today' = [today EXCEPT ![t] = day - 1]
  /\ pc' = [pc EXCEPT ![t] = IF day - 1 = current_date THEN "append" ELSE "reopen"]
  /\ UNCHANGED <<day, dir, files, up, called, listing, sent, owed>>
  /\ UNCHANGED sinkVars

\* rotate_if_needed(): compare the date with that of the stream.
ReadDate(t) ==
  /\ pc[t] = "date"
  /\ today' = [today EXCEPT ![t] = day]
  /\ pc' = [pc EXCEPT ![t] = IF day = current_date THEN "append" ELSE "reopen"]
  /\ UNCHANGED <<day, dir, files, up, called, listing, sent, owed>>
  /\ UNCHANGED sinkVars

\* Close, remember the date, open the file of the day: nothing creates the
\* directory here.
Reopen(t) ==
  /\ pc[t] = "reopen"
  /\ pc' = [pc EXCEPT ![t] = "append"]
  /\ current_date' = today[t]
  /\ Open(today[t], dir)
  /\ UNCHANGED <<day, dir, up, holder, today, called, listing, sent, owed>>

\* The line goes to the open stream and is flushed; the mutex is released.
\* A stream that is closed, bad or unlinked takes the line nowhere.
AppendLine(t) ==
  LET line == [by |-> t, n |-> sent[t], called |-> called[t], done |-> day]
  IN /\ pc[t] = "append"
     /\ pc' = [pc EXCEPT ![t] = "idle"]
     /\ holder' = "none"
     /\ files' = IF stream = "good"
                   THEN [files EXCEPT ![current_date] = Append(@, line)]
                   ELSE files
     /\ owed' = IF trouble = "none" THEN owed \cup {line} ELSE owed
     /\ UNCHANGED <<day, dir, up, current_date, stream, today, called, listing,
                    sent, trouble>>

\* The write fails (no space): the stream stays bad until it is opened again.
AppendFails(t) ==
  /\ pc[t] = "append"
  /\ stream = "good"
  /\ pc' = [pc EXCEPT ![t] = "idle"]
  /\ holder' = "none"
  /\ stream' = "bad"
  /\ trouble' = "write"
  /\ UNCHANGED <<day, dir, files, up, current_date, today, called, listing,
                 sent, owed>>

-----------------------------------------------------------------------------
(* App::clear_runtime_files() on the UI thread: remove_all(logs).          *)

ClearBegin ==
  /\ up /\ dir
  /\ pc[UI] = "idle"
  /\ pc' = [pc EXCEPT ![UI] = "clear"]
  /\ listing' = DOMAIN files
  /\ UNCHANGED <<day, dir, files, up, today, called, sent, owed>>
  /\ UNCHANGED sinkVars

\* One file is unlinked.  The listing may also show a file created after it
\* began.  The sink's stream stays open on the deleted file.
Unlink ==
  \E d \in DOMAIN files :
    /\ pc[UI] = "clear"
    /\ files' = Without(files, d)
    /\ stream' = IF d = current_date /\ stream # "closed"
                   THEN "unlinked" ELSE stream
    /\ listing' = listing \ {d}
    /\ trouble' = IF d = current_date THEN "clear" ELSE trouble
    /\ owed' = owed \ LinesOf(d)
    /\ UNCHANGED <<day, dir, up, current_date, holder>>
    /\ UNCHANGED threadVars

\* The emptied directory is removed; if a rotation has put a new file into it
\* the removal fails, the exception is caught and reported.
RemoveDirectory ==
  /\ pc[UI] = "clear"
  /\ listing = {}
  /\ pc' = [pc EXCEPT ![UI] = "idle"]
  /\ dir' = (DOMAIN files # {})
  /\ trouble' = IF DOMAIN files = {} THEN "clear" ELSE trouble
  /\ UNCHANGED <<day, files, up, current_date, stream, holder, today, called,
                 listing, sent, owed>>

\* A file that cannot be deleted: the rest stays.
ClearFails ==
  /\ pc[UI] = "clear"
  /\ pc' = [pc EXCEPT ![UI] = "idle"]
  /\ listing' = {}
  /\ UNCHANGED <<day, dir, files, up, today, called, sent, owed>>
  /\ UNCHANGED sinkVars

-----------------------------------------------------------------------------
Midnight ==
  /\ day < MaxDay
  /\ day' = day + 1
  /\ UNCHANGED <<dir, files, up, listing, owed>>
  /\ UNCHANGED sinkVars
  /\ UNCHANGED threadVars

Init ==
  /\ day = 1
  /\ dir = FALSE
  /\ files = << >>
  /\ up = FALSE
  /\ current_date = 1
  /\ stream = "closed"
  /\ holder = "none"
  /\ pc = [t \in Thread |-> "idle"]
  /\ today = [t \in Thread |-> 1]
  /\ called = [t \in Thread |-> 1]
  /\ listing = {}
  /\ sent = [t \in Thread |-> 0]
  /\ trouble = "none"
  /\ owed = {}

Write(t) == Call(t) \/ Lock(t) \/ ReadDate(t) \/ Reopen(t) \/ AppendLine(t)
            \/ AppendFails(t)

Clear == ClearBegin \/ Unlink \/ RemoveDirectory \/ ClearFails

Next == Start \/ Stop \/ (\E t \in Thread : Write(t)) \/ Clear \/ Midnight

Spec == Init /\ [][Next]_vars

-----------------------------------------------------------------------------
(* Properties.                                                             *)

TypeOK ==
  /\ day \in Day
  /\ dir \in BOOLEAN
  /\ DOMAIN files \subseteq Day
  /\ files \in [DOMAIN files -> Seq(Line)]
  /\ up \in BOOLEAN
  /\ current_date \in Day
  /\ stream \in {"closed", "good", "bad", "unlinked"}
  /\ holder \in Thread \cup {"none"}
  /\ pc \in [Thread -> {"idle", "lock", "date", "reopen", "append", "clear"}]
  /\ today \in [Thread -> Day]
  /\ called \in [Thread -> Day]
  /\ listing \in SUBSET Day
  /\ sent \in [Thread -> Nat]
  /\ trouble \in {"none", "open", "write", "clear"}
  /\ owed \in SUBSET Line

\* A thread's lines are on disk in the order it wrote them, within a file and
\* from one day's file to the next, though two threads rotate the stream.
LinesInOrder ==
  \A d, e \in DOMAIN files :
    \A i \in DOMAIN files[d], j \in DOMAIN files[e] :
      files[d][i].by = files[e][j].by /\ (d < e \/ (d = e /\ i < j))
        => files[d][i].n < files[e][j].n

\* A line is in the file of a day on which its write() was under way: at
\* midnight no thread writes into the file of a day that was over before the
\* call, or opens one that had not come.
FileOfTheDay ==
  \A d \in DOMAIN files : \A l \in LinesOf(d) : l.called <= d /\ d <= l.done

\* A line whose write() returned is on disk, through rotations, crashes and
\* restarts on the same day, if since the last successful open no open and no
\* write has failed and no clear has deleted the file or directory in use.
\* Whatever has happened, the first open that succeeds ends the losses.
LinesKept == owed \subseteq OnDisk
=============================================================================
