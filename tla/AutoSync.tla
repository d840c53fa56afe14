------------------------------ MODULE AutoSync ------------------------------
(***************************************************************************)
(* When does a start of the program begin a sync by itself?  App::run()    *)
(* (src/app/App.cpp) asks the configuration, read line by line by          *)
(* App::load_config(), and Sync::sync_needed() (src/api/Sync.cpp), which   *)
(* compares the clock with the timestamp the last sync wrote.              *)
(*                                                                         *)
(* The timestamp is written in local time and read as local standard time: *)
(* one written in summer comes back an hour late.  Times are counted in    *)
(* half hours, so that the truncation to hours shows.                      *)
(***************************************************************************)
EXTENDS Integers, Sequences

CONSTANTS
  MaxTime,          \* bound of the clock
  Days,             \* the intervals a config.ini may ask for
  Words,            \* the words it may have for a switch
  TrueWords,        \* "1", "true", "yes", "on" in the code
  FalseWords,       \* those a reader takes for off; the others are invalid
  MaxLines,         \* bound of its length
  DayHours,         \* 24
  MaxInterval,      \* 3650
  DefaultInterval   \* 30

Time == 0 .. MaxTime

ASSUME AutoSyncAssumption ==
  /\ MaxTime \in Nat
  /\ Days \subseteq Int
  /\ TrueWords \subseteq Words
  /\ FalseWords \subseteq Words \ TrueWords
  /\ MaxLines \in Nat
  /\ DayHours \in Nat \ {0}
  /\ MaxInterval \in Nat \ {0}
  /\ DefaultInterval \in 1 .. MaxInterval

VARIABLES
  now,       \* external: the system clock
  summer,    \* external: does daylight saving time hold?
  lines,     \* config.ini as load_config() reads it, empty when missing
  line,      \* lines read so far
  pc,        \* "off", "config" (App::App() reads it), "running"
  enabled,   \* Config::auto_sync_enabled
  interval,  \* Config::auto_sync_interval_days
  stored,    \* is there a category in the database?
  sync,      \* the worker: "no", "runs", "stamps" (has opened the file)
  taken,     \* the local time it is about to write
  stamp,     \* sync_state.txt
  done       \* history: when the sync that wrote the timestamp was done

configVars == <<lines, line, enabled, interval>>
clockVars == <<now, summer>>
vars == <<now, summer, lines, line, pc, enabled, interval, stored,
          sync, taken, stamp, done>>

\* A line of config.ini: a key with its value, an interval that stoi()
\* refuses, or one that is skipped: a comment, a section, an unknown key.
Line == [key : {"auto_sync_enabled"}, value : Words]
        \cup [key : {"auto_sync_interval_days"}, value : Days]
        \cup [key : {"auto_sync_interval_days?", "skipped"}]

\* sync_state.txt: missing, empty or unreadable, or a local time.
NoStamp == [readable |-> FALSE, local |-> 0]
Stamp(t) == [readable |-> TRUE, local |-> t]

-----------------------------------------------------------------------------
(* Outside.                                                                *)

\* The clock goes on, or is set; summer comes and goes.
Pass ==
  /\ now' \in Time
  /\ summer' \in BOOLEAN
  /\ UNCHANGED <<lines, line, pc, enabled, interval, stored, sync,
                 taken, stamp, done>>

-----------------------------------------------------------------------------
(* Start-up.                                                               *)

\* load_config() opens the file, whatever the user has made of it by now.
Launch ==
  /\ pc = "off"
  /\ pc' = "config"
  /\ \E n \in 0 .. MaxLines : lines' \in [1 .. n -> Line]
  /\ line' = 0
  /\ enabled' = TRUE
  /\ interval' = DefaultInterval
  /\ UNCHANGED <<now, summer, stored, sync, taken, stamp, done>>

Clamp(days) == IF days < 1 THEN 1
               ELSE IF days > MaxInterval THEN MaxInterval
               ELSE days

\* load_config() comes to a line with that key.
Reads(key) ==
  /\ pc = "config"
  /\ line < Len(lines)
  /\ lines[line + 1].key = key
  /\ line' = line + 1
  /\ UNCHANGED <<now, summer, lines, pc, stored, sync, taken, stamp,
                 done>>

\* Any word but those for true turns the switch off.
ReadEnabled ==
  /\ Reads("auto_sync_enabled")
  /\ enabled' = (lines[line + 1].value \in TrueWords)
  /\ UNCHANGED interval

\* Mutant of ReadInterval: the value is not clamped.
ReadIntervalAsItIs ==
  /\ Reads("auto_sync_interval_days")
  /\ interval' = lines[line + 1].value
  /\ UNCHANGED enabled

ReadInterval ==
  /\ Reads("auto_sync_interval_days")
  /\ interval' = Clamp(lines[line + 1].value)
  /\ UNCHANGED enabled

\* Mutant of SkipLine: the exception ends the loop, the try block around it.
SkipRest ==
  /\ pc = "config"
  /\ line < Len(lines)
  /\ lines[line + 1].key \in {"auto_sync_interval_days?", "skipped"}
  /\ line' = IF lines[line + 1].key = "skipped" THEN line + 1 ELSE Len(lines)
  /\ UNCHANGED <<now, summer, lines, pc, enabled, interval, stored, sync,
                 taken, stamp, done>>

\* stoi() has thrown and what an earlier line said stays, or there is nothing
\* to read.
SkipLine ==
  /\ Reads("auto_sync_interval_days?") \/ Reads("skipped")
  /\ UNCHANGED <<enabled, interval>>

\* Whole hours between two times, duration_cast<hours>: towards zero.
Hours(from, to) ==
  IF to >= from THEN (to - from) \div 2 ELSE -((from - to) \div 2)

\* Mutant of SyncNeeded: a timestamp that cannot be read counts as fresh.
SyncNeededReadable == stamp.readable /\ Hours(stamp.local, now) > interval * DayHours

\* Sync::sync_needed(config_.auto_sync_interval_days).
SyncNeeded == ~stamp.readable \/ Hours(stamp.local, now) > interval * DayHours

\* The rest of App::App() and App::run() up to the event loop.
StartUp ==
  /\ pc = "config"
  /\ line = Len(lines)
  /\ pc' = "running"
  /\ sync' = IF stored /\ enabled /\ SyncNeeded THEN "runs" ELSE sync
  /\ UNCHANGED configVars
  /\ UNCHANGED clockVars
  /\ UNCHANGED <<stored, taken, stamp, done>>

-----------------------------------------------------------------------------
(* The sync.                                                               *)

\* :sync.
SyncCommand ==
  /\ pc = "running" /\ sync = "no"
  /\ sync' = "runs"
  /\ UNCHANGED configVars
  /\ UNCHANGED clockVars
  /\ UNCHANGED <<pc, stored, taken, stamp, done>>

\* upsert_category().
StoreCategory ==
  /\ sync = "runs"
  /\ stored' = TRUE
  /\ UNCHANGED configVars
  /\ UNCHANGED clockVars
  /\ UNCHANGED <<pc, sync, taken, stamp, done>>

\* localtime(): what the clock on the wall shows, but for the zone.
Local == IF summer THEN now + 2 ELSE now

\* Mutant of OpenStamp: the file keeps what it has until it is written.
OpenStampKeeping ==
  /\ sync = "runs"
  /\ sync' = "stamps"
  /\ taken' = Local
  /\ done' = now
  /\ UNCHANGED configVars
  /\ UNCHANGED clockVars
  /\ UNCHANGED <<pc, stored, stamp>>

\* write_sync_timestamp() takes the time and opens the file, which empties it.
OpenStamp ==
  /\ sync = "runs"
  /\ sync' = "stamps"
  /\ taken' = Local
  /\ stamp' = NoStamp
  /\ done' = now
  /\ UNCHANGED configVars
  /\ UNCHANGED clockVars
  /\ UNCHANGED <<pc, stored>>

\* The file cannot be opened, which nobody looks at: it keeps what it has.
OpenFails ==
  /\ sync = "runs"
  /\ sync' = "no"
  /\ UNCHANGED configVars
  /\ UNCHANGED clockVars
  /\ UNCHANGED <<pc, stored, taken, stamp, done>>

\* The line is written at once, when the file is closed.
WriteStamp ==
  /\ sync = "stamps"
  /\ sync' = "no"
  /\ stamp' = Stamp(taken)
  /\ UNCHANGED configVars
  /\ UNCHANGED clockVars
  /\ UNCHANGED <<pc, stored, taken, done>>

\* The disk is full: nobody looks at the stream.
WriteFails ==
  /\ sync = "stamps"
  /\ sync' = "no"
  /\ UNCHANGED configVars
  /\ UNCHANGED clockVars
  /\ UNCHANGED <<pc, stored, taken, stamp, done>>

\* An exception in Sync::run().
SyncFails ==
  /\ sync = "runs"
  /\ sync' = "no"
  /\ UNCHANGED configVars
  /\ UNCHANGED clockVars
  /\ UNCHANGED <<pc, stored, taken, stamp, done>>

\* The program ends or crashes, whatever the worker does.
Stop ==
  /\ pc # "off"
  /\ pc' = "off"
  /\ sync' = "no"
  /\ UNCHANGED configVars
  /\ UNCHANGED clockVars
  /\ UNCHANGED <<stored, taken, stamp, done>>

-----------------------------------------------------------------------------
Init ==
  /\ now \in Time
  /\ summer \in BOOLEAN
  /\ lines = << >>
  /\ line = 0
  /\ pc = "off"
  /\ enabled = TRUE
  /\ interval = DefaultInterval
  /\ stored = FALSE
  /\ sync = "no"
  /\ taken = 0
  /\ stamp = NoStamp
  /\ done = 0

Next ==
  \/ Pass
  \/ Launch \/ ReadEnabled \/ ReadInterval \/ SkipLine \/ StartUp
  \/ SyncCommand \/ StoreCategory \/ OpenStamp \/ OpenFails
  \/ WriteStamp \/ WriteFails \/ SyncFails \/ Stop

Spec == Init /\ [][Next]_vars

-----------------------------------------------------------------------------
(* Properties.                                                             *)

TypeOK ==
  /\ now \in Time /\ summer \in BOOLEAN
  /\ lines \in Seq(Line)
  /\ line \in 0 .. Len(lines)
  /\ pc \in {"off", "config", "running"}
  /\ enabled \in BOOLEAN /\ interval \in 1 .. MaxInterval
  /\ stored \in BOOLEAN
  /\ sync \in {"no", "runs", "stamps"}
  /\ taken \in Nat
  /\ stamp \in [readable : BOOLEAN, local : Nat]
  /\ done \in Time

\* The lines with that key among the first n.
Given(key, n) == {i \in 1 .. n : lines[i].key = key}

\* i is the last of them.
LastOf(key, n, i) == i \in Given(key, n) /\ \A j \in Given(key, n) : j <= i

\* Lines with valid values, as the README and the code agree on them.
ValidSwitch(i) == lines[i].value \in TrueWords \cup FalseWords
ValidInterval(i) == lines[i].value \in 1 .. MaxInterval

\* The switch is what the last of its lines says, and on without one.
SwitchIsFile ==
  LET given == Given("auto_sync_enabled", Len(lines))
  IN (\A i \in given : ValidSwitch(i))
       => /\ given = {} => enabled
          /\ \A i \in given :
               LastOf("auto_sync_enabled", Len(lines), i)
                 => (enabled <=> lines[i].value \notin FalseWords)

\* The interval is that of the last of its lines, and the default without one
\* that holds a number.
IntervalIsFile ==
  LET given == Given("auto_sync_interval_days", Len(lines))
      unreadable == Given("auto_sync_interval_days?", Len(lines))
  IN (\A i \in given : ValidInterval(i)) /\ (given = {} \/ unreadable = {})
       => /\ given = {} => interval = DefaultInterval
          /\ \A i \in given :
               LastOf("auto_sync_interval_days", Len(lines), i)
                 => interval = lines[i].value

\* The program runs with what config.ini says of each key whose lines are valid
\* ("If the file is missing or contains invalid values, defaults are used",
\* README.md), however its lines are ordered and repeated: an invalid value of
\* one key costs the other nothing.  Where the code departs from that sentence
\* (it clamps a number out of range, takes an unknown word for off, and lets a
\* valid line stand beside an unreadable one) this says nothing; AutoSyncProof
\* proves what it does.
ConfigIsFile == pc = "running" => SwitchIsFile /\ IntervalIsFile

StartsUp == pc = "config" /\ pc' = "running"

\* A program that starts two hours or more after the interval has passed syncs
\* by itself, whenever and however the last sync ended: one whose timestamp was
\* lost while it was written counts as none.
StaleIsSynced ==
  [][StartsUp /\ stored /\ enabled
     /\ (~stamp.readable \/ now - done >= 2 * (interval * DayHours + 2))
       => sync' = "runs"]_vars

\* It does not sync by itself before the interval and an hour have passed.
FreshIsKept ==
  [][StartsUp /\ stamp.readable /\ sync' = "runs"
       => now - done >= 2 * (interval * DayHours + 1)]_vars
=============================================================================
