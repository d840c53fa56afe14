--------------------------- MODULE AutoSyncProof ---------------------------
(***************************************************************************)
(* The configuration and the decision to sync, for any configuration file, *)
(* any clock and any length of day and interval.                           *)
(***************************************************************************)
EXTENDS AutoSync, TLAPS

\* What the code makes of the first n lines: the switch is true as the last of
\* its lines says, and on without one; the interval is that of the last line
\* that holds a number, brought into the range, and the default without one.
ConfigAfter(n) ==
  /\ Given("auto_sync_enabled", n) = {} => enabled
  /\ \A i \in 1 .. n :
       LastOf("auto_sync_enabled", n, i)
         => enabled = (lines[i].value \in TrueWords)
  /\ Given("auto_sync_interval_days", n) = {} => interval = DefaultInterval
  /\ \A i \in 1 .. n :
       LastOf("auto_sync_interval_days", n, i)
         => interval = Clamp(lines[i].value)

\* What is known of the configuration while it is read: the loop invariant of
\* load_config().
ConfigInv ==
  /\ pc # "off" => ConfigAfter(line)
  /\ pc = "running" => line = Len(lines)

\* What the timestamp and the time about to be written are worth: the time of
\* their sync, or an hour more.
StampInv ==
  /\ stamp.readable => stamp.local \in {done, done + 2}
  /\ sync = "stamps" => taken \in {done, done + 2}
  /\ pc # "running" => sync = "no"

AutoSyncInv == TypeOK /\ ConfigInv /\ StampInv

-----------------------------------------------------------------------------
\* The program starts from any state of the clock with nothing read, stored or
\* stamped.
LEMMA AutoSyncInit == Init => AutoSyncInv
<1> SUFFICES ASSUME Init PROVE AutoSyncInv
  OBVIOUS
<1> USE DEF Init
<1>1. TypeOK
  <2>1. << >> \in Seq(Line) /\ Len(<< >>) = 0
    OBVIOUS
  <2>2. 0 \in Time /\ DefaultInterval \in 1 .. MaxInterval
    BY AutoSyncAssumption DEF Time
  <2>3. NoStamp \in [readable : BOOLEAN, local : Nat]
    BY DEF NoStamp
  <2>4. lines \in Seq(Line) /\ line \in 0 .. Len(lines)
    BY <2>1
  <2>5. summer \in BOOLEAN /\ enabled \in BOOLEAN /\ stored \in BOOLEAN
    OBVIOUS
  <2>6. now \in Time /\ done \in Time /\ taken \in Nat /\ interval \in 1 .. MaxInterval
    BY <2>2
  <2>7. stamp \in [readable : BOOLEAN, local : Nat]
    BY <2>3
  <2>8. QED
    BY <2>4, <2>5, <2>6, <2>7 DEF TypeOK
<1>2. ConfigInv /\ StampInv
  BY DEF ConfigInv, StampInv, NoStamp
<1>3. QED
  BY <1>1, <1>2 DEF AutoSyncInv

\* Clamping brings every integer into the range.
LEMMA ClampInRange ==
  ASSUME NEW d \in Int PROVE Clamp(d) \in 1 .. MaxInterval
  BY AutoSyncAssumption DEF Clamp

\* The next line of the file is one of the kinds there are, its value one of
\* its key.
LEMMA LineKinds ==
  ASSUME TypeOK, line < Len(lines)
  PROVE  /\ lines[line + 1].key = "auto_sync_interval_days"
              => lines[line + 1].value \in Int
         /\ line + 1 \in 0 .. Len(lines)
<1>1. lines[line + 1] \in Line /\ line + 1 \in 0 .. Len(lines)
  BY DEF TypeOK
<1>2. QED
  BY <1>1, AutoSyncAssumption DEF Line

\* Every step keeps the types.
LEMMA TypeNext == TypeOK /\ [Next]_vars => TypeOK'
<1> SUFFICES ASSUME TypeOK, [Next]_vars PROVE TypeOK'
  OBVIOUS
<1> USE DEF TypeOK
<1>1. CASE Pass
  BY <1>1 DEF Pass
<1>2. CASE Launch
  <2>1. PICK n \in 0 .. MaxLines : lines' \in [1 .. n -> Line]
    BY <1>2 DEF Launch
  <2>2. lines' \in Seq(Line) /\ line' \in 0 .. Len(lines')
    BY <2>1, <1>2, AutoSyncAssumption DEF Launch
  <2>3. QED
    BY <1>2, <2>2, AutoSyncAssumption DEF Launch
<1>3. CASE ReadEnabled
  BY <1>3, LineKinds DEF ReadEnabled, Reads
<1>4. CASE ReadInterval
  <2>1. lines[line + 1].value \in Int /\ line + 1 \in 0 .. Len(lines)
    BY <1>4, LineKinds DEF ReadInterval, Reads
  <2>2. interval' \in 1 .. MaxInterval
    BY <1>4, <2>1, ClampInRange DEF ReadInterval
  <2>3. QED
    BY <1>4, <2>1, <2>2 DEF ReadInterval, Reads
<1>5. CASE SkipLine
  BY <1>5, LineKinds DEF SkipLine, Reads
<1>6. CASE StartUp
  BY <1>6 DEF StartUp, configVars, clockVars
<1>7. CASE SyncCommand \/ StoreCategory \/ OpenFails \/ WriteFails
           \/ SyncFails \/ Stop
  BY <1>7 DEF SyncCommand, StoreCategory, OpenFails, WriteFails, SyncFails, Stop,
              configVars, clockVars
<1>8. CASE OpenStamp
  BY <1>8 DEF OpenStamp, Local, NoStamp, Time, configVars, clockVars
<1>9. CASE WriteStamp
  BY <1>9 DEF WriteStamp, Stamp, configVars, clockVars
<1>10. CASE UNCHANGED vars
  BY <1>10 DEF vars
<1>11. QED
  BY <1>1, <1>2, <1>3, <1>4, <1>5, <1>6, <1>7, <1>8, <1>9, <1>10 DEF Next

\* One more line with a key: it is the last of them so far.  Without it the
\* last one stays the last.
LEMMA OneMoreLine ==
  ASSUME NEW key, TypeOK, line < Len(lines)
  PROVE  /\ lines[line + 1].key # key => Given(key, line + 1) = Given(key, line)
         /\ lines[line + 1].key = key
              => Given(key, line + 1) = Given(key, line) \cup {line + 1}
  BY DEF Given, TypeOK

\* A line that the loop reads leaves ConfigAfter true of one line more.
LEMMA ConfigReads ==
  ASSUME TypeOK, pc = "config", line < Len(lines), ConfigAfter(line),
         ReadEnabled \/ ReadInterval \/ SkipLine
  PROVE  ConfigAfter(line)'
<1> DEFINE E == "auto_sync_enabled"  I == "auto_sync_interval_days"
<1>1. line' = line + 1 /\ lines' = lines /\ line \in Nat
  BY DEF ReadEnabled, ReadInterval, SkipLine, Reads, TypeOK
<1>2. CASE ReadEnabled
  <2>1. lines[line + 1].key = E /\ interval' = interval
        /\ enabled' = (lines[line + 1].value \in TrueWords)
    BY <1>2 DEF ReadEnabled, Reads
  <2>2. Given(E, line + 1) = Given(E, line) \cup {line + 1}
        /\ Given(I, line + 1) = Given(I, line)
    BY <2>1, OneMoreLine
  <2>3. \A i \in Given(E, line + 1) : LastOf(E, line + 1, i) => i = line + 1
    BY <2>2, <1>1 DEF LastOf, Given
  <2>4. QED
    BY <1>1, <2>1, <2>2, <2>3 DEF ConfigAfter, LastOf, Given
<1>3. CASE ReadInterval
  <2>1. lines[line + 1].key = I /\ enabled' = enabled
        /\ interval' = Clamp(lines[line + 1].value)
    BY <1>3 DEF ReadInterval, Reads
  <2>2. Given(I, line + 1) = Given(I, line) \cup {line + 1}
        /\ Given(E, line + 1) = Given(E, line)
    BY <2>1, OneMoreLine
  <2>3. \A i \in Given(I, line + 1) : LastOf(I, line + 1, i) => i = line + 1
    BY <2>2, <1>1 DEF LastOf, Given
  <2>4. QED
    BY <1>1, <2>1, <2>2, <2>3 DEF ConfigAfter, LastOf, Given
<1>4. CASE SkipLine
  <2>1. lines[line + 1].key \notin {E, I} /\ UNCHANGED <<enabled, interval>>
    BY <1>4 DEF SkipLine, Reads
  <2>2. Given(I, line + 1) = Given(I, line) /\ Given(E, line + 1) = Given(E, line)
    BY <2>1, OneMoreLine
  <2>3. QED
    BY <1>1, <2>1, <2>2 DEF ConfigAfter, LastOf, Given
<1>5. QED
  BY <1>2, <1>3, <1>4

\* Every step keeps the loop invariant.
LEMMA ConfigNext == TypeOK /\ ConfigInv /\ [Next]_vars => ConfigInv'
<1> SUFFICES ASSUME TypeOK, ConfigInv, [Next]_vars PROVE ConfigInv'
  OBVIOUS
<1>1. CASE Launch
  BY <1>1 DEF Launch, ConfigInv, ConfigAfter, Given, LastOf
<1>2. CASE ReadEnabled \/ ReadInterval \/ SkipLine
  <2>1. pc = "config" /\ pc' = "config" /\ line < Len(lines)
    BY <1>2 DEF ReadEnabled, ReadInterval, SkipLine, Reads
  <2>2. ConfigAfter(line)'
    BY <1>2, <2>1, ConfigReads DEF ConfigInv
  <2>3. QED
    BY <2>1, <2>2 DEF ConfigInv
<1>3. CASE Stop
  BY <1>3 DEF Stop, ConfigInv
<1>4. CASE StartUp
  BY <1>4 DEF StartUp, configVars, ConfigInv, ConfigAfter, Given, LastOf
<1>5. CASE Pass \/ SyncCommand \/ StoreCategory \/ OpenStamp \/ OpenFails \/ WriteStamp
           \/ WriteFails \/ SyncFails \/ UNCHANGED vars
  <2>1. UNCHANGED <<lines, line, enabled, interval, pc>>
    BY <1>5 DEF Pass, SyncCommand, StoreCategory, OpenStamp, OpenFails,
                WriteStamp, WriteFails, SyncFails, vars, configVars
  <2>2. QED
    BY <2>1 DEF ConfigInv, ConfigAfter, Given, LastOf
<1>6. QED
  BY <1>1, <1>2, <1>3, <1>4, <1>5 DEF Next

\* Every step keeps what the timestamp is worth.
LEMMA StampNext == TypeOK /\ StampInv /\ [Next]_vars => StampInv'
<1> SUFFICES ASSUME TypeOK, StampInv, [Next]_vars PROVE StampInv'
  OBVIOUS
<1> USE DEF StampInv
<1>1. CASE Pass
  BY <1>1 DEF Pass
<1>2. CASE Launch
  BY <1>2 DEF Launch
<1>3. CASE ReadEnabled \/ ReadInterval \/ SkipLine
  BY <1>3 DEF ReadEnabled, ReadInterval, SkipLine, Reads
<1>4. CASE StartUp
  BY <1>4 DEF StartUp
<1>5. CASE SyncCommand \/ StoreCategory \/ OpenFails \/ WriteFails
           \/ SyncFails \/ Stop
  BY <1>5 DEF SyncCommand, StoreCategory, OpenFails, WriteFails, SyncFails, Stop
<1>6. CASE OpenStamp
  BY <1>6 DEF OpenStamp, NoStamp, Local
<1>7. CASE WriteStamp
  BY <1>7 DEF WriteStamp, Stamp
<1>8. CASE UNCHANGED vars
  BY <1>8 DEF vars
<1>9. QED
  BY <1>1, <1>2, <1>3, <1>4, <1>5, <1>6, <1>7, <1>8 DEF Next

\* AutoSyncInv holds in every reachable state.
THEOREM AutoSyncInductive == Spec => []AutoSyncInv
<1>1. AutoSyncInv /\ [Next]_vars => AutoSyncInv'
  BY TypeNext, ConfigNext, StampNext DEF AutoSyncInv
<1>2. QED
  BY AutoSyncInit, <1>1, PTL DEF Spec

-----------------------------------------------------------------------------
\* Every reachable state is well typed, the interval in its range.
THEOREM AutoSyncTyped == Spec => []TypeOK
<1>1. AutoSyncInv => TypeOK
  BY DEF AutoSyncInv
<1>2. QED
  BY AutoSyncInductive, <1>1, PTL

\* What the code makes of a whole file is what the file says.
LEMMA WholeFile ==
  ASSUME TypeOK, ConfigAfter(Len(lines))
  PROVE  SwitchIsFile /\ IntervalIsFile
<1> DEFINE n == Len(lines)
<1>1. SwitchIsFile
  <2> SUFFICES ASSUME NEW i \in Given("auto_sync_enabled", n), ValidSwitch(i),
                      LastOf("auto_sync_enabled", n, i)
               PROVE  enabled <=> lines[i].value \notin FalseWords
    BY DEF SwitchIsFile, ConfigAfter
  <2>1. enabled = (lines[i].value \in TrueWords)
    BY DEF ConfigAfter, Given
  <2>2. lines[i].value \in TrueWords <=> lines[i].value \notin FalseWords
    BY AutoSyncAssumption DEF ValidSwitch
  <2>3. QED
    BY <2>1, <2>2
<1>2. IntervalIsFile
  <2> SUFFICES ASSUME NEW i \in Given("auto_sync_interval_days", n),
                      ValidInterval(i),
                      LastOf("auto_sync_interval_days", n, i)
               PROVE  interval = lines[i].value
    BY DEF IntervalIsFile, ConfigAfter
  <2>1. interval = Clamp(lines[i].value)
    BY DEF ConfigAfter, Given
  <2>2. Clamp(lines[i].value) = lines[i].value
    BY AutoSyncAssumption DEF ValidInterval, Clamp
  <2>3. QED
    BY <2>1, <2>2
<1>3. QED
  BY <1>1, <1>2

\* For every configuration file the program runs with what each key's valid
\* lines say.
THEOREM ConfigurationIsRead == Spec => []ConfigIsFile
<1>1. AutoSyncInv => ConfigIsFile
  BY WholeFile DEF AutoSyncInv, ConfigInv, ConfigIsFile
<1>2. QED
  BY AutoSyncInductive, <1>1, PTL

\* The age of a timestamp in hours against a bound: not an hour is missing
\* when two hours more have passed, and one has passed when it counts.
LEMMA AgeInHours ==
  ASSUME NEW then \in Nat, NEW local \in {then, then + 2}, NEW t \in Nat,
         NEW bound \in Nat
  PROVE  /\ t - then >= 2 * (bound + 2) => Hours(local, t) > bound
         /\ Hours(local, t) > bound => t - then >= 2 * (bound + 1)
<1>1. CASE t >= local
  BY <1>1 DEF Hours
<1>2. CASE t < local
  BY <1>2 DEF Hours
<1>3. QED
  BY <1>1, <1>2

\* The interval in hours.
LEMMA BoundIsNat == TypeOK => interval * DayHours \in Nat
  BY AutoSyncAssumption DEF TypeOK

\* Only StartUp starts up; what it decides.
LEMMA StartUpDecides ==
  ASSUME AutoSyncInv, [Next]_vars, StartsUp
  PROVE  /\ sync' = "runs" <=> stored /\ enabled /\ SyncNeeded
         /\ stamp.readable
              => /\ now - done >= 2 * (interval * DayHours + 2) => SyncNeeded
                 /\ SyncNeeded => now - done >= 2 * (interval * DayHours + 1)
<1>1. StartUp
  BY DEF StartsUp, Next, Pass, Launch, ReadEnabled, ReadInterval, SkipLine,
         Reads, SyncCommand, StoreCategory, OpenStamp, OpenFails, WriteStamp,
         WriteFails, SyncFails, Stop, vars
<1>2. sync = "no"
  BY DEF AutoSyncInv, StampInv, StartsUp
<1>3. CASE ~stamp.readable
  BY <1>1, <1>2, <1>3 DEF StartUp
<1>4. CASE stamp.readable
  <2>1. /\ done \in Nat /\ now \in Nat
        /\ stamp.local \in {done, done + 2}
        /\ interval * DayHours \in Nat
    BY <1>4, BoundIsNat DEF AutoSyncInv, TypeOK, StampInv, Time
  <2>2. /\ now - done >= 2 * (interval * DayHours + 2)
             => Hours(stamp.local, now) > interval * DayHours
        /\ Hours(stamp.local, now) > interval * DayHours
             => now - done >= 2 * (interval * DayHours + 1)
    BY <2>1, AgeInHours
  <2>3. QED
    BY <1>1, <1>2, <1>4, <2>2 DEF StartUp, SyncNeeded
<1>5. QED
  BY <1>3, <1>4

\* Two hours after the interval a start syncs by itself, however long day and
\* interval are.
THEOREM StaleCatalogueIsSynced == Spec => StaleIsSynced
<1> DEFINE A == StartsUp /\ stored /\ enabled
                /\ (~stamp.readable
                    \/ now - done >= 2 * (interval * DayHours + 2))
                  => sync' = "runs"
<1>1. AutoSyncInv /\ [Next]_vars => [A]_vars
  BY StartUpDecides DEF SyncNeeded
<1>2. QED
  BY AutoSyncInductive, <1>1, PTL DEF Spec, StaleIsSynced

\* Before the interval and one hour more it does not.
THEOREM FreshCatalogueIsKept == Spec => FreshIsKept
<1> DEFINE A == StartsUp /\ stamp.readable /\ sync' = "runs"
                  => now - done >= 2 * (interval * DayHours + 1)
<1>1. AutoSyncInv /\ [Next]_vars => [A]_vars
  BY StartUpDecides
<1>2. QED
  BY AutoSyncInductive, <1>1, PTL DEF Spec, FreshIsKept
=============================================================================
