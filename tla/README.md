# A formal model of cwe-man

`cwe-man` is a terminal program that browses the CWE catalogue from a local
SQLite database and fills that database from the CWE REST API.  This directory
holds TLA+ modules translated from its source, the TLC configurations that
check them, and TLAPS proofs about them.  Paths below are relative to the
repository; `src/app/App.cpp` is the program's main class.

## Inventory of the system

| Part | State it keeps | Operations | Hard part |
|---|---|---|---|
| Sync worker (`src/api/Sync.cpp`) | locals of `Sync::run`; `sync_state.txt` | fetch view, categories, batches; upsert, link; stamp; complete | runs in a detached thread, is interrupted anywhere, stores row by row |
| REST client (`src/api/CweClient.cpp`) | a CURL handle | `get_view`, `get_category`, `get_weaknesses` | time-outs, early close, HTTP errors |
| Repository and database (`src/data/`) | tables `categories`, `cwes`, `cwe_categories`, `notifications` | upserts, link, queries | foreign keys, two threads on one connection, no transaction around a sync |
| App (`src/app/App.cpp`) | `sync_running_`, `clear_runtime_confirm_pending_`, `config_`, `AppState` | start-up, `start_sync`, `load_data`, `on_command`, popups, Escape, quit | callbacks posted by the worker, the order of start-up, destruction |
| AppState (`src/app/State.hpp`) | everything the panes show | none of its own | fields that refer to each other by index |
| Layout (`src/ui/Layout.cpp`) | `detail_scroll` | one handler for every key in six modes | indices kept across rebuilds, flags carried across modes, prefix counts that overflow |
| Pattern matching (`src/ui/Layout.cpp`) | none | `pattern_match`, `find_pattern_match` | a matcher of its own: `.`, `\C`, case; less than its comment promises |
| Tree pane (`src/ui/TreePane.cpp`) | none | `rebuild_visible_nodes`, rendering | reads rows by stored index |
| Detail pane (`src/ui/DetailPane.cpp`) | the offset, by reference | `wrap_text`, rendering, clamping | does wrapping end, is nothing lost, is the page full whatever the keys did before the frame |
| Configuration (`App::load_config`, `Sync::sync_needed`) | `config_`, `config.ini`, `sync_state.txt` | read lines, compare with the clock | bad values, a lost timestamp, daylight saving |
| Logging (`src/logging/`) | the open log file | write, rotate, `clear_runtime_files` | two threads, midnight, deletion of the directory under the open file |

How they interact.  The UI thread owns `AppState` and runs key events and
posted tasks one at a time.  `start_sync` starts a detached thread that runs
`Sync::run` on the *same* `Repository`; the thread reports through
`screen.Post`, and its completion task reloads `AppState` and clears
`sync_running_`.  The database and `sync_state.txt` survive the process, so a
crash anywhere leaves what the statements so far have written.  A key event
goes first to the outer handler in `App::run`, which takes every Escape, then
to the handler of `RootLayout`; a command line is handed back to
`App::run`'s `on_command`.

What makes each part correct:

* sync: one at a time, always reported, never half a sync behind a timestamp,
  links never dangle, content never gets older, a success shows the catalogue;
* browsing: rows are the tree of the state, cursor and matches are rows, the
  detail pane shows a stored CWE, filter flags fit the mode, no count passes
  through a text field, what is found is what the query means;
* command line: a question is about the last command, files are deleted only
  by a confirmed command, quit always quits, popups can be left;
* detail pane: lines fit, words stay whole, no character is lost, a page is
  full, a frame ends;
* configuration: the file decides, a stale catalogue is synced, a fresh one is not;
* logging: no line is lost, lines are in order and in the file of their day.

The code does not keep all of this: what it does instead is under "What the violated
properties mean" and "Known limits" below.

PROJECT.json lists the hazards with the line where each bites.

## Modules

| Module | What it is |
|---|---|
| `Catalog` | the three catalogue tables and their statements, as operators on a record |
| `Sync`, `MCSync` | the worker, the UI thread's part in a sync, crashes and restarts |
| `SyncJob` | what a sync promises, without threads, requests or messages: the abstract specification `Sync` implements |
| `Pattern` | the matcher of search and filter, and what its comment says a query means |
| `Browse`, `MCBrowse` | every key of the list modes over a catalogue that is being filled (extends `Catalog`, `Pattern` and `Subsequence`) |
| `CommandLine`, `MCCommandLine` | command mode, completions, `on_command`, popups, Escape |
| `LogFile`, `MCLogFile` | the log file between two threads, midnight and `:clear-runtime` |
| `WrapText` | `wrap_text`, one step per iteration |
| `DetailPane`, `MCDetailPane` | the detail pane's keys, counts and frames, which call `WrapText` |
| `AutoSync`, `MCAutoSync` | `load_config`, the age of the timestamp, the decision to sync at start-up |
| `Subsequence` | the loops and queries that keep the rows passing a test, in their order |
| `SyncProof` | types of `Sync`; the worker, its callbacks and `sync_running_`; the loops of `Sync::run` end |
| `SyncStoreProof` | what a sync has on disk; `Sync` implements `SyncJob` |
| `SubsequenceProof` | induction over numbers and sequences; what `Keep` returns |
| `BrowseProof` | the rows, the matcher, and the invariants of `Browse` |
| `CommandLineProof`, `LogFileProof`, `AutoSyncProof`, `DetailPaneProof` | the modules of these names |

Each module has, next to some definitions, one named "Mutant of ...": the same
definition with a plausible mistake.  They are not part of any specification;
replacing the definition by its mutant must make TLC find the property that
PROJECT.json names with it violated.

### Catalog

A row's text columns are one number, the *edition* of the upstream catalogue
its content came from; 0 is no row.  Every operator is one SQL statement, run
outside a transaction, so each is one atomic and durable step.  `LinkAllowed`
is `PRAGMA foreign_keys=ON`: `INSERT OR IGNORE` does not ignore a missing
referenced row.

### Sync

`job[w]` holds the locals of `Sync::run` on thread `w`; its `pc` names the next
request or statement.  The actions of the worker are `FetchView`,
`NextCategory`, `CategoryWithoutData`, `FetchCategory`, `FetchWeaknesses`,
`StoreWeakness`, `LinkWeakness`, `OpenStamp`, `WriteStamp`, `Complete` and
`Fail`, in the order of the code; a request and the statement that follows it
directly are one step, every two statements are two.  Writing the timestamp is
two steps because opening the file truncates it; a file that cannot be opened
keeps the old timestamp (the second disjunct of `OpenStamp`).  The actions of the UI thread are
`Launch` (constructor and `run` up to `Loop`), `EnterLoop`, `SyncCommand`,
`RunPost` and `Quit`.  In phase `teardown` the loop has returned and the
objects are being destroyed while the detached worker may still take steps;
`Exit` ends the process.  `Crash` ends it at any time.

`owed` and `stamped` are history variables: what the API told a worker to
store, and the `owed` of the worker that last wrote the timestamp.  A category
or a weakness that the API leaves out is not owed: the code skips it and still
calls the sync a success.

`SyncJob` has five variables and six actions: a job starts with the program or
later, stores (rows are only added or renewed, links join stored rows),
withdraws or writes a timestamp (only over a catalogue that holds what it
vouches for), reports once, and may be stopped at any moment.  `Sync` maps to it by
`Abstract == INSTANCE SyncJob WITH ...`: the outcome is `"running"` while
`sync_running_` is set, the promise is the `stamped` of the readable timestamp.

The library FTXUI is external.  The constant `EarlyPostsKept` says whether
`ScreenInteractive::Post` keeps a task posted before `Loop`; the version that
`CMakeLists.txt` pins (6.1.9) drops it, and the runs set it to FALSE.

### Browse

One action per key of `RootLayout`'s handler in tree, search, filter, detail
and notification mode, with `rebuild_visible_nodes` inside every action whose
handler calls it.  Indices count from 0 as in the code.  A row is hit
when `Pattern` finds the query in its label or its id; a text key makes the
query any other one of `Query`.  The count of weaknesses that the code appends
to a category's label is left out, and so is the status line.  `SyncStores`
(one row or link at a time) and `SyncSucceeds` are what a background sync does to
this state.

`count_pending` and `count_value` are the prefix count.  Sums go through `AsInt`,
two's complement at `IntMax`, as in `DetailPane`: ten digits wrap
(`count_value * 10 + d`), and `cursor_index + count` may (`src/ui/Layout.cpp:929`).
The minimum with the last row is then negative.

Reading `visible_nodes[i]` before the first row or beyond the last one is
undefined.  `Read` gives the outcomes of a read that returns (a row of an earlier
tree, since the vector is cleared and refilled in place, or memory that holds none,
`Junk`), `MatchAt` those of the same read of `filter_matches`, and `Dies` ends the
process.

The notification list is always empty, since nothing in the program calls
`insert_notification`, so its keys only end a count.

### CommandLine

The variables are those of command mode in `AppState`, the pending question of
`clear-runtime`, the popup, the status line as far as the question is on it,
and whether any runtime files exist.  A text is an element of a set; what the
code asks of its characters (does it contain a space, which candidates start
with it, what is it without surrounding spaces) are constants.  `executed` is
a history variable: the last command of the process.  Of the keys of the other
modes only the change of mode is kept (`BrowseKey`); they are module `Browse`.

### Pattern

`PatternEnd` is `pattern_match`, a recursive function of the positions in pattern
and text (curried: of the first, giving a function of the second); `CaseMark` is
the `\C` of a query.  `Found` is `find_pattern_match`, `PatternOf` and `CaseSensitive` what it takes
from the query.

`Meant` is not taken from the code but from the comment over it
(`src/ui/Layout.cpp:20`): ". (any char), ? (optional char), | (OR)".  A text is
meant if one of the alternatives between the bars is somewhere in it, where a
character that a `?` follows may be missing.  The code has neither operator: it
skips a `?` and takes `|` as itself.  So it finds no more than the comment
promises, all of it for a query without the two (`Simple`), and less for others;
`a|b` finds no `b`, and `ab?` no `a`.  `MCBrowse` has TLC compare the two on every
pattern and every text of up to three characters and evaluates these two queries;
`BrowseProof` proves both halves for all.  (An alternative that is empty, or whose
characters are all optional, is somewhere in every text but the empty one.)

### WrapText and DetailPane

`StartWrap` is the call (with the indent split off), `LastLine`, `BreakLine` and
`BreakThrows` are an iteration of the loop of `wrap_text`.  A line is the pair of
its first and last position in the paragraph; the code's lines are copies of these
characters behind the indent.  Widths are counted in bytes as in the code; what
a terminal makes of a multi-byte character is left out.

`DetailPane` has the keys of detail mode with their prefix counts, opening,
leaving and closing a CWE, `Ctrl+T` and a change of the terminal's size, and the
frame `RenderDetailPane` draws: `StartFrame`, per paragraph `StartParagraph` and
`WrapOn`, then `EndFrame`, which clamps `detail_scroll` by reference.  The
paragraphs of a CWE are a constant.  Every sum goes through `AsInt`,
two's complement at `IntMax` (signed overflow, which the compiled code wraps).
`keys`, `rising` and `drawn` are history variables.

### AutoSync

`Launch` opens `config.ini`, whatever it contains by now; `ReadEnabled`,
`ReadInterval` and `SkipLine` are one line each; `StartUp` is the decision in
`App::run`.  A word for the switch is one of the four for true, one that a reader
takes for off (`FalseWords`), or wrong.  Time is counted in half hours, so that `duration_cast<hours>` shows.
`Pass` sets the clock to any time and daylight saving to either value: the
timestamp is written in local time and read as standard time, so one written
in summer is an hour late.  The time zone itself does not change.  `OpenStamp`
and `WriteStamp` are the two steps of `write_sync_timestamp`, with `WriteFails`
and `Stop` in between; after `OpenFails` the file has the old timestamp.

### LogFile

`FileSink::write` on each thread is `Lock`, `ReadDate`, `Reopen` (when the UTC
date has changed) and `AppendLine` or `AppendFails`; `Midnight` may come between
any two.  The clock only goes forward: one that is set back to the day before is
not modelled.  `Open` is `stream_.open`, in the constructor and in a rotation: it
may fail at any time, and does without the directory, and nobody notices;
`write` then drops every line.  `clear_runtime_files` takes no lock: `ClearBegin`,
one `Unlink` per file, `RemoveDirectory`, `ClearFails`.  A stream on a deleted file
accepts lines that nobody sees.

`trouble` is the history of what excuses a loss: since the last open that
succeeded, an open or a write has failed, or a clear has deleted the file or the
directory in use.  `LinesKept` says that a line whose `write` returned without any
of these is on disk, and so that the next open that succeeds ends the losses.
`log_safety` has lines lost after each of the three as ordinary behaviours.

## Runs

| Run | Configuration | Result | Distinct states |
|---|---|---|---|
| sync_safety | `MCSyncSafety.cfg` | holds | 3.6 million |
| sync_liveness | `MCSyncLiveness.cfg` | holds | 0.68 million |
| sync_early_posts | `MCSyncEarlyPosts.cfg` | `SyncEnds` violated | |
| sync_quit | `MCSyncQuit.cfg` | `WorkerHasScreen` violated | |
| browse_safety | `MCBrowseSafety.cfg` | holds | 0.75 million |
| browse_cursor | `MCBrowseCursor.cfg` | `CursorOnARow` violated | |
| browse_filter_stale | `MCBrowseFilterStale.cfg` | `FilterMatchesMatch` violated | |
| command_safety | `MCCommandSafety.cfg` | holds | 14 thousand |
| command_popup_escape | `MCCommandPopup.cfg` | `EscapeClosesPopup` violated | |
| log_safety | `MCLogSafety.cfg` | holds | 0.44 million |
| detail_safety | `MCDetailSafety.cfg` | holds | 0.5 million |
| autosync | `MCAutoSync.cfg` | holds | 2.8 million |

`sync_safety` is two categories, two weaknesses, two upstream editions (the
second drops a category and a link), two worker slots, one id per batch, and
start-up sync on.  Crashes and restarts are unbounded.  Two categories are
enough for a sync to stop between two of them; two ids in batches of one make
the batch loop run twice; two worker slots let a second sync start if the
guard were missing (symmetric, so symmetry is used; not in the liveness runs).  Its
property `JobSpec` is the refinement of `SyncJob`.  `sync_liveness` is the first of these
editions with one worker slot; `WorkersGoForward` compares the locals
of `Sync::run` before and after a step in the order of its nested loops (`Further`).

`browse_safety` is two categories, one with two weaknesses and one with none, and a
query that finds a category by its id and the weaknesses by their labels and not
the other category.  One query is enough for the state: what a query finds is a function of
it, which `MCBrowse` compares with the comment for all short queries.  The category
that comes first by name may be stored last, so that a reload shifts the rows under
every mode.  Ints go up to 4 (`IntMax`), which is the number of rows, and the digits
are 4 and 5: a count of 4 is as large as an int gets, and overflows unless the cursor
(or the match) is the first; 5 wraps to a negative count; and every further digit
gives one of the two again.
`browse_cursor` and `browse_filter_stale` have a weakness in two categories, and
ints that no count in their counterexamples comes near.

`FoundIsMeant` says, whenever a search or a filter changes what it has found, that
no row is found which the query does not mean, and that none is missed if the query
has no `?` and no `|`.  `RowsAreKept` says by what the cursor or a match may come to
lie off the rows: a collapse under kept matches, or a count that overflows.

`command_safety` has all ten candidates, prefixes that complete to none, one
or several of them, and texts with spaces.

`log_safety` is two threads with two lines each over three days: two rotations,
so that a thread that read the date before midnight meets one that has
rotated.

`detail_safety` has paragraphs that need every way out of the loop (words that
must be split, spaces at the end, only spaces, an indent, an indent as wide as
the pane and one that is wider), two terminal sizes and a hidden tree (two text
widths, 4 and 6: the others are at the minimum), ints up to 31, the digits 0 and 3 (33 overflows), and up to three keys
between two frames (`MaxKeys`): a count survives a frame, so that `G` and `30j` overflow
the offset in between.

`autosync` has days of two hours, intervals below, in and above their range, a
word for on, one for off and a wrong one, files of up to two lines and a clock long
enough for the longest interval to pass with the hour of daylight saving.
`ConfigIsFile` says what the code and the README agree on: a key whose lines are all
valid has the value of the last one, or its default without one, and a wrong value of
one key costs the other nothing.

Deadlock is checked everywhere but in `detail_safety`, where the program may
end (`Die`).

### What the violated properties mean

* **SyncEnds** with start-up sync: `start_sync` is called before `Loop`.  A
  request that fails at once completes before the loop runs; the callback is
  dropped, `sync_running_` stays set, and `:sync` answers "Sync already in
  progress..." until the program is restarted.
* **WorkerHasScreen**: quitting during a sync destroys what the detached
  thread uses.
* **CursorOnARow**: matches of the last search
  survive a collapse; `n` then takes the cursor beyond the rows, and `o`, `x`,
  `h` or `l` reads there.  `RowsAreKept` (which holds) says that this, its like
  with the matches of a filter, and a count that overflows are the only ways.
* **FilterMatchesMatch**: the matches of a filter survive the reload at the end
  of a sync (and, after Escape out of a detail pane opened from a filter, a
  collapse).
* **EscapeClosesPopup**: the outer Escape handler shadows the inner one, which
  is the one that closes popups.

The same shadowing keeps Escape from leaving search, filter and notification mode
and from dropping completions (a Tab then continues with the old ones); these are
behaviours of the models without a run of their own.  So is this: nothing
deletes categories, weaknesses or links that are gone upstream.

### Known limits the models show

* `wrap_text` pushes empty lines for ever when a paragraph is indented exactly as
  wide as the pane, and throws when it is indented wider; `FrameEnds` holds only
  under `NoFullIndent`.
* A count of ten or more digits may wrap to zero or less, which `consume_count`
  takes for one.  A count near 2^31 overflows in `cursor_index + count` and in
  `current_idx + count`: the cursor goes before the first row, or the match before
  the first one is read.
* A digit typed in the detail pane, then Escape, then `j` in the tree uses that count:
  the Escape handler does not clear it.  `CountOnlyInLists` is about text fields.
* A completion left selected by Escape is taken by the next `:` and Enter.
* `?` and `|` do not do what the comment of `pattern_match` says (see Pattern).
* `config.ini` against "If the file is missing or contains invalid values, defaults
  are used" (`README.md:38`) and "Keep default." (`src/app/App.cpp:234`): a number out
  of range is clamped, a word that is none of the four for true is off, an interval
  that cannot be read leaves the value of an earlier line.  `ConfigAfter` in
  `AutoSyncProof` is what the code makes of every file.
* A log file that cannot be opened, at the start or at midnight, loses every line
  until the next day or the next start.
* A start-up sync never comes before the interval and an hour have passed, and
  always once two hours have: the age is truncated, compared with `>`, and an
  hour short for a timestamp written in summer.
* After `:clear-runtime` lines are lost until the next open in an existing directory,
  which only a restart creates.

### Fairness

`FairSpec` of `Sync`: weak fairness of a running worker's steps (each
request ends within `CURLOPT_TIMEOUT`, and every outcome of it is a step), of
`EnterLoop` and of `RunPost` (the loop runs what is posted).  Nothing is
assumed of the user, of what the API answers, or of crashes: the process may
crash forever, since `SyncEnds` only speaks of a `sync_running_` that stays set.

`FairSpec` of `DetailPane`: weak fairness of `Drawing`, the steps of a frame that
has begun.  A frame is one function call on the UI thread; nothing is assumed of
when the next one begins.

## Proofs

Every invariant and every action property of the passing runs is proved, and so
is the refinement of `SyncJob`, for every value of the constants that satisfies
the named assumptions: any catalogue, labels, queries and texts, any number of
threads, editions, days and lines, any sizes, clocks and int width.

1. `SyncProof`: `TypeCorrect`, `Spec => []TypeOK`.  The type of `job` also says
   which locals are set at which `pc`.  `OneWorker`, `QuietWhenIdle` and
   `SuccessShowsAll` are not inductive: `ThreadInv` adds that a completion in the
   queue is its last element and that no worker is alive then (`QueueShape`), and
   that the same holds while a success is on the status line (`SuccessState`);
   from that, clearing `sync_running_` on a completion never leaves a worker or a
   callback behind.

   `SyncGoesForward` (`WorkersGoForward`) is the safety half of `SyncEnds`.  Each
   step of `Sync::run` is in a later section, or has fewer members, ids or answers
   left, or has stored one; `LoopInv` says that a batch is asked for only while
   ids are left, so that it takes some off, and that the weakness being linked is one of the answer's.
   `SyncLoopsEnd` says that this order is well-founded, since the catalogue of an
   edition is finite (`SyncAssumption`).  With a step taken whenever one can be,
   which is what `Fairness` adds, the worker comes to its report.
2. `SyncStoreProof`: `LinksResolve` and `StampVouches` need an account of the
   worker.  `StoreInv` says of every `pc` which rows are already there
   (`EndsSound`), that nothing stored is newer than the answer being stored
   (`AnswerSound`), and that everything owed is stored or still on one of the
   worker's lists (`DebtSound`); at the timestamp the lists are empty.
   `CatalogueOnlyGrows` follows from `AnswerSound`: with one worker and one
   answer at a time an upsert can only write a newer edition.
   `SyncImplementsJob` (`Spec => JobSpec`) matches each action of `Sync` with an
   action of `SyncJob` or a stutter; that a report is made once and shows the
   whole catalogue needs `ThreadInv`, that rows and promises only grow needs
   `StoreInv`.
3. `CommandLineProof`: `CommandInv` (the question is open exactly after
   `clear-runtime`, a popup lies over the tree, after a quit command there is
   no process) is inductive for any set of texts and any completions;
   `ClearIsConfirmed` follows from it.  `CommandTypes` has the selection within
   the completions.
4. `LogFileProof`: any number of threads, days and lines.  `LogInv` adds to the
   properties that one thread is between `Lock` and the end of its line
   (`MutexInv`), that the stream's date lies between the call and today
   (`DateInv`), that the numbers on disk are below the thread's next
   (`NumberInv`), and which file a good stream writes to (`StreamInv`).
5. `AutoSyncProof`: any file, clock and length of days.  `ConfigInv` is the loop
   invariant of `load_config`: `ConfigAfter(line)`, what the code makes of the lines
   so far, right or wrong.  `WholeFile` takes `ConfigIsFile` from it.  `StampInv` says
   that a timestamp is the time of the sync that wrote it or an hour more.  The two
   action properties follow by arithmetic on truncated hours.
6. `DetailPaneProof`: any texts, any sizes, any int width.  `WrapInv` is the loop
   invariant of `wrap_text`: the lines lie between the indent and the rest,
   every place in between is on exactly one or is the space skipped after one,
   and in a text without double spaces the rest begins with a word.  `LinePushed`
   is the step common to both ways of pushing a line.  `StepIsWrapStep` shows that
   the pane uses `WrapText` as its own specification says
   (`PaneImplementsWrapText`), and `PaneInv` gives the types under overflow and
   `PageIsFull`.

   `ViewStaysDown` (`DownNeverUp`) needs more: that the lines of a text are a
   function of it, or a frame could be shorter than the one before and the clamp
   take the view up.  `Reached` is the set of locals a call can come to, the
   least one closed under the loop; since each step has one outcome
   (`MovesOnce`) and none follows the last line (`EndsStops`), two calls with the
   same arguments push as many lines (`PushesOnce`).  This asks nothing of whether
   the loop ends.  `ScrollInv` then says that the call under way is on that path,
   what the height of a frame is the sum of, and that without an event that may
   move up, the last frame was of the same CWE at the same size with the offset
   at or above its own.

   `FrameAdvances` is the safety half of `FrameEnds`: under `NoFullIndent` every
   step of a frame ends it, throws, goes on to the next paragraph, or leaves
   fewer characters of this one to wrap (`Rest`).
7. `SubsequenceProof`: the library's induction theorems take the property as an
   operator, which no prover here can instantiate.  With a set in its place, and
   a least counterexample (`Least`) as the argument, induction over numbers
   (`UpTo`), recursive functions (`Recursion`) and sequences (`SeqInduct`) are
   first-order.  From them: what `Keep` returns, that it respects `\o`, and that a
   larger set keeps no fewer.
8. `BrowseProof`: any catalogue, labels, queries and int width, any syncs under the
   view.  That the number of rows is an int is an assumption (`RowsFit`).

   `BrowseInv` has a part per concern.  `RowsShowTree` speaks of the rows alone
   and is not inductive: the rows were made of an earlier database than the one
   `rebuild_visible_nodes` will read next, and their categories of an earlier one
   still.  `TreeInv` names the two (`loaded`, `rebuilt`), both older than the present
   one, and has the rows be exactly `Rows` of them.  Rows of an older database are
   still a tree of the newer one since links are never deleted; rebuilding gives no
   fewer rows (`RowsMonotone`), which is what keeps the cursor on its match when a
   sync reloads the tree under a search: `SearchInv` adds that the cursor is a
   row while a query is typed.  `DbInv` (a link's weakness is stored) is what lets
   Enter open any row; `DetailInv` adds that an open CWE is stored in whatever
   mode, because `l` comes back to it.  `FilterInv` and `PaneInv` are inductive with
   their types.

   `FoundIsSound`: what `find_pattern_match` finds the query means, for every query
   and text.  `SimpleIsFound`: it finds what a query without `?` and `|` means.
   Both are inductions over the pattern, from its end, with the table of `PatternEnd`
   as a function (`IsTable`).  With them `BrowseFinds` (`FoundIsMeant`) says it of every
   handler that changes what is found, in the rows of that moment.

   `BrowseKeepsRows` (`RowsAreKept`) goes by what each step does to the number of
   rows (`RowsLost`: unless something is collapsed it does not fall, by
   `RowsMonotone` over a later database and more expanded categories) and to the
   cursor (`CursorKept`: it is clamped, on a header, on a match, or the sum overflows).

Two conventions keep the definitions within reach of the provers.  `Keep(s, A)`
has a set for its test where `SelectSeq` has an operator.  The texts that matter
(`NoText`, `CweText`, `CaseMark`) are named, so that a proof never opens a string
with a space or a backslash in it.

Only model-checked: `SyncEnds` and `FrameEnds`, since liveness is out of the
prover's reach (their safety halves are proved, see 1 and 6), and the runs that expect a violation.

## Plan

1. (done) `Catalog`, `Sync`, `SyncJob`: runs, proofs, refinement.
2. (done) `Browse`, `CommandLine`, `Pattern`: runs and proofs.
3. (done) `LogFile`, `WrapText`, `DetailPane`, `AutoSync`: runs and proofs.
4. (done) A variant for `wrap_text` and one for the worker, as the safety halves
   of `FrameEnds` and `SyncEnds`.
5. (done) What does hold of `CursorOnARow`: `RowsAreKept`.
6. The notification pane over a table that another program fills.

## Not modelled

Rendering (what the panes draw), the text of rows and of messages, JSON
parsing beyond "it fails or it does not", the positions of highlighted matches,
`print_cwes_markdown` (writes a file from one query), `get_version` and
`insert_notification` (never called; so the notification list stays empty), syslog.
Two processes on one database are not modelled; the failures they cause in one
of them are (`Fail`, `Crash`).
