---------------------------- MODULE CommandLine ----------------------------
(***************************************************************************)
(* The command line: command mode with its completions in RootLayout       *)
(* (src/ui/Layout.cpp), the on_command callback and the Escape handler of  *)
(* App::run, the two popups and clear_runtime_files (src/app/App.cpp).     *)
(*                                                                         *)
(* The keys of the other modes are module Browse, of which only the mode   *)
(* changes are kept here, and a sync is module Sync.  "Text" is Search or  *)
(* Filter mode.  A text is a member of Input; what the code asks of its    *)
(* characters is in Word, Prefix and Trim.                                 *)
(***************************************************************************)
EXTENDS Subsequence

\* The empty text, also the status line without a message.
NoText == ""

\* The completion that wants the id of a weakness behind it.
CweText == "cwe "

\* The candidates of update_completions(), in its order.
Candidates ==
  <<"q", "quit", "sync", CweText, "print-cwes", "show-config", "rest-api",
    "clear-runtime", "yes", "no">>

CONSTANTS
  Input,       \* the texts that may stand in the command line, with "" and
               \* the candidates
  Word,        \* those without a space
  Prefix,      \* pairs <<i, c>>: c starts with i
  Trim,        \* Trim[i]: i without the spaces around it
  SearchCwes,  \* SearchCwes[i]: the completions of "cwe <text>"
  Found        \* the texts "cwe <id>" for which the catalogue has a row

ASSUME CommandAssumption ==
  /\ NoText \in Word /\ Word \subseteq Input
  /\ \A i \in DOMAIN Candidates : Candidates[i] \in Word \cup {CweText}
  /\ CweText \in Input \ Word
  /\ Prefix \subseteq Input \X Input
  /\ Trim \in [Input -> Input]
  /\ SearchCwes \in [Input -> Seq(Input \ {NoText})]
  /\ Found \subseteq Input \ Word

VARIABLES
  mode,            \* "Command" or a mode of Browsing; "off": no process
  command_input,
  completions,
  completion_idx,  \* from 0; -1: none
  confirm_pending, \* App::clear_runtime_confirm_pending_
  popup,           \* the popup shown, or "none"
  status,          \* status_message: "", the question of clear-runtime
                   \* ("confirm"), or "other"
  runtime_files,   \* is there anything of logs, tmp, cache on disk?
  executed         \* history: the last command of this process

\* The modes other than Command.
Browsing == {"Tree", "Detail", "Notification", "Text"}

lineVars == <<command_input, completions, completion_idx>>
vars == <<mode, lineVars, confirm_pending, popup, status, runtime_files,
          executed>>

-----------------------------------------------------------------------------
(* Commands: the on_command callback, given a trimmed text.                *)

\* q and quit come before everything else.
QuitCommand(cmd) ==
  /\ cmd \in {"q", "quit"}
  /\ mode' = "off"
  /\ confirm_pending' = FALSE
  /\ UNCHANGED <<popup, status, runtime_files>>

\* Mutant of AnswerCommand: no question is needed.
AnswerUnasked(cmd) ==
  /\ \/ cmd = "yes" /\ runtime_files' \in {FALSE, runtime_files}
     \/ cmd = "no" /\ UNCHANGED runtime_files
  /\ mode' = "Tree"
  /\ confirm_pending' = FALSE
  /\ status' = "other"
  /\ UNCHANGED popup

\* yes and no answer a pending question.  Deleting stops at the first error.
AnswerCommand(cmd) ==
  /\ confirm_pending
  /\ \/ cmd = "yes" /\ runtime_files' \in {FALSE, runtime_files}
     \/ cmd = "no" /\ UNCHANGED runtime_files
  /\ mode' = "Tree"
  /\ confirm_pending' = FALSE
  /\ status' = "other"
  /\ UNCHANGED popup

\* Everything else, and yes and no without a question.  The command cancels a
\* pending question before it runs.
OtherCommand(cmd) ==
  /\ cmd \notin {"q", "quit"}
  /\ ~(confirm_pending /\ cmd \in {"yes", "no"})
  /\ \/ /\ cmd = "show-config"
        /\ popup' = "config"
        /\ mode' = "Tree"
        /\ confirm_pending' = FALSE
        /\ status' = IF confirm_pending THEN "other" ELSE status
     \/ /\ cmd = "rest-api"
        /\ popup' = "rest-api"
        /\ mode' = "Tree"
        /\ confirm_pending' = FALSE
        /\ status' = IF confirm_pending THEN "other" ELSE status
     \/ /\ cmd = "clear-runtime"
        /\ mode' = "Tree"
        /\ confirm_pending' = TRUE
        /\ status' = "confirm"
        /\ UNCHANGED popup
     \/ /\ cmd \in Found
        /\ mode' = "Detail"
        /\ confirm_pending' = FALSE
        /\ status' = NoText
        /\ UNCHANGED popup
     \/ \* sync, print-cwes, an unknown id, an unknown command
        /\ cmd \notin Found \cup {"show-config", "rest-api", "clear-runtime"}
        /\ mode' = "Tree"
        /\ confirm_pending' = FALSE
        /\ status' = "other"
        /\ UNCHANGED popup
  /\ UNCHANGED runtime_files

\* Mutant of on_command: a pending question waits for yes or no.
InsistOnAnswer(cmd) ==
  /\ IF confirm_pending /\ cmd \notin {"yes", "no"}
       THEN mode' = "Tree" /\ status' = "confirm"
              /\ UNCHANGED <<confirm_pending, popup, runtime_files>>
       ELSE QuitCommand(cmd) \/ AnswerCommand(cmd) \/ OtherCommand(cmd)
  /\ executed' = cmd

\* Mutant of on_command: another command does not cancel the question.
KeepQuestion(cmd) ==
  /\ IF confirm_pending /\ cmd \notin {"q", "quit", "yes", "no"}
       THEN mode' = "Tree" /\ status' = "other"
              /\ UNCHANGED <<confirm_pending, popup, runtime_files>>
       ELSE QuitCommand(cmd) \/ AnswerCommand(cmd) \/ OtherCommand(cmd)
  /\ executed' = cmd

on_command(cmd) ==
  /\ QuitCommand(cmd) \/ AnswerCommand(cmd) \/ OtherCommand(cmd)
  /\ executed' = cmd

-----------------------------------------------------------------------------
(* Keys.                                                                   *)

\* update_completions() for the text i.
UpdateCompletions(i) ==
  IF i \in Word THEN Keep(Candidates, {c \in Input : <<i, c>> \in Prefix})
                ELSE SearchCwes[i]

\* Mutant of OpenLine: the popup does not swallow the key.
OpenLineOverPopup ==
  /\ mode \in Browsing \ {"Text"}
  /\ mode' = "Command"
  /\ command_input' = NoText
  /\ status' = NoText
  /\ UNCHANGED <<completions, completion_idx, confirm_pending, popup,
                 runtime_files, executed>>

\* The : key.  It leaves completions and completion_idx as they are.
OpenLine ==
  /\ mode \in Browsing \ {"Text"}
  /\ popup = "none"
  /\ mode' = "Command"
  /\ command_input' = NoText
  /\ status' = NoText
  /\ UNCHANGED <<completions, completion_idx, confirm_pending, popup,
                 runtime_files, executed>>

\* Mutant of Edit: the selection is kept.
EditKeepsSelection ==
  /\ mode = "Command"
  /\ \E i \in Input :
       /\ i # NoText \/ command_input # NoText
       /\ command_input' = i
       /\ completions' = UpdateCompletions(i)
  /\ UNCHANGED <<completion_idx, mode, confirm_pending, popup, status,
                 runtime_files, executed>>

\* A character gives some non-empty text, a backspace any.
Edit ==
  /\ mode = "Command"
  /\ \E i \in Input :
       /\ i # NoText \/ command_input # NoText
       /\ command_input' = i
       /\ completions' = UpdateCompletions(i)
       /\ completion_idx' = -1
  /\ UNCHANGED <<mode, confirm_pending, popup, status, runtime_files,
                 executed>>

\* The completion at index i of list takes the place of the text.
Select(list, i) ==
  /\ completions' = list
  /\ completion_idx' = i
  /\ command_input' = list[i + 1]
  /\ UNCHANGED <<mode, confirm_pending, popup, status, runtime_files,
                 executed>>

\* Tab.
NextCompletion ==
  /\ mode = "Command"
  /\ LET list == IF completions = << >> THEN UpdateCompletions(command_input)
                                        ELSE completions
         idx == IF completions = << >> THEN -1 ELSE completion_idx
     IN list # << >> /\ Select(list, (idx + 1) % Len(list))

\* Shift+Tab.
PreviousCompletion ==
  /\ mode = "Command"
  /\ completions # << >>
  /\ Select(completions,
            (completion_idx - 1 + Len(completions)) % Len(completions))

\* Enter: the selected completion, or else the text, is the command.
EnterKey ==
  /\ mode = "Command"
  /\ LET cmd == IF completion_idx \in 0 .. Len(completions) - 1
                  THEN completions[completion_idx + 1]
                  ELSE command_input
     IN IF cmd # NoText
          THEN on_command(Trim[cmd])
          ELSE /\ mode' = "Tree"
               /\ UNCHANGED <<confirm_pending, popup, status, runtime_files,
                              executed>>
  /\ command_input' = NoText
  /\ completions' = << >>
  /\ completion_idx' = -1

\* Escape: the outer handler of App::run() takes every one.
Escape ==
  /\ mode # "off"
  /\ mode' = IF mode \in {"Command", "Detail"} THEN "Tree" ELSE mode
  /\ IF mode = "Command" THEN command_input' = NoText /\ UNCHANGED status
                         ELSE status' = NoText /\ UNCHANGED command_input
  /\ UNCHANGED <<completions, completion_idx, confirm_pending, popup,
                 runtime_files, executed>>

\* q over a popup.
ClosePopup ==
  /\ popup # "none"
  /\ popup' = "none"
  /\ UNCHANGED <<mode, lineVars, confirm_pending, status, runtime_files,
                 executed>>

\* Any other key: it may change the mode and the status line.
BrowseKey ==
  /\ mode \in Browsing
  /\ popup = "none"
  /\ mode' \in Browsing
  /\ status' \in {status, NoText, "other"}
  /\ UNCHANGED <<lineVars, confirm_pending, popup, runtime_files, executed>>

\* q in the tree runs the command q.
QuitKey ==
  /\ mode = "Tree"
  /\ popup = "none"
  /\ on_command("q")
  /\ UNCHANGED lineVars

\* A callback of the sync writes the status line.
SyncReports ==
  /\ mode # "off"
  /\ status' = "other"
  /\ UNCHANGED <<mode, lineVars, confirm_pending, popup, runtime_files,
                 executed>>

\* The next start of the program: the defaults of AppState and App; the
\* Logger makes a log file.
Launch ==
  /\ mode = "off"
  /\ mode' = "Tree"
  /\ command_input' = NoText
  /\ completions' = << >>
  /\ completion_idx' = -1
  /\ confirm_pending' = FALSE
  /\ popup' = "none"
  /\ status' = NoText
  /\ runtime_files' = TRUE
  /\ executed' = NoText

Init ==
  /\ mode = "off"
  /\ command_input = NoText
  /\ completions = << >>
  /\ completion_idx = -1
  /\ confirm_pending = FALSE
  /\ popup = "none"
  /\ status = NoText
  /\ runtime_files = FALSE
  /\ executed = NoText

Next ==
  \/ OpenLine \/ Edit \/ NextCompletion \/ PreviousCompletion \/ EnterKey
  \/ Escape \/ ClosePopup \/ BrowseKey \/ QuitKey
  \/ SyncReports \/ Launch

Spec == Init /\ [][Next]_vars

-----------------------------------------------------------------------------
(* Properties.                                                             *)

TypeOK ==
  /\ mode \in Browsing \cup {"off", "Command"}
  /\ command_input \in Input
  /\ completions \in Seq(Input \ {NoText})
  /\ completion_idx \in -1 .. Len(completions) - 1
  /\ confirm_pending \in BOOLEAN
  /\ popup \in {"none", "config", "rest-api"}
  /\ status \in {NoText, "confirm", "other"}
  /\ runtime_files \in BOOLEAN
  /\ executed \in Input

\* The question of clear-runtime is open exactly until the next command,
\* whatever that is: a yes never answers a question asked before some other
\* command.
QuestionIsLastCommand ==
  mode # "off" => (confirm_pending <=> executed = "clear-runtime")

\* Files are deleted only by a yes right after a clear-runtime of the same
\* process, whatever was opened, completed or escaped from in between.
ClearIsConfirmed ==
  [][runtime_files /\ ~runtime_files'
       => executed = "clear-runtime" /\ executed' = "yes"]_vars

\* A popup, which swallows every key but q, lies over the tree and never over
\* an open command line or a CWE that a command just opened.
PopupOverTree == popup # "none" => mode = "Tree"

\* App.cpp:87: "Never block quit commands behind a pending confirmation
\* state."
QuitIsNotBlocked == executed \in {"q", "quit"} => mode = "off"

\* README.md:73: "Close either popup with `Esc` or `q`."
EscapeClosesPopup == [][Escape => popup' = "none"]_vars
=============================================================================
