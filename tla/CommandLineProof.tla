-------------------------- MODULE CommandLineProof --------------------------
(***************************************************************************)
(* The question of clear-runtime, quitting and the popups, for any set of  *)
(* texts and any completions.                                              *)
(***************************************************************************)
EXTENDS CommandLine, SubsequenceProof

\* The inductive invariant: the three properties, and what the steps of the
\* command line need to know of a process that has ended.
CommandInv ==
  /\ confirm_pending \in BOOLEAN
  /\ mode = "off" => popup = "none"
  /\ QuestionIsLastCommand
  /\ PopupOverTree
  /\ QuitIsNotBlocked

\* A program that was never started asks nothing.
LEMMA CommandInit == Init => CommandInv
  BY DEF Init, CommandInv, QuestionIsLastCommand, PopupOverTree,
         QuitIsNotBlocked

\* clear-runtime has no space, so it is not the "cwe <id>" of a row.
LEMMA NoRowForClear == "clear-runtime" \notin Found
<1>1. 8 \in DOMAIN Candidates /\ Candidates[8] = "clear-runtime"
  BY DEF Candidates
<1>2. "clear-runtime" # CweText
  BY DEF CweText
<1>3. QED
  BY <1>1, <1>2, CommandAssumption

\* The empty text is none of the candidates.
LEMMA NoTextIsNoCommand ==
  /\ NoText \notin {"q", "quit", "sync", CweText, "print-cwes", "show-config"}
  /\ NoText \notin {"rest-api", "clear-runtime", "yes", "no"}
BY Zenon DEF NoText, CweText

\* A command, run with no popup in the way, leaves the invariant true.
LEMMA CommandKeeps ==
  ASSUME NEW cmd, CommandInv, popup = "none", on_command(cmd)
  PROVE  CommandInv'
<1> USE DEF CommandInv, QuestionIsLastCommand, PopupOverTree, QuitIsNotBlocked
<1>1. CASE QuitCommand(cmd)
  BY <1>1 DEF QuitCommand, on_command
<1>2. CASE AnswerCommand(cmd)
  BY <1>2 DEF AnswerCommand, on_command
<1>3. CASE OtherCommand(cmd)
  BY <1>3, NoRowForClear DEF OtherCommand, on_command
<1>4. QED
  BY <1>1, <1>2, <1>3 DEF on_command

\* Every key, callback and start of the program keeps the invariant.
LEMMA CommandNext == CommandInv /\ [Next]_vars => CommandInv'
<1> SUFFICES ASSUME CommandInv, [Next]_vars PROVE CommandInv'
  OBVIOUS
<1> USE DEF CommandInv, QuestionIsLastCommand, PopupOverTree, QuitIsNotBlocked
<1>1. CASE OpenLine
  BY <1>1 DEF OpenLine, Browsing
<1>2. CASE Edit
  BY <1>2 DEF Edit
<1>3. CASE NextCompletion \/ PreviousCompletion
  BY <1>3 DEF NextCompletion, PreviousCompletion, Select
<1>4. CASE EnterKey
  <2>1. popup = "none"
    BY <1>4 DEF EnterKey
  <2>2. CASE \E cmd : on_command(cmd)
    BY <2>1, <2>2, CommandKeeps
  <2>3. CASE mode' = "Tree" /\ UNCHANGED <<confirm_pending, popup, executed>>
    BY <1>4, <2>3 DEF EnterKey
  <2>4. QED
    BY <1>4, <2>2, <2>3 DEF EnterKey
<1>5. CASE Escape
  BY <1>5 DEF Escape
<1>6. CASE ClosePopup
  BY <1>6 DEF ClosePopup
<1>7. CASE BrowseKey
  BY <1>7 DEF BrowseKey, Browsing
<1>8. CASE QuitKey
  BY <1>8, CommandKeeps DEF QuitKey
<1>9. CASE SyncReports
  BY <1>9 DEF SyncReports
<1>10. CASE Launch
  BY <1>10, NoTextIsNoCommand DEF Launch
<1>11. CASE UNCHANGED vars
  BY <1>11 DEF vars
<1>12. QED
  BY <1>1, <1>2, <1>3, <1>4, <1>5, <1>6, <1>7, <1>8, <1>9, <1>10, <1>11
     DEF Next

\* CommandInv holds in every reachable state.
THEOREM CommandInductive == Spec => []CommandInv
<1>1. QED
  BY CommandInit, CommandNext, PTL DEF Spec

\* The question of clear-runtime is open exactly until the next command.
THEOREM QuestionEndsWithNextCommand == Spec => []QuestionIsLastCommand
<1>1. CommandInv => QuestionIsLastCommand
  BY DEF CommandInv
<1>2. QED
  BY <1>1, CommandInductive, PTL

\* A popup never lies over an open command line or an opened CWE.
THEOREM PopupsOverTree == Spec => []PopupOverTree
<1>1. CommandInv => PopupOverTree
  BY DEF CommandInv
<1>2. QED
  BY <1>1, CommandInductive, PTL

\* q and quit end the process, whatever question is open.
THEOREM QuitAlwaysQuits == Spec => []QuitIsNotBlocked
<1>1. CommandInv => QuitIsNotBlocked
  BY DEF CommandInv
<1>2. QED
  BY <1>1, CommandInductive, PTL

\* No step but a command, typed or run by the quit key, deletes files.
LEMMA OnlyCommandsDelete ==
  ASSUME [Next]_vars, runtime_files, ~runtime_files'
  PROVE  mode # "off" /\ \E cmd : on_command(cmd)
<1>1. EnterKey \/ QuitKey
  <2>1. ~UNCHANGED runtime_files
    OBVIOUS
  <2>2. Next
    BY <2>1 DEF vars
  <2>3. QED
    BY <2>1, <2>2
       DEF Next, OpenLine, Edit, NextCompletion, PreviousCompletion, Select,
           Escape, ClosePopup, BrowseKey, SyncReports, Launch
<1>2. QED
  BY <1>1 DEF EnterKey, QuitKey

\* Only a yes right after clear-runtime deletes files.
THEOREM FilesNeedConfirmation == Spec => ClearIsConfirmed
<1> DEFINE Deleted == runtime_files /\ ~runtime_files'
           Confirmed == executed = "clear-runtime" /\ executed' = "yes"
<1>1. ASSUME CommandInv, [Next]_vars, Deleted PROVE Confirmed
  <2>1. PICK cmd : on_command(cmd)
    BY <1>1, OnlyCommandsDelete
  <2>2. AnswerCommand(cmd)
    BY <1>1, <2>1 DEF on_command, QuitCommand, OtherCommand
  <2>3. QED
    BY <1>1, <2>2, <2>1, OnlyCommandsDelete
       DEF AnswerCommand, on_command, CommandInv, QuestionIsLastCommand
<1>2. CommandInv /\ [Next]_vars => [Deleted => Confirmed]_vars
  BY <1>1
<1>3. QED
  BY CommandInductive, <1>2, PTL DEF ClearIsConfirmed, Spec

-----------------------------------------------------------------------------
(* Types: whatever is completed, selected and run.                         *)

\* The completions of a text are texts, none of them empty.
LEMMA CompletionsTyped ==
  ASSUME NEW i \in Input
  PROVE  UpdateCompletions(i) \in Seq(Input \ {NoText})
<1>1. Candidates \in Seq(Input \ {NoText})
  <2> DEFINE T == {"q", "quit", "sync", CweText, "print-cwes", "show-config",
                   "rest-api", "clear-runtime", "yes", "no"}
  <2>1. Candidates \in Seq(T) /\ Len(Candidates) = 10
    BY DEF Candidates
  <2>2. /\ Candidates[1] = "q" /\ Candidates[2] = "quit"
        /\ Candidates[3] = "sync" /\ Candidates[4] = CweText
        /\ Candidates[5] = "print-cwes" /\ Candidates[6] = "show-config"
        /\ Candidates[7] = "rest-api" /\ Candidates[8] = "clear-runtime"
        /\ Candidates[9] = "yes" /\ Candidates[10] = "no"
    BY DEF Candidates
  <2>3. \A n \in 1 .. 10 : Candidates[n] \in Input
    <3>1. DOMAIN Candidates = 1 .. 10
      BY <2>1
    <3>2. QED
      BY <3>1, CommandAssumption
  <2>4. T \subseteq Input
    BY <2>2, <2>3
  <2>5. NoText \notin T
    BY NoTextIsNoCommand
  <2>6. T \subseteq Input \ {NoText}
    BY <2>4, <2>5
  <2> HIDE DEF T
  <2>7. QED
    BY <2>1, <2>6, SeqMonotonic
<1>2. CASE i \in Word
  <2> DEFINE A == {c \in Input : <<i, c>> \in Prefix}
  <2> HIDE DEF A
  <2>1. Keep(Candidates, A) \in Seq((Input \ {NoText}) \cap A)
    BY <1>1, KeepTyped
  <2>2. Keep(Candidates, A) \in Seq(Input \ {NoText})
    BY <2>1, SeqMonotonic
  <2>3. QED
    BY <1>2, <2>2 DEF UpdateCompletions, A
<1>3. CASE i \notin Word
  BY <1>3, CommandAssumption DEF UpdateCompletions
<1>4. QED
  BY <1>2, <1>3

\* A command leaves the types alone.
LEMMA CommandTyped ==
  ASSUME TypeOK, NEW cmd \in Input, on_command(cmd)
  PROVE  /\ mode' \in Browsing \cup {"off", "Command"}
         /\ confirm_pending' \in BOOLEAN
         /\ popup' \in {"none", "config", "rest-api"}
         /\ status' \in {NoText, "confirm", "other"}
         /\ runtime_files' \in BOOLEAN
         /\ executed' \in Input
<1> USE DEF TypeOK, Browsing
<1>1. CASE QuitCommand(cmd)
  BY <1>1 DEF QuitCommand, on_command
<1>2. CASE AnswerCommand(cmd)
  BY <1>2 DEF AnswerCommand, on_command
<1>3. CASE OtherCommand(cmd)
  BY <1>3 DEF OtherCommand, on_command
<1>4. QED
  BY <1>1, <1>2, <1>3 DEF on_command

\* The completion that Tab or Shift+Tab puts in the place of the text.
LEMMA SelectTyped ==
  ASSUME TypeOK, NEW list \in Seq(Input \ {NoText}), list # << >>,
         NEW n \in Int, Select(list, n % Len(list)), mode = "Command",
         UNCHANGED mode
  PROVE  TypeOK'
<1>1. n % Len(list) \in 0 .. Len(list) - 1
  <2>1. Len(list) \in Nat /\ Len(list) > 0
    OBVIOUS
  <2>2. QED BY <2>1
<1>2. list[(n % Len(list)) + 1] \in Input
  BY <1>1
<1>3. QED
  BY <1>1, <1>2 DEF TypeOK, Select

\* Every key of command mode and every command keeps the types.
LEMMA TypesKept == TypeOK /\ [Next]_vars => TypeOK'
<1> SUFFICES ASSUME TypeOK, [Next]_vars PROVE TypeOK'
  OBVIOUS
<1> USE DEF TypeOK
<1>1. CASE OpenLine
  BY <1>1, CommandAssumption DEF OpenLine
<1>2. CASE Edit
  BY <1>2, CompletionsTyped DEF Edit
<1>3. CASE NextCompletion
  <2> DEFINE list == IF completions = << >> THEN UpdateCompletions(command_input)
                                            ELSE completions
             idx == IF completions = << >> THEN -1 ELSE completion_idx
  <2>1. list \in Seq(Input \ {NoText}) /\ idx + 1 \in Int
    BY CompletionsTyped
  <2>2. list # << >> /\ Select(list, (idx + 1) % Len(list)) /\ mode = "Command"
    BY <1>3 DEF NextCompletion
  <2>3. UNCHANGED mode
    BY <2>2 DEF Select
  <2>4. QED
    BY <2>1, <2>2, <2>3, SelectTyped
<1>4. CASE PreviousCompletion
  <2>1. /\ completions # << >> /\ mode = "Command"
        /\ Select(completions,
                  (completion_idx - 1 + Len(completions)) % Len(completions))
    BY <1>4 DEF PreviousCompletion
  <2>2. UNCHANGED mode
    BY <2>1 DEF Select
  <2>3. completion_idx - 1 + Len(completions) \in Int
    OBVIOUS
  <2>4. QED
    BY <2>1, <2>2, <2>3, SelectTyped
<1>5. CASE EnterKey
  <2> DEFINE cmd == IF completion_idx \in 0 .. Len(completions) - 1
                      THEN completions[completion_idx + 1]
                      ELSE command_input
  <2>1. cmd \in Input
    OBVIOUS
  <2>2. Trim[cmd] \in Input
    BY <2>1, CommandAssumption
  <2>3. /\ command_input' \in Input
        /\ completions' \in Seq(Input \ {NoText})
        /\ completion_idx' \in -1 .. Len(completions') - 1
    BY <1>5, CommandAssumption DEF EnterKey
  <2>4. CASE on_command(Trim[cmd])
    BY <2>2, <2>3, <2>4, CommandTyped
  <2>5. CASE ~on_command(Trim[cmd])
    BY <1>5, <2>3, <2>5 DEF EnterKey, Browsing
  <2>6. QED
    BY <2>4, <2>5
<1>6. CASE Escape
  BY <1>6, CommandAssumption DEF Escape, Browsing
<1>7. CASE ClosePopup
  BY <1>7 DEF ClosePopup, lineVars
<1>8. CASE BrowseKey
  BY <1>8 DEF BrowseKey, lineVars
<1>9. CASE QuitKey
  <2>1. "q" \in Input
    <3>1. 1 \in DOMAIN Candidates /\ Candidates[1] = "q"
      BY DEF Candidates
    <3>2. QED BY <3>1, CommandAssumption
  <2>2. QED
    BY <1>9, <2>1, CommandTyped DEF QuitKey, lineVars
<1>10. CASE SyncReports
  BY <1>10 DEF SyncReports, lineVars
<1>11. CASE Launch
  <2>1. NoText \in Input /\ << >> \in Seq(Input \ {NoText}) /\ Len(<< >>) = 0
    BY CommandAssumption
  <2>2. -1 \in -1 .. Len(<< >>) - 1
    BY <2>1
  <2>3. QED
    BY <1>11, <2>1, <2>2 DEF Launch, Browsing
<1>12. CASE UNCHANGED vars
  BY <1>12 DEF vars, lineVars
<1>13. QED
  BY <1>1, <1>2, <1>3, <1>4, <1>5, <1>6, <1>7, <1>8, <1>9, <1>10, <1>11, <1>12
     DEF Next

\* Types: the selected completion is one of the list, the list holds no empty
\* command, and whatever is run is a text the catalogue was asked about.
THEOREM CommandTypes == Spec => []TypeOK
<1>1. Init => TypeOK
  <2>1. NoText \in Input /\ << >> \in Seq(Input \ {NoText}) /\ Len(<< >>) = 0
    BY CommandAssumption
  <2>2. -1 \in -1 .. Len(<< >>) - 1
    BY <2>1
  <2>3. QED
    BY <2>1, <2>2 DEF Init, TypeOK
<1>2. QED
  BY <1>1, TypesKept, PTL DEF Spec
=============================================================================
