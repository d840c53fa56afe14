\* Every key of the command line, over several runs of the program.
SPECIFICATION Spec
CONSTANTS
  Input <- MCInput
  Word <- MCWord
  Prefix <- MCPrefix
  Trim <- MCTrim
  SearchCwes <- MCSearchCwes
  Found <- MCFound
INVARIANTS
  TypeOK
  QuestionIsLastCommand
  PopupOverTree
  QuitIsNotBlocked
PROPERTY
  ClearIsConfirmed
