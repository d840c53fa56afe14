\* Escape over a popup.
SPECIFICATION Spec
CONSTANTS
  Input <- MCInput
  Word <- MCWord
  Prefix <- MCPrefix
  Trim <- MCTrim
  SearchCwes <- MCSearchCwes
  Found <- MCFound
PROPERTY
  EscapeClosesPopup
