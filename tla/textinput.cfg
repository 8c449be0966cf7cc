SPECIFICATION Spec
CONSTANTS
  Character <- MCCharacter
  Alnum = {"a", "A", "b", "c", "d", "f", "l", "u"}
  Upper <- MCUpper
  Lower <- MCLower
  MaxUndoBufSize = 3
  Width = 3
  Cells = 23
  Session <- MCSession
  Keys <- MCKeys
  Entries <- MCEntries
  MaxKeys <- MCMaxKeys
  MaxLine = 8
  Prompt <- MCPrompt
CHECK_DEADLOCK FALSE
INVARIANTS
  DisplayShows
  PasteRestores
  EntryOK
