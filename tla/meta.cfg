SPECIFICATION Spec
CONSTANTS
  id = "id"
  Word = {"id"}
  Session <- MCSession
  Vocabulary <- MCVocabulary
  MaxInput = 7
CHECK_DEADLOCK FALSE
INVARIANTS
  KnowsWhatIsOpen
  PromptOK
  CommandIsNamed
