SPECIFICATION ChunkSpec
CONSTANTS
  Letter = Letter
  Blank = Blank
  NewLine = NewLine
  Mark = Mark
  Preamble = Preamble
  article1 = article1
  article2 = article2
  Articles <- TwoArticles
  Texts <- AllTexts
  Budgets <- TightBudgets
INVARIANTS
  EveryLetterCited
  CutsClean
  IdsConsecutive
