SPECIFICATION Spec
CONSTANTS
  Character <- MCCharacter
  Lexemes <- MCLexemes
  MaxLexemes = 3
INVARIANTS
  SplitAsWritten
