SPECIFICATION Spec
CONSTANTS
  Structured <- MCStructured
  Texts <- MCTexts
  MaxText = 5
  Callee <- MCCallee
  Macros <- MCMacros
  Labels = {"a", "b"}
  Implied = 0
  UndoEnabled = FALSE
  MaxDepth = 2
INVARIANTS MeansItsStructure
PROPERTIES Terminates GotosAreDirect
CONSTRAINT FewEffects
