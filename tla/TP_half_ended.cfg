SPECIFICATION Spec
CONSTANT
  Programs <- EndingPrograms
INVARIANT JoineesDespiteEnds
