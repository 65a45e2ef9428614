SPECIFICATION Spec
CONSTANT
  Programs <- AllPrograms
INVARIANT JoineesExist
 
