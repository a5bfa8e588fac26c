SPECIFICATION Spec
CONSTANT Nil = Nil
INVARIANTS  FighterAgrees WearAgrees WhispersAnswered
 
CHECK_DEADLOCK FALSE
