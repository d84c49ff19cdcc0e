\* two sub-program names, three changes
CONSTANTS
    Subs = {"S1", "S2"}
    AddKinds = {"POS", "COMMENT", "JMP", "CALL"}
    MaxRows = 4
    MaxChanges = 3
SPECIFICATION Spec
INVARIANTS EditorInv JumpKeepsTargetApart
CHECK_DEADLOCK FALSE
