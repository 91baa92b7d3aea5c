SPECIFICATION Spec
INVARIANT IdentifiersUnique
CHECK_DEADLOCK FALSE
