SPECIFICATION Spec
INVARIANTS TypeOK NoDanglingReference OwnTypesBuild RequiredIsDefined
CHECK_DEADLOCK FALSE
