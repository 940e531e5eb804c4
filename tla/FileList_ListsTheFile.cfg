SPECIFICATION FairSpec
CONSTANT MaxSize = 4
CHECK_DEADLOCK FALSE
PROPERTY ListsTheFile
