SPECIFICATION FairSpec
CONSTANT MaxQueue = 1
PROPERTY EnterExits
