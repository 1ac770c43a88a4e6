SPECIFICATION Spec
CONSTANT MaxQueue = 1
INVARIANT SurvivesOutage
