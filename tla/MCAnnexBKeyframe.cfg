CONSTANT MaxPictures = 2
SPECIFICATION SplitSpec
INVARIANT KeyframeCarriesParameterSets
CHECK_DEADLOCK FALSE
