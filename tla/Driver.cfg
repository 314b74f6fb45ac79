\* Changes enough for main and the loop to publish different attributes.
CONSTANT MaxVersion = 3
SPECIFICATION FairSpec
INVARIANT TypeOK
INVARIANT HelperOutlivesUsers
PROPERTY SliceMovesForward
PROPERTY FatalErrorEnds
CHECK_DEADLOCK FALSE
