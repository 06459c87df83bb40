SPECIFICATION Spec
CONSTANTS
  NULL = NULL
  LocalName <- MCLocalName
  BadNames <- MCBadNames
  Malformed <- MCMalformed
  Rank <- MCRank
  Rows <- MCRows
  LikeTrue <- MCLikeTrue
  SpatialTrue <- MCSpatialTrue
  Exprs <- MCExprs
  LimitExprs <- MCLimitExprs
  Vocabulary <- MCVocabulary
  MaxTokens = 4
INVARIANTS TypeOK ReadAsMeant FrontEndsAgree NothingDropped SelectsWhatIsMeant
CHECK_DEADLOCK FALSE
