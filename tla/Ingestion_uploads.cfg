SPECIFICATION MCSpec
CONSTANTS
  Pieces <- MCPieces
  Limit <- MCLimit
  MaxTries = 2
  MaxParagraphs = 3
  MaxTokens = 5
  MaxSize = 5
  Limits = {2, 20}
  Batch = 2
  Candidates = {a, b, c, d}
  RankOffset = 60
  MaxTopK = 2
INVARIANTS ReadyIsWhole IngestedOnce DeletedLeavesNothing
INVARIANTS ChunksTileTheText EmbeddingsAreTheirOwn NoBetterChunkIsMissed
PROPERTY Settles
CHECK_DEADLOCK FALSE
