SPECIFICATION ContentPartsSpec
CONSTANTS
  Imports = {i1, i2}
  MaxDownloads = 2
  MaxTranscriptions = 2
  Second = 2
  ChunkSeconds = 2
  MaxSeconds = 4
  Durations = {3, 5, 9, 10}
  MaxLines = 4
  ChunkLines = 3
  Letters = {x, y}
  Gap = g
  MaxText = 4
  MaxTokens = 3
  MaxToken = 2
  Lookups = {l1, l2}
  MaxLookups = 3
  MaxLosses = 2
  Videos = {v1, v2}
  Importers = {m1, m2}
  BatchSize = 2
  Concurrency = 1
  MaxRows = 3
  Releases = {r1, r2}
  Nothing = none
  MaxStarts = 3
SYMMETRY Alike
INVARIANTS
  TypesOK
  AudioTypeOK
  ContentTypeOK
  BackfillTypeOK
  StatusKeepsVerdict
  TranscriptWhole
  LinesInPlace
  SpansHoldTokens
  StoresAgree
  MetadataOfItsRow
  RunningIsRecorded
CHECK_DEADLOCK FALSE
