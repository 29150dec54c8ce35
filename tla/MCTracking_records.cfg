CONSTANTS
  Trackers = {d1, d2}
  RowIds = {1, 2, 3}
  RecordRows = {1}
  Refused = {2}
  Batches = {1, 2, 3}
  ExportLimit = 2
  ChunkSize = 1
  SampleLimit = 1
INIT TrackInit
NEXT TrackNext
INVARIANTS RecordsArrive
CHECK_DEADLOCK FALSE
