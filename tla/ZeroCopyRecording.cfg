SPECIFICATION ZCSpec
CONSTANTS
  Recorder = recorder
  Readers = {recorder, pool}
  Cleaner = cleaner_thread
  Capacity = 3
  PopLimit = 1
  PopNum = 3
  PopDen = 4
  ChunkLimit = 2
  MaxTs = 6
  MaxRecords = 2
  PayloadSize = 3
  Alignment = 2
  ChunkSize = 2
INVARIANTS
  RecorderReadsLive
  RecordingUnbroken
  LeavingDataIsRecorded
  
PROPERTIES
  RecordingEnds
