SPECIFICATION Spec
CONSTANTS
    Digits = 2
    Units = 3
    ChunkBits = 2
    Variables <- MCVariables
    Times <- MCTimes
    Waveform <- MCWaveform
    Cursors <- MCCursors
    Spans = {0, 79, 9901}
    MaxHandles = 2
CHECK_DEADLOCK FALSE
INVARIANTS HandlesTile ExtractsOwn ShownIsValue  ShownIsExact
