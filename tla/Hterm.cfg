SPECIFICATION Spec
CHECK_DEADLOCK FALSE
CONSTANTS
 Streams <- MCStreams
 Sizes <- MCSizes
 Samples <- MCSamples
 Columns = 4
 TabWidth = 2
 MaxString = 4
 MaxWrites = 4
 MaxResizes = 1
INVARIANTS
 CursorSound
 CellsAgree
 PiecesAgree
 TextKept
 WordSelected
