CONSTANTS
    Nothing = Nothing
    KeepTail = 2
    PlaceholderSize = 3
    Requests <- MCRequests
    Routes <- MCRoutes
    Bodies <- MCBodies
    Fragments <- MCFragments
    Statuses = {403, 404, 429}
    MaxBytes = 9
SPECIFICATION Spec
CHECK_DEADLOCK FALSE
INVARIANTS TypeOK CompressionFits SameConversation AnswerKept StatusTrue ChunkingInvisible
