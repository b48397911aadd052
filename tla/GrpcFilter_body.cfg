SPECIFICATION Spec
CONSTANTS
    Dockerfile = Dockerfile
    dockerfile = dockerfile
    readme = readme
    from = from
    edited = edited
    text = text
    Other = other
    Names = {Dockerfile, dockerfile, readme}
    Contents = {from, edited, text}
    Long = {edited}
    RecordNames = {Dockerfile, dockerfile}
    TarNames = {Dockerfile, dockerfile}
    Edit <- MCEdit
    Payloads <- MCPayloads
    MaxGRPCBuffer = 4
    Chunk = 3
    MaxMessages = 3
INVARIANTS TypeOK PassedInOrder TarEditedWhole CompleteAtEOF FramesWhole
PROPERTIES BodyEnds
CHECK_DEADLOCK FALSE
