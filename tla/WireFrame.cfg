SPECIFICATION WireSpec
CONSTANTS
    Cap = 48
    CountMod = 12
    MaxPayload = 21
    Tasks <- MCTasks
    RawLens = {0}
    Images <- MCImages
    MaxCmds = 10
INVARIANTS WireTypeOK BufferOK CountExact NothingMissing DecodesAll FieldsArrive 
