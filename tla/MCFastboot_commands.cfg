SPECIFICATION Spec
CONSTANTS
    Images <- MCImages
    Sparse <- MCSparse
    Names <- MCNames
    Table <- MCTable
    Private <- MCPrivate
    Partitions <- MCPartitions
    MAX_DOWNLOAD_SIZE = 12
    MaxFaults = 1
    MaxChanges = 2
INVARIANTS
    OneAnswer
    AnyCutSameImage
PROPERTIES
    FlashedIsDownloaded
    LockedUntouched
