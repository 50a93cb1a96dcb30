SPECIFICATION FairSpec
CONSTANTS
  Commands <- AllCommands
  Pieces <- TwoPieces
  Window = 2
  Sizes = {0, 1, 3}
  Absent = Absent
INVARIANTS
  TypeOK
  DownloadIntact
  LocalNeverPartial
  UploadAsSent
  UploadAllOrNothing
  MissingSourceHarmless
PROPERTIES
  CommandEnds
  CarriedOut
