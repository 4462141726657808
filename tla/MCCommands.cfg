CONSTANTS
  Nil = Nil
  None = None
  MaxRounds = 2
  MaxDeletes = 1
  Cases <- MCUpCases
  Deletions <- MCDelCases
  Downloads <- MCDownloads
  Blank = Blank
  FileRequests <- MCFileRequests
  Absent = Absent
  DownloadRequests <- MCRequests
SPECIFICATION MCSpec
INVARIANTS
  NothingCreatedTwice
  DoneMeansWritten
  DeletesWhatIsNamed
  GeneratedNamesAll
  DownloadedAsFound
  SaysTheSame
