SPECIFICATION FairSpec
CONSTANTS
  Names <- NamesInCase
  Containers <- LowerCase
  Folders <- NamesInCase
  ContainerOf <- InLower
  FolderOf <- AsTyped
  MaxRequests = 3
  MaxCreates = 2
  MaxPort = 2
  Contested = {1}
INVARIANT TypeOK
INVARIANT OkMeansServed
INVARIANT DeletedIsGone
INVARIANT OldOutlivesBuild
INVARIANT FolderLeftByFailure
INVARIANT ClashNeedsStopped
PROPERTY RequestsEnd
PROPERTY KeepsContract
\* Every request may have ended.
CHECK_DEADLOCK FALSE
