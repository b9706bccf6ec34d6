SPECIFICATION Spec
CONSTANTS
  Names <- LowerCase
  Containers <- LowerCase
  Folders <- LowerCase
  ContainerOf <- SameCase
  FolderOf <- SameCase
  MaxRequests = 3
  MaxCreates = 2
  MaxPort = 3
  Contested = {}
INVARIANT PortsDistinct
CHECK_DEADLOCK FALSE
