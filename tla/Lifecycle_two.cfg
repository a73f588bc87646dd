\* Two instances on one device: everything may fail, everyone may be killed.
SPECIFICATION FairSpec
CONSTANTS
  None = None
  i1 = i1
  i2 = i2
  system = system
  bin = bin
  mnt = mnt
  sdcard = sdcard
  Names = {system, bin, mnt, sdcard}
  SdCard <- MCSdCard
  Instances = {i1, i2}
  Users <- MCUsers
  MountLists <- MCMountLists
  Places <- MCPlaces
  Files <- MCFiles
  Aboves <- MCAboves
  CanFail = TRUE
  CanCrash = TRUE
INVARIANTS
  TypeOK
  MountedConnected
  AccessAgrees
PROPERTIES
  CleanedUp
  TearDownEnds
CHECK_DEADLOCK FALSE
