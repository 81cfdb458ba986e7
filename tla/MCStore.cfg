CONSTANTS
  Keys = {1, 2}
  Values = {1, 2}
  Size <- SizeOneFour
  PageSize = 2
  FileLimit = 8
  STORE_INCREMENT = 2
  JunkSize = 12
  Faults = {"none", "mmap", "fallocate", "realloc"}
  MaxKills = 1
  MaxWrites = 10
SPECIFICATION Spec
VIEW StoreView
INVARIANTS Tiling IndexMatchesFile Extent LookupCorrect
PROPERTIES GrowOnlyWhenFull FaultsOnlyInGrowth LossOnlyByFailedPut KillIsLocal
