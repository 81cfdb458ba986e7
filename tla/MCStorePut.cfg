CONSTANTS
  Keys = {1, 2}
  Values = {1, 2}
  Size <- SizeOneFour
  PageSize = 2
  FileLimit = 8
  STORE_INCREMENT = 2
  JunkSize = 12
  Faults = {"none", "mmap"}
  MaxKills = 0
  MaxWrites = 10
SPECIFICATION Spec
PROPERTY ImplementsKVStore
