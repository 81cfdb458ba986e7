CONSTANTS
  Keys = {1, 2}
  Values = {1, 2}
  Size <- SizeOneTwo
  PageSize = 2
  FileLimit = 8
  STORE_INCREMENT = 2
  JunkSize = 400
  Faults = {"none"}
  MaxKills = 1
  MaxWrites = 10
SPECIFICATION Spec
INVARIANT RestartRecovers
