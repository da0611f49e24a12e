SPECIFICATION FairSpec
CONSTANTS
  e = e a = a b = b
  Versions = {1, 2, 3}
  Schema <- MCSchema
  Settings = {e, a, b}
  NoRole = NoRole
  StartPaths = {"unified"}
  FirstFiles <- MCFirstFiles
  FirstVersion = 1
  Broken = {2}
  Offers <- MCOffers
  Pids = {p1, p2}
  MayFail = TRUE
  MayCrash = TRUE
  NoBinary = NoBinary NoBackup = NoBackup NoUpdate = NoUpdate
INVARIANTS TypeOK GoodKept SettingsKept
PROPERTY StartEnds
CHECK_DEADLOCK FALSE
