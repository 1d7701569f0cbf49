SPECIFICATION FairSpec
CONSTANTS
  Ups = {u1, u2}
  Sizes = {2}
  SoftLimit = 3
  MaxUpload = 2
  MaxBrowser = 1
  MaxCrashes = 1
  Waits = {w1}
  Comps = {c1, c2}
  MaxNames = 1
  NoChooser = NoChooser
CHECK_DEADLOCK FALSE
INVARIANT OnlyWholeFiles
INVARIANT OneOwner
PROPERTY UploadsKeepQuota
 
