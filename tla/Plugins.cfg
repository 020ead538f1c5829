SPECIFICATION MCFairSpec
CONSTANTS
  a = a
  b = b
  p1 = p1
  p2 = p2
  p3 = p3
  u1 = u1
  u2 = u2
  u3 = u3
  r1 = r1
  None = None
  Unreadable = Unreadable
  Torn = Torn
  Part = {"reload", "store"}
  Name <- MCName
  Installable <- MCInstallable
  Upload <- MCUpload
  Signed <- MCSigned
  Remover <- MCRemover
  Inst <- MCInst
  Files <- MCFiles
  MaxEdits = 2
INVARIANTS
  OneOwner
  FileDecides
  FilesMatchTheList
PROPERTIES
  StopStartsNothing
  ChangeIsLoaded
\* The process ends.
CHECK_DEADLOCK FALSE
