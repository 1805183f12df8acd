SPECIFICATION FairSpec
CONSTANTS
  File = {f1, f2}
  Extension = {png}
  Request = {q1, q2}
CONSTANT
  Mixes <- MCMixes
CHECK_DEADLOCK FALSE
INVARIANTS UploadedIsStored NoOrphans ReplacedRetired
PROPERTY Settles
