CONSTANTS
  Kinds = {"Secret", "PersistentVolumeClaim", "Service", "ConfigMap", "Job", "StatefulSet", "Deployment", "DaemonSet", "Migration"}
  MaxEdits = 2
SPECIFICATION FairSpec
INVARIANT TypeOK
PROPERTY EventuallyQuiet
PROPERTY EventuallyAsGenerated
PROPERTY KeepsOthers
CHECK_DEADLOCK FALSE
