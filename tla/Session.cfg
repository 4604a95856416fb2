SPECIFICATION Spec
CONSTANTS
  Totals = {0, 6, 7, 12}
  AudioBytes = 6
  VideoHeader = 2
  Formats <- OneFormat
  HostVideo = {TRUE, FALSE}
  VmVideo = {TRUE, FALSE}
  Leftover = {FALSE}
  MaxHostRuns = 1
  MaxVmRuns = 3
INVARIANTS TypeOK InitAlone RingsAgree FormatsAgree
PROPERTIES StreamPlayed AttachEnds
CHECK_DEADLOCK FALSE
