SPECIFICATION Spec
CONSTANTS
  Totals = {12}
  AudioBytes = 6
  VideoHeader = 2
  Formats <- OneFormat
  HostVideo = {FALSE}
  VmVideo = {FALSE}
  Leftover = {TRUE}
  MaxHostRuns = 1
  MaxVmRuns = 1
PROPERTIES StreamPlayed
CHECK_DEADLOCK FALSE
