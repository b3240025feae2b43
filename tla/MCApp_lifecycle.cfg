SPECIFICATION FairSpec
CONSTANTS
  udp = udp
  tcp = tcp
  cmd = cmd
  met = met
  Components = {udp, tcp}
  Listeners = {udp, tcp}
  Deaf = {udp}
  Command = cmd
  Metrics = met
  Names = {udp, tcp, cmd, met}
  Namings <- MCNamings
INVARIANTS TypeOK NoSpontaneousExit OneJobPerName PostRunWaits PanicNeedsStop
PROPERTIES StopEnds FailureEnds
