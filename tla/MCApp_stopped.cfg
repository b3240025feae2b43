SPECIFICATION Spec
CONSTANTS
  udp = udp
  tcp = tcp
  cmd = cmd
  met = met
  Components = {udp, tcp}
  Listeners = {udp, tcp}
  Deaf = {udp}
  Command = cmd
  Metrics = met
  Names = {udp, tcp, cmd, met}
  Namings <- MCNamings
INVARIANT StoppedMeansStopped
