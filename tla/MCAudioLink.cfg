\* A call may end the program.
CHECK_DEADLOCK FALSE
SPECIFICATION Spec
CONSTANTS
  mono = mono
  stereo = stereo
  r1 = r1
  r2 = r2
  NULL = NULL
  SoundIOs = {mono, stereo}
  Readers = {r1, r2}
  ChannelsOf <- Channels
  Capacities = {0, 5}
  UseChannels = {0, 1}
INVARIANTS LinksAgree NoDanglingLink BufferFits
