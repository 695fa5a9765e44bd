\* The time stamp, the download, the GNSS events and the shared memory.
\* Words of 4 digits to base 4; 2 seconds of 2 ticks around the start of a
\* download of 4 bytes in reads of up to 2; the memory in its real layout.
\* The services come to an end, so a state without successor is no error.
SPECIFICATION Spec
CONSTANTS
  Base = 4
  Epoch = 131
  Times = {0, 1, 27, 124, 125, 126, 127, 128, 129, 200, 255, 256, 257, 381, 512}
  None = None
  Request = 3
  File = 4
  Chunk = 2
  UsPerSec = 2
  PerKilo = 3
  UintMod = 64
  MaxTime = 5
  MaxFrames = 2
  MaxEvents = 2
  Callers = {t1, t2, ipc}
  Sizes = {1, 3, 8}
  MaxChunks = 3
INVARIANTS ServicesInv TimeExplained RequestExplained SpeedRight FixSound ZoneSound
CHECK_DEADLOCK FALSE
