SPECIFICATION FairSpec
CONSTANTS
  a = a
  b = b
  Circuits = {a, b}
  Streams = {s1, s2}
  Hops = 3
  Cap = 1
  Uploads <- UploadsOfA
  Downloads <- DownloadsOfB
INVARIANT TypeOK
PROPERTY AllArrive
CHECK_DEADLOCK FALSE
