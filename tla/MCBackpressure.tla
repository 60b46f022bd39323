--------------------------- MODULE MCBackpressure ---------------------------
EXTENDS Backpressure, TLC

CONSTANTS a, b

\* Circuit a uploads, circuit b downloads.
UploadsOfA == (a :> 2) @@ (b :> 0)
DownloadsOfB == (a :> 0) @@ (b :> 1)

\* One circuit with traffic both ways.
BothUp == a :> 4
BothDown == a :> 4
=============================================================================
