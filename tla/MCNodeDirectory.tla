--------------------------- MODULE MCNodeDirectory ---------------------------
EXTENDS NodeDirectory

\* In the instances the times just fit: one tick less, and the entry of a
\* running relay would be swept.
ASSUME TimesJustFit ==
  Max2(BeatInterval, MaxRtt) + MaxStall + MaxRtt = StaleTimeout
=============================================================================
