--------------------------- MODULE MCMatchOverlay ---------------------------
\* A goal, a correction below zero, banners that last one second or two.
EXTENDS MatchOverlay
TwoFonts == {"small", "large"}
ScoreDeltas == {-2, 1}
BannerDurations == {1, 2}
=============================================================================
