---------------------------- MODULE MCRecording ----------------------------
\* Two session configs, p and q; the thumbnail path of q names no image type.
EXTENDS Recording
Writers == {"p", "q"}
Extensionless == {"q"}
=============================================================================
