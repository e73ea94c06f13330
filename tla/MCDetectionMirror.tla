------------------------- MODULE MCDetectionMirror -------------------------
EXTENDS DetectionMirror
=============================================================================
