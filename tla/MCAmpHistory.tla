---------------------------- MODULE MCAmpHistory ----------------------------
EXTENDS AmpHistory
MCRampEnds == 0 .. MaxTime
=============================================================================
