--------------------------- MODULE MCCurveLockstep ---------------------------
EXTENDS CurveLockstep
MCMaxU128 == 2^15 - 1
MCMaxU256 == 2^30 - 1
=============================================================================
