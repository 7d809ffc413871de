---------------------------- MODULE MCForeground ----------------------------
EXTENDS Foreground
=============================================================================
