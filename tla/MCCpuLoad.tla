---------------------------- MODULE MCCpuLoad ----------------------------
EXTENDS CpuLoad
=============================================================================
