---------------------------- MODULE MCOrderTopic ----------------------------
EXTENDS OrderTopic, TLC
=============================================================================
