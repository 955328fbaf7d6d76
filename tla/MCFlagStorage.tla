---------------------------- MODULE MCFlagStorage ----------------------------
EXTENDS FlagStorage, TLC

CONSTANTS on, off

MCShipped == [f \in Flags |-> off]

\* Everything on, and the two documents that are no map of flags; everything
\* off is what the demo is delivered with.
MCTyped == {[f \in Flags |-> on], NoFlags, NotAMap}
=============================================================================
