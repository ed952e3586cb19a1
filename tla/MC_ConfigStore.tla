--------------------------- MODULE MC_ConfigStore ---------------------------
EXTENDS ConfigStore
CONSTANTS d, x, y
MCDefault == [k \in Keys |-> d]
=============================================================================
