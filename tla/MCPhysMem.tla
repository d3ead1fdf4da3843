----------------------------- MODULE MCPhysMem ------------------------------
EXTENDS PhysMem
MCWord == 268435456
MCCounts == {1, 2}
None == {}
=============================================================================
