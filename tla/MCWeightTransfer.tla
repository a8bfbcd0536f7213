-------------------------- MODULE MCWeightTransfer --------------------------
EXTENDS WeightTransfer
=============================================================================
