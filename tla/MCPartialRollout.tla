---- MODULE MCPartialRollout ----
EXTENDS PartialRollout, TLC
====
