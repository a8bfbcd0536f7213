---- MODULE MCFullyAsync ----
EXTENDS FullyAsync, TLC
====
