------------------------------ MODULE MCResume ------------------------------
EXTENDS Resume
=============================================================================
