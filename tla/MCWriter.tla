------------------------------ MODULE MCWriter ------------------------------
EXTENDS Writer

CONSTANTS c, u1, d

MCCreate == {c}
MCUpdate == {u1}
MCDelete == {d}
=============================================================================
