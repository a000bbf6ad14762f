----------------------------- MODULE MCStateTool -----------------------------
EXTENDS StateTool
CONSTANTS t1, t2, l1, r1
MCFirst == <<t1>>
=============================================================================
