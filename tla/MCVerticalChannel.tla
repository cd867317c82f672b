-------------------------- MODULE MCVerticalChannel --------------------------
EXTENDS VerticalChannel
=============================================================================
