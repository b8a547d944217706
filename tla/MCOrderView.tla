---------------------------- MODULE MCOrderView ----------------------------
EXTENDS OrderView
=============================================================================
