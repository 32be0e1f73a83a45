---------------------------- MODULE MCTimeService ----------------------------
EXTENDS TimeService
=============================================================================
