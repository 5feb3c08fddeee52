--------------------------- MODULE MCBlockingQueue ---------------------------
EXTENDS BlockingQueue

MCConds == {"notEmpty"}
=============================================================================
