---------------------------- MODULE MCIndexTasks ----------------------------
EXTENDS IndexTasks
=============================================================================
