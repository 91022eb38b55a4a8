------------------------ MODULE MCCompactionWorker ------------------------
EXTENDS CompactionWorker
=============================================================================
