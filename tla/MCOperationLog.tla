--------------------------- MODULE MCOperationLog ---------------------------
EXTENDS OperationLog
=============================================================================
