----------------------------- MODULE MCVideoJobs -----------------------------
EXTENDS VideoJobs
=============================================================================
