----------------------------- MODULE MCRunStream -----------------------------
\* RunStream with one client that resumes with the id of its last event.
EXTENDS RunStream
=============================================================================
