--------------------------- MODULE MCToolDecisions ---------------------------
\* ToolDecisions with a call that writes, one that reads, and two requests at a
\* time.
EXTENDS ToolDecisions
=============================================================================
