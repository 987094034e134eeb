---------------------------- MODULE MCRunJournal ----------------------------
\* RunJournal with three concurrent transactions and one resume cursor.
EXTENDS RunJournal
=============================================================================
