--------------------------- MODULE MCKeyedRequests ---------------------------
\* KeyedRequests with one key for each endpoint and three requests in all.
EXTENDS KeyedRequests
=============================================================================
