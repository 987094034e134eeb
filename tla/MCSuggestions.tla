---------------------------- MODULE MCSuggestions ----------------------------
EXTENDS Suggestions

FiveFields == <<"fee", "rate", "cap", "note", "kind">>
AllButKind == {"fee", "rate", "cap", "note"}
WithMarket == {"fee", "rate", "cap"}
WithHistory == {"fee", "note", "kind"}
FeeAndRate == {"fee", "rate"}
FeeAndNote == {"fee", "note"}
HistoryBands == [size : {2, 5, 10}, value : {4}] \cup [size : {10}, value : {None}]
MarketBands == [confidence : {1, 5, 7}, value : {4, 6}] \cup [confidence : {7}, value : {None}]
=============================================================================
