--------------------------- MODULE MCQuestionnaire ---------------------------
EXTENDS Questionnaire, TLC

TwoPhases == <<<<"name", "fee">>, <<"cap">>>>
SummaryOrPricing == [f \in {"name", "fee", "cap"} |-> IF f = "cap" THEN "pricing" ELSE "summary"]
=============================================================================
