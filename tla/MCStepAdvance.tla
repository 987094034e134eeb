---------------------------- MODULE MCStepAdvance ----------------------------
\* StepAdvance with the kinds of steps of the create_pricing_request contract.
EXTENDS StepAdvance
=============================================================================
