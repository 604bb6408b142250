---------------------------- MODULE MCLLMGateway ----------------------------
EXTENDS LLMGateway

\* One that serves every model, and one that serves its own default only.
TwoDeployments == {{"openrouter"}, {"openai"}}
=============================================================================
