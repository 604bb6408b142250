SPECIFICATION Spec
CONSTANTS
  Deployments <- TwoDeployments
  Required = {"score"}
  Optional = {"findings"}
  MaxTurns = 1
  MaxAttempts = 2
INVARIANTS
  AcceptedIsSound
  ParsersAgree
PROPERTIES
  AgentAnswers
