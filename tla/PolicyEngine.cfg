CONSTANTS
  e1 = e1
  s1 = s1
  s2 = s2
  n1 = n1
  Evaluators <- MCEvaluators
  Configs <- MCConfigs
  StartConfigs <- MCStartConfigs
  Requests <- MCRequests
  Senders <- MCSenders
  Sigs <- MCSigs
  MaxReloads = 2
  MaxAudit = 2
SPECIFICATION Spec
INVARIANT DecisionFitsOnePolicy
INVARIANT RevokedIsDenied
INVARIANT Hl7FhirStaysRegional
INVARIANT AllowedIsPermitted
INVARIANT ListedIsEnforced
