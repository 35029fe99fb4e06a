SPECIFICATION Spec
CONSTANTS
  IngressExs <- MCIngressExs
  Names <- MCNames
  Contexts <- MCContexts
  DHParams <- MCDHParams
  Takes <- MCTakes
  MaxUpdates = 2
  healthStatus = TRUE
INVARIANTS
  GeneratedHTTPAccepted
  PathsReachBackend
  DefaultBackendTakesRest
  CertificatesAreOwn
  SettingsStayApart
  HSTSTogether
