SPECIFICATION Spec
CONSTANTS
  None = None
INVARIANTS
  RepresentationsCompare
  AuditConfirms
  GateLetsOneThrough
  AllowsAsConfigured
