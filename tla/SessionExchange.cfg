SPECIFICATION MCSpec
CONSTANTS
  Heartbeat = Heartbeat
  Social = Social
  Cap = {Heartbeat, Social}
  Limits <- MCLimits
  Absent = Absent
INVARIANTS Consented MostRestrictive
PROPERTIES Completes ImplementsAgreement
CHECK_DEADLOCK FALSE
