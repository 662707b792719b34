CONSTANT Terminator = {t1, t2}
SPECIFICATION ClientSpec
INVARIANT ClientTypeOK
PROPERTIES
  CallsReturn
  ImplementsPort
CHECK_DEADLOCK FALSE
