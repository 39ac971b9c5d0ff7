SPECIFICATION Spec
CONSTANT Unit = 1
INVARIANT OrderHonoured
PROPERTIES  Returns
