SPECIFICATION Spec
CONSTANT Throws = FALSE
PROPERTY AskedToEnd
