\* What vp9_thread.h says of had_error.
CONSTANT SpuriousWakeups = FALSE
SPECIFICATION Spec
PROPERTY HadErrorIsLastResult
