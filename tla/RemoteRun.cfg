SPECIFICATION Spec
 
PROPERTIES StopEndsTheRun ContextIsDestroyed
CHECK_DEADLOCK FALSE
