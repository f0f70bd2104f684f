SPECIFICATION Spec
INVARIANT RoundTrip Unambiguous PrintAccepts
CHECK_DEADLOCK FALSE
