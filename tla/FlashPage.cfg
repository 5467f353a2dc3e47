SPECIFICATION Spec
CONSTANT RetryCount = 1
INVARIANT FlashesProvided
CHECK_DEADLOCK FALSE
