\* A full subscriber queue: an event that the page passes over.
SPECIFICATION StreamSpec
CHECK_DEADLOCK FALSE
CONSTANTS
    QueueSize = 2
    Unpublished = 2
    MaxEvent = 6
PROPERTIES
    StreamHasNoGap
