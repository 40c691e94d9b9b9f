SPECIFICATION Spec
CONSTANTS
    Reads = 5
    ButtonReads = 2
INVARIANTS
    OneShutdownCommand
