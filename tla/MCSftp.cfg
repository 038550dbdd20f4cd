SPECIFICATION SftpSpec
CONSTANTS
    Names = {"a", "b", "c"}
    MaxHandles = 2
    MaxRead = 2
    Batch = 2
    Chunk = 2
    Zero = "zero"
    Scenarios <- All
INVARIANTS Faithful
PROPERTY CleanRefusal
CHECK_DEADLOCK FALSE
