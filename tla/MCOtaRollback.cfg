SPECIFICATION Spec
CONSTANTS
    Images = {factory, a}
    Factory = factory
    NoImage = NoImage
    NSectors = 2
    MaxAttempts = 1
    SeqHalf = 2
PROPERTIES
    RollbackRestores
