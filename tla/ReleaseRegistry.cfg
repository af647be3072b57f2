CONSTANTS
    MaxPipes = 3
    MaxRetries = 1
    Flaky = {"build", "packages"}
SPECIFICATION FairSpec
INVARIANTS  Released
PROPERTY PipelineEnds
CHECK_DEADLOCK FALSE
