SPECIFICATION PipelineSpec
CONSTANTS
    f1 = f1
    w1 = w1
    w2 = w2
    None = None
    Feature = {f1}
    Worker = {w1, w2}
    DependsOn <- NoDependencies
    FixThreshold = 1
    Foreign = {}
    MaxCommits = 3
SYMMETRY TaskWorkers
PROPERTIES FixIsPushed
