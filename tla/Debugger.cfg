CONSTANTS
    f1 = f1  f2 = f2  f3 = f3  f4 = f4
    Frames = {f1, f2, f3, f4}
    Lines = {1, 2}
    Null = Null
    Running = Running
    MaxDepth = 3
SPECIFICATION Spec
INVARIANTS TypeOK PauseTargetLive StepOverStops
PROPERTIES EvaluationIsolated
