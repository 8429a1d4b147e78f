CONSTANTS
    Callers = {c1, c2}
    DocKeys <- MCKeys
    Tokens <- MCTokens
    Cooldown = 2
    Life = 3
    Timeout = 1
    MaxTime = 4
    Nil = Nil
SYMMETRY CallerSymmetry
SPECIFICATION KeysSpec
PROPERTIES AttemptsSpaced KeyAgeBound RotationFound ErrorForCause
