CONSTANTS
    Addrs = {"i", "x", "y", "bad"}
    Malformed = {"bad"}
    Deployments <- MCDeployments
    Requests = {r1}
SPECIFICATION LifecycleSpec
INVARIANTS CleanExit DrainedBeforeClose ListenersIsolated
PROPERTY Terminates
CHECK_DEADLOCK FALSE
