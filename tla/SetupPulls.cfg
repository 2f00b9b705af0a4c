\* Violated: on a machine with little memory `wizard init --pull-models` pins the
\* smaller model in a fresh backend/.env, then finds it pinned and pulls nothing.
SPECIFICATION SetupSpec
CONSTANTS
    MaxVersion = 2
    Ports = {"default", "other"}
INVARIANT PullModelsPulls
CHECK_DEADLOCK FALSE
