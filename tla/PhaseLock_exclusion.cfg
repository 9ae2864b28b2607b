\* Two processes are enough to have both inside the phase; the third lets the
\* state space show the stale-lock way in as well.
CONSTANTS
    Proc = {p1, p2, p3}
    NoProc = NoProc
SPECIFICATION Spec
SYMMETRY AnyProcess
INVARIANT MutualExclusion
