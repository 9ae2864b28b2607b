\* One console request at a time, no shell commands.
CONSTANTS
    Req = {r1}
    Cli = {}
    NoProc = NoProc
    Dead = Dead
    Phase = {"analyse", "deploy"}
    MaxLaunches = 2
SPECIFICATION Spec
PROPERTY AuditAppendOnly
CHECK_DEADLOCK FALSE
