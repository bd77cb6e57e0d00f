SPECIFICATION FairScriptSpec
CONSTANTS
    MaxScripts = 2
    MaxScriptEdits = 2
    MaxScriptFaults = 1
INVARIANTS ScriptTypeOK
PROPERTIES KeepsOwner CronJobFollows StatusFollows
CHECK_DEADLOCK FALSE
