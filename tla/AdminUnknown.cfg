SPECIFICATION Spec
CONSTANTS
    Uids = {1}
    Gids = {11, 12, 13}
    Variable = "TZ_SYS_ADMIN_GROUP"
    Group = "system"
    MaxChanges = 1
    NULL = NULL
INVARIANT
    EveryCallAnswers
CHECK_DEADLOCK FALSE
