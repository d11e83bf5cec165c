CONSTANTS
    local = local
    share = share
    none = none
    blank = blank
    malformed = malformed
    Jobs = {1, 2}
    Names = {local, share}
    Local = local
    NoTarget = none
    Blank = blank
    Malformed = malformed
    Environments <- SomeEnvironments
    Slots = 1

SPECIFICATION Spec
INVARIANTS TypeOK SettingsAreSound SchemaIsWhole AbandonedOnlyIfDropped
PROPERTIES RowsKeepTheirTarget
