CONSTANTS
    Issue = {1}
    PersonPr = {2}
    BotPr = {3}
    Person = {owner, visitor}
    Authorized = {owner}
    MaxEvents = 3
    None = None
SPECIFICATION Spec
CHECK_DEADLOCK FALSE
INVARIANT TypeOK
INVARIANT Confined
INVARIANT OwnPushGranted
