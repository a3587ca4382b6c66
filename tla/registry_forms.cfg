SPECIFICATION Spec
CONSTANTS
    Browsers = {b1, b2}
    Emails = {e1, e2}
    Urls <- MCUrls
    MaxSubmits = 2
    MaxCalls = 2
SYMMETRY Symmetry
INVARIANTS TypeOK OneRowPerPage OwnersAgree SuccessIsComplete LookupSparesConflict
CHECK_DEADLOCK FALSE
