SPECIFICATION Spec
CONSTANTS
    Obligations <- MCObligations
    Issuable <- MCIssuable
    Tests = {1, 2}
    Owners = {"owner"}
    Instants = {1}
    Updateable = {"name"}
    Archived <- MCArchived
    MaxTime = 1
    MaxChanges = 6
INVARIANTS CitedRecordsProve OneSessionProves PageIsByLatestVisit
 
CHECK_DEADLOCK FALSE
