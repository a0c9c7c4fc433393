CONSTANTS
    None = None
    Client = {c1, c2}
    EditorTexts <- MCEditorTexts
    Updates <- MCUpdates
    Env <- MCEnv
    Resolutions = {"discovered", "explicit", "none"}
    MaxTomlInteger = 9999
    MaxEdits = 2
    MaxPuts = 2
    MaxFaults = 1
    MaxCrashes = 1
SPECIFICATION Spec
INVARIANTS StoreIsTheFile AcknowledgedIsAccountedFor
PROPERTIES OverwriteIsAccountedFor
SYMMETRY Symmetry
CHECK_DEADLOCK FALSE
