SPECIFICATION FairSpec
CONSTANTS
    folder1 = folder1
    folder2 = folder2
    editor = editor
    Messages = {1, 2, 3}
    Folders = {folder1}
    Editors = {editor}
    MaxEdits = 1
CHECK_DEADLOCK FALSE
PROPERTIES
    MaintenanceRecovers
