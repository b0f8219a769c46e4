SPECIFICATION Spec
CONSTANTS
    folder1 = folder1
    folder2 = folder2
    editor = editor
    Messages = {1, 2, 3}
    Folders = {folder1, folder2}
    Editors = {editor}
    MaxEdits = 2
SYMMETRY MCSymmetry
CHECK_DEADLOCK FALSE
INVARIANTS
    StoryInOrder
    CoveredByStory
PROPERTIES
    StoryKept
    DeletedStaysOut
