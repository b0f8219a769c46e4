-------------------------- MODULE MCSceneCompression --------------------------
\* Instances of SceneCompression for TLC: folders and editors are interchangeable.
EXTENDS SceneCompression, TLC

CONSTANTS folder1, folder2, editor

MCSymmetry == Permutations(Folders)

=============================================================================
