-------------------------- MODULE MCGenerationQueue --------------------------
\* Instances of GenerationQueue for TLC: two rooms; the jobs of a room have the
\* odd keys, so that keys of the two rooms alternate.
EXTENDS GenerationQueue

CONSTANTS room1, room2

MCRooms == {room1, room2}
MCConvOf == [j \in Jobs |-> IF j % 2 = 1 THEN room1 ELSE room2]

MCOneRoom == [j \in Jobs |-> room1]
=============================================================================
