-------------------------- MODULE MCPostCommitQueue --------------------------
\* One generated turn with an asset link, a speech and a compression task, or fewer.
EXTENDS PostCommitQueue

CONSTANTS asset, speech, fold, turn1

MCKind == [t \in Task |-> CASE t = asset -> "asset" [] t = speech -> "tts"
                            [] OTHER -> "compression"]
MCTurnOf == [t \in Task |-> turn1]
=============================================================================
