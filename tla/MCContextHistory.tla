--------------------------- MODULE MCContextHistory ---------------------------
\* Small models: one with a wide window, one with a narrow one, one whose completion
\* exceeds its window, one without metadata.  Longer histories, with every kind of reply and
\* with compress-now, are explored for one pair of models, which do not matter to how a
\* history is grouped; the other pairs take shorter histories of messages of two sizes.
EXTENDS ContextHistory

MCDefault == [window |-> 16, output |-> 4]
MCWide == [window |-> 20, output |-> 6]
MCNarrow == [window |-> 14, output |-> 2]
MCTiny == [window |-> 3, output |-> 5]
MCUnknown == [window |-> 0, output |-> 0]
MCLong == <<MCNarrow, MCNarrow>>
MCRoutes == {MCLong, <<MCWide, MCWide>>, <<MCWide, MCNarrow>>, <<MCNarrow, MCWide>>,
             <<MCWide, MCTiny>>, <<MCUnknown, MCNarrow>>, <<MCWide, MCUnknown>>}
MCBounds == [pair \in MCRoutes |->
    IF pair = MCLong
    THEN [messages |-> 5, sizes |-> {2}, kinds |-> {"job", "sync", "again", "legacy"}, compressNow |-> TRUE,
          tasks |-> {3, 6}, answers |-> FALSE]
    ELSE [messages |-> 4, sizes |-> {1, 4}, kinds |-> {"job", "sync"}, compressNow |-> FALSE,
          tasks |-> {}, answers |-> TRUE]]
=============================================================================
