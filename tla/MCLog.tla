------------------------------- MODULE MCLog -------------------------------
EXTENDS LogPipeline

MCTexts == <<[level |-> "info", line |-> <<"a", "x", "b">>],
             [level |-> "warn", line |-> <<"a", "b">>]>>
MCPrinted == {[level |-> "off", line |-> <<"b">>]}
MCSearches == {<<"a", "b">>}
MCOldLogs == 1..4
MCLockedLogs == {1}
=============================================================================
