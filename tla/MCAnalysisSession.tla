-------------------------- MODULE MCAnalysisSession --------------------------
EXTENDS AnalysisSession
MCDocs == 1 .. 2
MCConns == 1 .. 2
=============================================================================
