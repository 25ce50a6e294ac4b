------------------------------- MODULE MCScan -------------------------------
\* Model-checking instance of Scan: the channels to scan, and scenarios.
EXTENDS Scan

MCChans == <<2, 1>>
MCScenarios == {{"data", "cancel", "connect", "leave"}, {"connect", "error"}}
=============================================================================
