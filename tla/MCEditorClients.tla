--------------------------- MODULE MCEditorClients ---------------------------
EXTENDS EditorClients
MCUris == {"a", "b"}
MCHoverUris == {"a"}
MCUnsupported == {"b"}
=============================================================================
