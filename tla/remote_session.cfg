\* Two objects: one deleted or left behind, and the one that takes its place; two
\* files are the fewest after a failed one.
CONSTANTS
  MaxClients = 2
  MaxFiles = 2
  Protocols = {"ftp", "smb", "nfs", "webdav", "index"}
SPECIFICATION Spec
INVARIANTS CalmSession DeletedOnlyInPanel ContextReleased
