SPECIFICATION FirmwareSpec
CONSTANTS
  Versions = {"v1"}
  Signatures = {"v1"}
  Chunks = 3
  MaxReads = 1
  Installs = {1, 2}
INVARIANT OneInstall
