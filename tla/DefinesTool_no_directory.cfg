SPECIFICATION ToolSpec
CONSTANTS
  Commands <- MCCommands
  Inputs <- MCInputs
  Outputs <- Gone
  Dirs <- MCDirs
PROPERTY OverwriteConfirmed
