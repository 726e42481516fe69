SPECIFICATION ToolSpec
CONSTANTS
  Commands <- MCCommands
  Inputs <- MCInputs
  Outputs <- Listed
  Dirs <- MCDirs
INVARIANT HeadersComplete
INVARIANT HeaderWhereAsked
PROPERTY OverwriteConfirmed
