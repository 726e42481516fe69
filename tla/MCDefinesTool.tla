--------------------------- MODULE MCDefinesTool ---------------------------
(***************************************************************************)
(* Instances of the script: inputs of every kind; no -o at all, a          *)
(* directory, and paths in directories that exist (Listed) and in one that *)
(* does not (Gone).  A bare name, with no directory, is in neither: the    *)
(* script takes its directory for one that does not exist.                 *)
(***************************************************************************)
EXTENDS DefinesTool

MCCommands == {"frameCfg", "sensorStart"}
MCDirs == {"cwd", "include", "out"}

In(format, cmds, malformed, numeric) ==
  [format |-> format, cmds |-> cmds, malformed |-> malformed, numeric |-> numeric]

MCInputs ==
  {In(".cfg", MCCommands, {}, TRUE), In(".json", MCCommands, {}, FALSE),
   In(".cfg", {"frameCfg"}, {}, TRUE), In(".cfg", MCCommands, {"sensorStart"}, TRUE),
   In(".cfg", {}, {}, TRUE), In("other", MCCommands, {}, TRUE)}

Path(d, n) == [dir |-> d, name |-> n]

Listed == {NoOutput, Path("out", ""), Path("out", "my.h"), Path("cwd", "my.h")}
Gone == {Path("gone", "my.h")}
=============================================================================
