---------------------------- MODULE DefinesTool ----------------------------
(***************************************************************************)
(* scripts/chirp_config_to_defines.py: runs of the script, one after the   *)
(* other, over the files they leave behind.  A path is a directory and a   *)
(* name; the directory "" is that of a bare name.  What a header says is   *)
(* the set of commands it was made from.                                   *)
(***************************************************************************)
EXTENDS FiniteSets

CONSTANTS
  Commands,   \* CONFIG_STRUCTURE
  Inputs,     \* what input files look like, see Input
  Outputs,    \* what -o may say, see Output
  Dirs        \* the directories that exist

DEFINES_HEADER_NAME == "defines.h"
Cwd        == "cwd"       \* the working directory
DefaultDir == "include"   \* minimal_rangeproc_impl/include

(***************************************************************************)
(* malformed: the commands with a wrong number of values (.cfg) or wrong   *)
(* keys (.json).  numeric: the values that print_basic_config_info()       *)
(* converts are numbers.                                                   *)
(***************************************************************************)
Input == [format : {".cfg", ".json", "other"}, cmds : SUBSET Commands,
          malformed : SUBSET Commands, numeric : BOOLEAN]

\* A directory, with the name "", a path, or NoOutput for no -o at all.
NoOutput == [dir |-> "", name |-> ""]

ASSUME ToolAssumption ==
  /\ Inputs \subseteq Input
  /\ Outputs \subseteq [dir : STRING, name : STRING]
  /\ {Cwd, DefaultDir} \subseteq Dirs
  /\ Dirs \subseteq STRING /\ "" \notin Dirs

Paths == [dir : Dirs, name : {o.name : o \in Outputs} \cup {DEFINES_HEADER_NAME}]

Absent     == [kind |-> "absent", cmds |-> {}]
Other      == [kind |-> "other", cmds |-> {}]
Header(cs) == [kind |-> "header", cmds |-> cs]

VARIABLES
  pc,
  input, output,   \* the arguments
  data,            \* the commands that were parsed
  desired, final,  \* paths
  answer,          \* to the prompt of this run
  files            \* what every path holds

argVars  == <<input, output>>
toolVars == <<pc, argVars, data, desired, final, answer, files>>

Init ==
  /\ pc = "start"
  /\ input \in Inputs /\ output \in Outputs
  /\ data = {} /\ desired = NoOutput /\ final = NoOutput
  /\ answer = "none"
  /\ files \in [Paths -> {Absent, Other}]

\* The script is started (again) with an input file.
Start ==
  /\ pc \in {"start", "exited", "done"}
  /\ pc' = "parse"
  /\ input' \in Inputs /\ output' \in Outputs
  /\ data' = {} /\ desired' = NoOutput /\ final' = NoOutput
  /\ answer' = "none"
  /\ UNCHANGED files

\* The script is started with -h or without an input file.
Usage ==
  /\ pc \in {"start", "exited", "done"}
  /\ pc' = "exited"
  /\ UNCHANGED <<argVars, data, desired, final, answer, files>>

Parses(in) == in.format # "other" /\ in.cmds \cap in.malformed = {}

Parse ==
  /\ pc = "parse"
  /\ \/ /\ Parses(input) /\ input.cmds # {}
        /\ data' = input.cmds
        /\ pc' = "choose"
     \/ /\ ~Parses(input) \/ input.cmds = {}
        /\ pc' = "exited"
        /\ UNCHANGED data
  /\ UNCHANGED <<argVars, desired, final, answer, files>>

IsDir(o) == o.name = "" /\ o.dir \in Dirs

(* A *Fault operator is a plausible slip in the definition that follows    *)
(* it; nothing uses it.                                                    *)
DesiredFault(o) ==
  IF o = NoOutput THEN [dir |-> DefaultDir, name |-> DEFINES_HEADER_NAME]
  ELSE [dir |-> o.dir, name |-> DEFINES_HEADER_NAME]

Desired(o) ==
  IF o = NoOutput THEN [dir |-> DefaultDir, name |-> DEFINES_HEADER_NAME]
  ELSE IF IsDir(o) THEN [dir |-> o.dir, name |-> DEFINES_HEADER_NAME]
  ELSE o

Choose ==
  /\ pc = "choose"
  /\ desired' = Desired(output)
  /\ pc' = "confirm"
  /\ UNCHANGED <<argVars, data, final, answer, files>>

ConfirmFault ==
  /\ pc = "confirm"
  /\ final' = IF desired.dir \in Dirs THEN desired
              ELSE [dir |-> Cwd, name |-> DEFINES_HEADER_NAME]
  /\ pc' = "generate"
  /\ UNCHANGED <<argVars, data, desired, answer, files>>

\* The prompt is for the desired path, not for the one in the working directory.
Confirm ==
  /\ pc = "confirm"
  /\ \/ /\ desired.dir \notin Dirs
        /\ final' = [dir |-> Cwd, name |-> DEFINES_HEADER_NAME]
        /\ pc' = "generate"
        /\ UNCHANGED answer
     \/ /\ desired.dir \in Dirs /\ files[desired] = Absent
        /\ final' = desired
        /\ pc' = "generate"
        /\ UNCHANGED answer
     \/ /\ desired.dir \in Dirs /\ files[desired] # Absent
        /\ final' = desired
        /\ answer' \in {"y", "n"}
        /\ pc' = IF answer' = "y" THEN "generate" ELSE "exited"
  /\ UNCHANGED <<argVars, data, desired, files>>

GenerateFault ==
  /\ pc = "generate"
  /\ files' = [files EXCEPT ![final] = Header(data)]
  /\ pc' = IF data = Commands THEN "info" ELSE "exited"
  /\ UNCHANGED <<argVars, data, desired, final, answer>>

\* The text, with every command in it, comes before the file is opened.
Generate ==
  /\ pc = "generate"
  /\ \/ /\ data = Commands
        /\ files' = [files EXCEPT ![final] = Header(data)]
        /\ pc' = "info"
     \/ data # Commands /\ pc' = "exited" /\ UNCHANGED files
  /\ UNCHANGED <<argVars, data, desired, final, answer>>

\* Values are first looked at here, after the header is written.
Info ==
  /\ pc = "info"
  /\ pc' = IF input.numeric THEN "done" ELSE "exited"
  /\ UNCHANGED <<argVars, data, desired, final, answer, files>>

Next == Start \/ Usage \/ Parse \/ Choose \/ Confirm \/ Generate \/ Info

ToolSpec == Init /\ [][Next]_toolVars

-----------------------------------------------------------------------------
(***************************************************************************)
(* A generated header has every macro the firmware is built from: a config *)
(* that lacks a command leaves the header of an earlier run as it was.     *)
(***************************************************************************)
HeadersComplete == \A p \in Paths : files[p].kind = "header" => files[p].cmds = Commands

(***************************************************************************)
(* "exists. overwrite? [y/N]" (scripts/chirp_config_to_defines.py): a file *)
(* that is there is replaced only after a "y" in this run.                 *)
(***************************************************************************)
OverwriteConfirmed ==
  [][\A p \in Paths : files[p] # Absent /\ files'[p] # files[p] => answer = "y"]_toolVars

\* The path meant, as a reader of the help takes it.
Asked(o) ==
  [dir  |-> IF o = NoOutput THEN DefaultDir ELSE IF o.dir = "" THEN Cwd ELSE o.dir,
   name |-> IF o.name = "" THEN DEFINES_HEADER_NAME ELSE o.name]

(***************************************************************************)
(* "path to output header file or directory" (the help of -o): from the    *)
(* moment the script says that it generated a header the whole of it is    *)
(* there, even if the run then ends with a traceback over its values.      *)
(***************************************************************************)
HeaderWhereAsked ==
  pc \in {"info", "done"} /\ Asked(output).dir \in Dirs =>
    Asked(output) \in Paths /\ files[Asked(output)] = Header(Commands)
=============================================================================
