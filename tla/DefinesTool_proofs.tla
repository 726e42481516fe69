------------------------- MODULE DefinesTool_proofs -------------------------
(***************************************************************************)
(* The header generator, for every set of commands, inputs, paths and      *)
(* directories and any number of runs: a header is complete, where it was  *)
(* asked for if the path names its directory, and replaces a file only     *)
(* when confirmed if that directory exists.                                *)
(***************************************************************************)
EXTENDS DefinesTool, TLAPS

\* No bare names: those end up in the working directory under another name.
DirNamed == \A o \in Outputs : o = NoOutput \/ o.dir # ""

\* No directories that are missing, besides.
DirThere == \A o \in Outputs : o = NoOutput \/ o.dir \in Dirs

Chosen == pc \in {"confirm", "generate", "info", "done"}

(***************************************************************************)
(* What is known of the files, of the path the header goes to, and of the  *)
(* prompt.  After the prompt the path is the desired one, if its directory *)
(* exists, and until the file is opened it is absent or "y" was answered;  *)
(* otherwise it is the header in the working directory, and nobody asked.  *)
(***************************************************************************)
FilesInv ==
  /\ files = [p \in Paths |-> files[p]]
  /\ HeadersComplete

PathInv ==
  /\ output \in Outputs
  /\ Chosen => desired = Desired(output)
  /\ pc \in {"generate", "info", "done"} /\ desired.dir \in Dirs => final = desired
  /\ pc \in {"info", "done"} /\ final \in Paths => files[final] = Header(Commands)

\* Where the header goes when the directory is missing.
Fallback == [dir |-> Cwd, name |-> DEFINES_HEADER_NAME]

PromptInv ==
  pc = "generate" =>
    IF desired.dir \in Dirs THEN answer = "y" \/ files[final] = Absent ELSE final = Fallback

ToolInv == FilesInv /\ PathInv

-----------------------------------------------------------------------------
\* Where the directory is named and there, the path desired is the one asked for.
LEMMA DesiredIsAsked ==
  ASSUME DirNamed, NEW o \in Outputs, Asked(o).dir \in Dirs
  PROVE  Desired(o) = Asked(o) /\ Asked(o) \in Paths
<1>1. o.dir \in STRING /\ o.name \in STRING /\ o = [dir |-> o.dir, name |-> o.name]
  BY ToolAssumption
<1>2. CASE o = NoOutput
  <2>1. o.dir = "" /\ o.name = ""
    BY <1>2 DEF NoOutput
  <2>2. Desired(o) = [dir |-> DefaultDir, name |-> DEFINES_HEADER_NAME]
    BY <1>2 DEF Desired
  <2>3. Asked(o) = [dir |-> DefaultDir, name |-> DEFINES_HEADER_NAME]
    BY <1>2, <2>1 DEF Asked
  <2>4. [dir |-> DefaultDir, name |-> DEFINES_HEADER_NAME] \in Paths
    BY ToolAssumption DEF Paths
  <2> QED
    BY <2>2, <2>3, <2>4
<1>3. CASE o # NoOutput
  <2>1. o.dir # "" /\ o.dir \in Dirs
    BY <1>3 DEF DirNamed, Asked
  <2>2. CASE o.name = ""
    <3>1. /\ Desired(o) = [dir |-> o.dir, name |-> DEFINES_HEADER_NAME]
          /\ Asked(o) = [dir |-> o.dir, name |-> DEFINES_HEADER_NAME]
      BY <1>3, <2>1, <2>2 DEF Desired, IsDir, Asked
    <3>2. [dir |-> o.dir, name |-> DEFINES_HEADER_NAME] \in Paths
      BY <2>1 DEF Paths
    <3> QED
      BY <3>1, <3>2
  <2>3. CASE o.name # ""
    <3>1. Desired(o) = o /\ Asked(o) = o
      BY <1>1, <1>3, <2>1, <2>3 DEF Desired, IsDir, Asked
    <3>2. [dir |-> o.dir, name |-> o.name] \in Paths
      BY <2>1 DEF Paths
    <3> QED
      BY <1>1, <3>1, <3>2
  <2> QED
    BY <2>2, <2>3
<1> QED
  BY <1>2, <1>3

LEMMA KindsDiffer ==
  \A cs : /\ Header(cs).kind = "header" /\ Header(cs).cmds = cs
          /\ Absent.kind # "header" /\ Other.kind # "header"
BY DEF Header, Absent, Other

LEMMA InitFiles == Init => ToolInv
<1> SUFFICES ASSUME Init PROVE ToolInv
  OBVIOUS
<1>1. \A p \in Paths : files[p] \in {Absent, Other}
  BY DEF Init
<1>2. FilesInv
  BY <1>1, KindsDiffer DEF Init, FilesInv, HeadersComplete
<1>3. PathInv
  BY DEF Init, PathInv, Chosen
<1> QED
  BY <1>2, <1>3 DEF ToolInv

\* Only Generate writes, and what it writes is complete.
LEMMA FilesStep ==
  ASSUME ToolInv, [Next]_toolVars
  PROVE  FilesInv'
<1>1. CASE Generate /\ files' # files
  <2>1. /\ data = Commands
        /\ files' = [files EXCEPT ![final] = Header(data)]
    BY <1>1 DEF Generate
  <2>2. files' = [p \in Paths |-> files'[p]]
    BY <2>1 DEF ToolInv, FilesInv
  <2>3. \A p \in Paths : files'[p] = files[p] \/ files'[p] = Header(Commands)
    BY <2>1 DEF ToolInv, FilesInv
  <2>4. \A p \in Paths : files[p].kind = "header" => files[p].cmds = Commands
    BY DEF ToolInv, FilesInv, HeadersComplete
  <2> QED
    BY <2>2, <2>3, <2>4, KindsDiffer DEF FilesInv, HeadersComplete
<1>2. CASE files' = files
  BY <1>2 DEF ToolInv, FilesInv, HeadersComplete
<1> QED
  BY <1>1, <1>2
  DEF Next, Start, Usage, Parse, Choose, Confirm, Generate, Info, toolVars, argVars

LEMMA PathStep ==
  ASSUME ToolInv, [Next]_toolVars
  PROVE  PathInv'
<1> USE DEF PathInv, Chosen, argVars
<1>1. CASE Start \/ Usage
  BY <1>1 DEF ToolInv, Start, Usage
<1>2. CASE Parse
  BY <1>2 DEF ToolInv, Parse
<1>3. CASE Choose
  BY <1>3 DEF ToolInv, Choose
<1>4. CASE Confirm
  BY <1>4 DEF ToolInv, Confirm
<1>5. CASE Generate
  <2>1. final \in Paths /\ data = Commands
          /\ files' = [files EXCEPT ![final] = Header(data)]
          => files'[final] = Header(Commands)
    BY DEF ToolInv, FilesInv
  <2> QED
    BY <1>5, <2>1 DEF ToolInv, Generate
<1>6. CASE Info
  BY <1>6 DEF ToolInv, Info
<1>7. CASE UNCHANGED toolVars
  BY <1>7 DEF ToolInv, toolVars
<1> QED
  BY <1>1, <1>2, <1>3, <1>4, <1>5, <1>6, <1>7 DEF Next

LEMMA ToolStep == ToolInv /\ [Next]_toolVars => ToolInv'
BY FilesStep, PathStep DEF ToolInv

(* The script's files, paths and text are related at every step of a run:  *)
(* the invariant the rest is derived from.                                 *)
THEOREM Invariance == ToolSpec => []ToolInv
BY InitFiles, ToolStep, PTL DEF ToolSpec

(* Every header on disk has every macro the firmware is built from,        *)
(* however often the script is run and with whatever inputs.               *)
THEOREM Complete == ToolSpec => []HeadersComplete
<1>1. ToolInv => HeadersComplete
  BY DEF ToolInv, FilesInv
<1> QED
  BY <1>1, Invariance, PTL

(* With paths that name a directory, the header is where it was asked for. *)
THEOREM WhereAsked == DirNamed => (ToolSpec => []HeaderWhereAsked)
<1> SUFFICES ASSUME DirNamed PROVE ToolSpec => []HeaderWhereAsked
  OBVIOUS
<1>1. ToolInv => HeaderWhereAsked
  <2> SUFFICES ASSUME ToolInv, pc \in {"info", "done"},
                      Asked(output).dir \in Dirs
               PROVE  Asked(output) \in Paths /\ files[Asked(output)] = Header(Commands)
    BY DEF HeaderWhereAsked
  <2>1. output \in Outputs /\ desired = Desired(output)
    BY DEF ToolInv, PathInv, Chosen
  <2>2. Desired(output) = Asked(output) /\ Asked(output) \in Paths
    BY <2>1, DesiredIsAsked
  <2>3. final = Asked(output)
    BY <2>1, <2>2 DEF ToolInv, PathInv
  <2> QED
    BY <2>2, <2>3 DEF ToolInv, PathInv
<1> QED
  BY <1>1, Invariance, PTL

-----------------------------------------------------------------------------
\* With directories that are there, the prompt was about the file that is written.
LEMMA DesiredThere ==
  ASSUME DirThere, NEW o \in Outputs
  PROVE  Desired(o).dir \in Dirs
BY ToolAssumption DEF DirThere, Desired, IsDir, NoOutput

LEMMA PromptStep ==
  ASSUME ToolInv, PromptInv, [Next]_toolVars
  PROVE  PromptInv'
<1>1. CASE Confirm
  BY <1>1 DEF Confirm, PromptInv, Fallback
<1>2. CASE UNCHANGED toolVars
  BY <1>2 DEF toolVars, PromptInv
<1> QED
  BY <1>1, <1>2
  DEF Next, Start, Usage, Parse, Choose, Generate, Info, PromptInv

\* A step that replaces a file nobody was asked about.
Unasked(p) == files[p] # Absent /\ files'[p] # files[p] /\ answer # "y"

LEMMA Asks ==
  ASSUME PromptInv, ToolInv, [Next]_toolVars, NEW p \in Paths, Unasked(p)
  PROVE  p = Fallback /\ desired.dir \notin Dirs /\ desired = Desired(output)
<1>1. Generate /\ files' = [files EXCEPT ![final] = Header(data)]
  BY DEF Unasked, Next, Start, Usage, Parse, Choose, Confirm, Generate, Info, toolVars
<1>2. p = final
  BY <1>1 DEF Unasked, ToolInv, FilesInv
<1> QED
  BY <1>1, <1>2 DEF Unasked, PromptInv, Generate, ToolInv, PathInv, Chosen

LEMMA PromptInvariance == ToolSpec => []PromptInv
<1>1. Init => PromptInv
  BY DEF Init, PromptInv
<1>2. ToolInv /\ PromptInv /\ [Next]_toolVars => PromptInv'
  BY PromptStep
<1> QED
  BY <1>1, <1>2, Invariance, PTL DEF ToolSpec

(* Whatever the paths, the one file that can be replaced without an answer *)
(* is the header in the working directory, by a run whose path names a     *)
(* directory that does not exist.                                          *)
THEOREM OnlyFallbackUnasked ==
  ToolSpec =>
    [][\A p \in Paths : Unasked(p) => p = Fallback /\ Desired(output).dir \notin Dirs]_toolVars
<1>1. PromptInv /\ ToolInv /\ [Next]_toolVars =>
        [\A p \in Paths : Unasked(p) => p = Fallback /\ Desired(output).dir \notin Dirs]_toolVars
  BY Asks
<1> QED
  BY <1>1, Invariance, PromptInvariance, PTL DEF ToolSpec

(* With directories that exist, a file is replaced only after a "y".       *)
THEOREM Confirmed == DirThere => (ToolSpec => OverwriteConfirmed)
<1> SUFFICES ASSUME DirThere PROVE ToolSpec => OverwriteConfirmed
  OBVIOUS
<1>1. PromptInv /\ ToolInv /\ [Next]_toolVars =>
        [\A p \in Paths : files[p] # Absent /\ files'[p] # files[p] => answer = "y"]_toolVars
  <2> SUFFICES ASSUME PromptInv, ToolInv, [Next]_toolVars, NEW p \in Paths,
                      files[p] # Absent, files'[p] # files[p], answer # "y"
               PROVE  FALSE
    OBVIOUS
  <2>1. desired.dir \notin Dirs /\ desired = Desired(output)
    BY Asks DEF Unasked
  <2> QED
    BY <2>1, DesiredThere DEF ToolInv, PathInv
<1> QED
  BY <1>1, Invariance, PromptInvariance, PTL DEF ToolSpec, OverwriteConfirmed
=============================================================================
