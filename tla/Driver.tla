------------------------------- MODULE Driver -------------------------------
(***************************************************************************)
(* The compiler driver, tools/driver/driver.cpp: main and                   *)
(* compileSourceItem on top of the dependency loader of SourceManager.      *)
(* Parsing, type checking and code generation of one file are each a choice *)
(* between success and failure here; what matters is which files have been  *)
(* compiled and written when another one, or the linker, needs them.        *)
(***************************************************************************)
EXTENDS SourceManager

CONSTANT OptionSets  \* the command lines tried: sets of switches

\* -fsyntax-only, -e, -emit-llvm, -emit-llvm-bc
Switches == {"SyntaxOnly", "EntryPoint", "EmitLLVM", "EmitLLVMBitcode"}

ASSUME DriverAssumption == OptionSets \subseteq SUBSET Switches

VARIABLES
  options,   \* the switches in force
  pos,       \* the item under way: Items[pos], 0 when all are done
  cunit,     \* SourceItem::cunit: absent, or whether it declares the unit
             \* its file is named after
  irPath,    \* the items with an IR path
  bitcode,   \* the items with a bitcode path
  linked,    \* llvm-ld has been run
  exit       \* "running", then the exit code of main

compileVars == <<options, pos, cunit, irPath, bitcode, linked, exit>>
vars == <<smVars, compileVars>>

Compilations == {"absent", "principal", "other"}

DriverTypeOK ==
  /\ options \subseteq Switches
  /\ pos \in 0..Len(sources)
  /\ cunit \in [Path -> Compilations]
  /\ irPath \subseteq Path /\ bitcode \subseteq Path
  /\ linked \in BOOLEAN
  /\ exit \in {"running", "ok", "error"}
-----------------------------------------------------------------------------
Exit(code) == exit' = code

\* main, when getSourceItem returned null.
LoadError ==
  /\ status = "failed" /\ exit = "running"
  /\ Exit("error")
  /\ UNCHANGED <<smVars, options, pos, cunit, irPath, bitcode, linked>>

\* Mutant of StartCompile: bitcode is not forced by an entry point.
StartWithoutBitcode ==
  /\ status = "ready" /\ exit = "running" /\ pos = 0 /\ cunit[Root] = "absent"
  /\ pos' = Len(sources)
  /\ UNCHANGED <<smVars, options, cunit, irPath, bitcode, linked, exit>>

\* compileSourceItem once the dependencies are extracted: an entry point
\* forces bitcode, and the items are taken from the back.
StartCompile ==
  /\ status = "ready" /\ exit = "running" /\ pos = 0 /\ cunit[Root] = "absent"
  /\ pos' = Len(sources)
  /\ options' = options \cup IF "EntryPoint" \in options THEN {"EmitLLVMBitcode"}
                                                         ELSE {}
  /\ UNCHANGED <<smVars, cunit, irPath, bitcode, linked, exit>>

Item == sources[pos]
Compiling == exit = "running" /\ pos > 0

\* findPrincipleDeclaration: the dependency does not declare its unit.
Unprincipled(item) == {d \in Range(dependents[item]) : cunit[d] # "principal"}

PrincipleMissing ==
  /\ Compiling
  /\ Unprincipled(Item) # {}
  /\ Exit("error")
  /\ UNCHANGED <<smVars, options, pos, cunit, irPath, bitcode, linked>>

\* The parser or the type checker reported an error.
CheckFails ==
  /\ Compiling
  /\ Unprincipled(Item) = {}
  /\ Exit("error")
  /\ UNCHANGED <<smVars, options, pos, cunit, irPath, bitcode, linked>>

\* The file is checked, its compilation unit is kept, and code is generated:
\* generateSourceItem, which can fail at the entry point (for the root) or
\* when it writes the assembly or the bitcode file.
GenerateFails ==
  /\ Compiling
  /\ Unprincipled(Item) = {}
  /\ "SyntaxOnly" \notin options
  /\ \E c \in Compilations \ {"absent"} : cunit' = [cunit EXCEPT ![Item] = c]
  /\ irPath' \in {irPath} \cup IF "EmitLLVM" \in options THEN {irPath \cup {Item}} ELSE {}
  /\ Exit("error")
  /\ UNCHANGED <<smVars, options, pos, bitcode, linked>>

CompileItem ==
  /\ Compiling
  /\ Unprincipled(Item) = {}
  /\ \E c \in Compilations \ {"absent"} : cunit' = [cunit EXCEPT ![Item] = c]
  /\ LET emits(o) == o \in options /\ "SyntaxOnly" \notin options
     IN  /\ irPath' = IF emits("EmitLLVM") THEN irPath \cup {Item} ELSE irPath
         /\ bitcode' = IF emits("EmitLLVMBitcode") THEN bitcode \cup {Item}
                                                   ELSE bitcode
  /\ pos' = pos - 1
  /\ UNCHANGED <<smVars, options, linked, exit>>

Compiled == status = "ready" /\ exit = "running" /\ pos = 0 /\ cunit[Root] # "absent"

\* outputExec: llvm-ld may be missing or fail.
LinkFails ==
  /\ Compiled /\ "EntryPoint" \in options
  /\ linked' \in BOOLEAN
  /\ Exit("error")
  /\ UNCHANGED <<smVars, options, pos, cunit, irPath, bitcode>>

Finish ==
  /\ Compiled
  /\ linked' = ("EntryPoint" \in options)
  /\ Exit("ok")
  /\ UNCHANGED <<smVars, options, pos, cunit, irPath, bitcode>>
-----------------------------------------------------------------------------
Init ==
  /\ smInit
  /\ options \in OptionSets
  /\ pos = 0
  /\ cunit = [p \in Path |-> "absent"]
  /\ irPath = {} /\ bitcode = {}
  /\ linked = FALSE
  /\ exit = "running"

Load == smNext /\ UNCHANGED compileVars

Next ==
  \/ Load \/ LoadError \/ StartCompile \/ PrincipleMissing \/ CheckFails
  \/ GenerateFails \/ CompileItem \/ LinkFails \/ Finish

Spec == Init /\ [][Next]_vars /\ WF_vars(Next)
-----------------------------------------------------------------------------
(* Properties *)

\* The assertion of findPrincipleDeclaration, "Dependency not resolved!": when
\* a file is compiled, every file it depends on has its compilation unit.
DependenciesCompiledFirst ==
  Compiling => \A d \in Range(dependents[Item]) : cunit[d] # "absent"

\* A successful run has compiled everything the root needs.  Without
\* -fsyntax-only it has also written all of it: the bitcode if an executable
\* was linked or bitcode requested, the assembly if that was requested.  Under
\* -fsyntax-only nothing is promised of what is written: an executable may be
\* linked all the same (LinkedFilesAreWritten).
SuccessMeansComplete ==
  exit = "ok" =>
    /\ \A p \in Reachable : cunit[p] # "absent"
    /\ "SyntaxOnly" \notin options =>
         /\ "EmitLLVMBitcode" \in options \/ linked => Reachable \subseteq bitcode
         /\ "EmitLLVM" \in options => Reachable \subseteq irPath

\* What the comment of compileSourceItem says: an entry point ensures that
\* bitcode is generated, so that llvm-ld is handed the files it needs.  Not so
\* under -fsyntax-only, which only keeps code from being generated: as an
\* invariant of MCDriver this is violated.
LinkedFilesAreWritten == linked => Reachable \subseteq bitcode

\* The driver always comes to an exit code.
Exits == <>(exit # "running")
=============================================================================
