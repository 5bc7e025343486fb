-------------------------------- MODULE Driver -------------------------------
(***************************************************************************)
(* main of src/driver/main.cpp: the arguments, then one file after the     *)
(* other through the passes, then the linker.  All files share one         *)
(* DiagnosticEngine and one hadErrors.  What the passes make of a file is  *)
(* a constant here; the modules of the passes say how.                     *)
(*                                                                         *)
(* A file name is a sequence of pieces, "." being one of its own.          *)
(***************************************************************************)
EXTENDS Integers, SequencesExt

CONSTANTS
  FileNames, Readable,               \* names in arguments; those of files
  BadTokens, BadSyntax, BadMeaning,  \* lexer, parser, analyzer find an error
  Unfoldable,   \* with a constant that std::stoi does not convert in a sum,
  Unlowerable,  \* or anywhere else
  Unwritable,   \* names that no file can be created under
  CommandLines  \* the argument lists main is called with

Dumps == {<<"-tokens">>, <<"-ast">>, <<"-sema">>, <<"-ir">>, <<"-opt">>, <<"-asm">>}
Flags == Dumps \cup {<<"-c">>}

Arg == Flags \cup {<<"-o">>} \cup FileNames

ASSUME CommandLinesAssumption == CommandLines \subseteq Seq(Arg)

VARIABLES
  argv,            \* the arguments not looked at yet
  flags,           \* the bools dumpTokens .. compileOnly that are set
  outputFile, inputFiles,
  files, stage,    \* the files not done yet, and the next pass of the first
  passes,          \* those that have worked on the first one so far
  errors,          \* diags.hasErrors()
  hadErrors, asmFiles,
  shown,           \* what went to std::cout, of which file, and after which passes
  disk,            \* the assembly files: name -> file it is made from, or << >>
  status           \* "arguments", "files", "link", "exit 0", "exit 1", "aborted"

arguments == <<argv, flags, outputFile, inputFiles>>
results == <<errors, hadErrors, asmFiles, shown, disk>>
driverVars == <<arguments, files, stage, passes, results, status>>

arg == Head(argv)
filename == Head(files)
Asked(flag) == <<flag>> \in flags

(* filename.substr(0, filename.find_last_of('.')) + ".s"                   *)
AsmFilename(name) ==
  LET dots == {k \in DOMAIN name : name[k] = "."}
      stem == IF dots = {} THEN name ELSE SubSeq(name, 1, Max(dots) - 1)
  IN stem \o <<".", "s">>

-----------------------------------------------------------------------------
Init ==
  /\ argv \in CommandLines
  /\ flags = {} /\ outputFile = <<"a", ".", "out">> /\ inputFiles = << >>
  /\ files = << >> /\ stage = "open" /\ passes = {}
  /\ errors = FALSE /\ hadErrors = FALSE
  /\ asmFiles = << >> /\ shown = {} /\ disk = << >>
  /\ status = "arguments"

Arguments(n) ==
  /\ status = "arguments" /\ argv # << >>
  /\ argv' = SubSeq(argv, n + 1, Len(argv))
  /\ UNCHANGED <<files, stage, passes, results, status>>
NamesOutput == arg = <<"-o">> /\ Len(argv) > 1

SetFlag ==
  /\ Arguments(1) /\ arg \in Flags
  /\ flags' = flags \cup {arg}
  /\ UNCHANGED <<outputFile, inputFiles>>

SetOutputFile ==
  /\ Arguments(2) /\ NamesOutput
  /\ outputFile' = argv[2]
  /\ UNCHANGED <<flags, inputFiles>>

(* Anything else is taken for a file, a last -o too.                       *)
AddInputFile ==
  /\ Arguments(1) /\ arg \notin Flags /\ ~NamesOutput
  /\ inputFiles' = Append(inputFiles, arg)
  /\ UNCHANGED <<flags, outputFile>>

EndArguments ==
  /\ status = "arguments" /\ argv = << >>
  /\ status' = IF inputFiles = << >> THEN "exit 1" ELSE "files"
  /\ files' = inputFiles
  /\ UNCHANGED <<arguments, stage, passes, results>>

-----------------------------------------------------------------------------
(* The loop over the files.  Continue is its continue statement.           *)
Compiling(s) ==
  /\ status = "files" /\ files # << >> /\ stage = s
  /\ UNCHANGED arguments
Goto(s, pass) == stage' = s /\ passes' = passes \cup pass /\ UNCHANGED <<files, hadErrors>>
Continue == files' = Tail(files) /\ stage' = "open" /\ passes' = {}
FailSilently == Continue /\ UNCHANGED hadErrors
Fail == Continue /\ hadErrors' = TRUE
Show(what, after) ==
  shown' = shown \cup {[what |-> what, passes |-> after, file |-> filename]}

OpenFile ==
  /\ Compiling("open")
  /\ IF filename \notin Readable THEN Fail
     ELSE Goto(IF Asked("-tokens") THEN "tokens" ELSE "parse", {})
  /\ UNCHANGED <<errors, asmFiles, shown, disk, status>>

DumpTokens ==
  /\ Compiling("tokens") /\ Show("tokens", passes) /\ Continue
  /\ errors' = (errors \/ filename \in BadTokens)
  /\ UNCHANGED <<hadErrors, asmFiles, disk, status>>

(* Tokens are read as the parser asks for them.                            *)
Parse ==
  /\ Compiling("parse")
  /\ errors' = (errors \/ filename \in BadTokens \cup BadSyntax)
  /\ IF errors' THEN Fail ELSE Goto(IF Asked("-ast") THEN "ast" ELSE "sema", {"parser"})
  /\ UNCHANGED <<asmFiles, shown, disk, status>>

DumpAstGoingOn ==
  /\ Compiling("ast") /\ Show("tree", passes) /\ Goto("sema", {})
  /\ UNCHANGED <<errors, asmFiles, disk, status>>

DumpAst ==
  /\ Compiling("ast") /\ Show("tree", passes) /\ Continue
  /\ UNCHANGED <<errors, hadErrors, asmFiles, disk, status>>

Analyze ==
  /\ Compiling("sema")
  /\ errors' = (errors \/ filename \in BadMeaning)
  /\ IF errors' THEN Fail ELSE Goto(IF Asked("-sema") THEN "analyzed" ELSE "generate", {"analyzer"})
  /\ UNCHANGED <<asmFiles, shown, disk, status>>

DumpSema ==
  /\ Compiling("analyzed") /\ Show("success", passes) /\ Continue
  /\ UNCHANGED <<errors, hadErrors, asmFiles, disk, status>>

Generate ==
  /\ Compiling("generate") /\ Goto("optimize", {"generator"})
  /\ UNCHANGED <<errors, asmFiles, shown, disk, status>>

(* Whatever was asked for. Nothing catches what std::stoi throws.           *)
Optimize ==
  /\ Compiling("optimize")
  /\ status' = IF filename \in Unfoldable THEN "aborted" ELSE status
  /\ Goto(IF Asked("-opt") \/ Asked("-ir") THEN "ir" ELSE "emit", {"optimizer"})
  /\ UNCHANGED <<errors, asmFiles, shown, disk>>

(* One dump for both flags.                                                *)
DumpIr ==
  /\ Compiling("ir") /\ Show("module", passes) /\ Continue
  /\ UNCHANGED <<errors, hadErrors, asmFiles, disk, status>>

(* The disk when an assembly file was opened and written.     *)
Written(name, content) ==
  [n \in {name} \cup DOMAIN disk |-> IF n = name THEN content ELSE disk[n]]

CannotWrite ==
  /\ AsmFilename(filename) \in Unwritable
  /\ Fail
  /\ UNCHANGED <<disk, asmFiles, shown, status>>

(* The back end throws while the file is open: an empty file is left.      *)
Abort ==
  /\ AsmFilename(filename) \notin Unwritable /\ filename \in Unlowerable
  /\ disk' = Written(AsmFilename(filename), << >>)
  /\ status' = "aborted"
  /\ UNCHANGED <<files, stage, passes, hadErrors, asmFiles, shown>>

Write ==
  /\ AsmFilename(filename) \notin Unwritable /\ filename \notin Unlowerable
  /\ disk' = Written(AsmFilename(filename), filename)
  /\ asmFiles' = Append(asmFiles, AsmFilename(filename))
  /\ IF Asked("-asm") THEN Show("assembly", passes \cup {"backend"}) ELSE UNCHANGED shown
  /\ Continue
  /\ UNCHANGED <<hadErrors, status>>

Emit ==
  /\ Compiling("emit")
  /\ CannotWrite \/ Abort \/ Write
  /\ UNCHANGED errors

EndFilesUnchecked ==
  /\ status = "files" /\ files = << >>
  /\ status' = IF flags # {} THEN "exit 0" ELSE "link"
  /\ UNCHANGED <<arguments, files, stage, passes, results>>

EndFiles ==
  /\ status = "files" /\ files = << >>
  /\ status' = IF hadErrors THEN "exit 1" ELSE IF flags # {} THEN "exit 0" ELSE "link"
  /\ UNCHANGED <<arguments, files, stage, passes, results>>

(* gcc, which may find a reason of its own to fail.                        *)
Link ==
  /\ status = "link"
  /\ status' \in {"exit 0", "exit 1"}
  /\ UNCHANGED <<arguments, files, stage, passes, results>>

Next ==
  \/ SetFlag \/ SetOutputFile \/ AddInputFile \/ EndArguments
  \/ OpenFile \/ DumpTokens \/ Parse \/ DumpAst \/ Analyze \/ DumpSema
  \/ Generate \/ Optimize \/ DumpIr \/ Emit \/ EndFiles \/ Link

Spec == Init /\ [][Next]_driverVars

-----------------------------------------------------------------------------
(* What gcc is given is complete and up to date: the assembly of every     *)
(* input file, each written in this run from the file it is named after.   *)
LinkedComplete ==
  status = "link" =>
    /\ asmFiles = [k \in DOMAIN inputFiles |-> AsmFilename(inputFiles[k])]
    /\ \A k \in DOMAIN inputFiles : disk[asmFiles[k]] = inputFiles[k]

(* The exit status tells a script whether all went well: after 0 every     *)
(* file was there and, unless only its tokens were asked for, passed all   *)
(* the passes up to the one asked for; 1 without the linker means that one *)
(* file did not.                                                           *)
Reached(name) ==
  /\ name \in Readable
  /\ Asked("-tokens") \/ name \notin BadTokens \cup BadSyntax
  /\ Asked("-tokens") \/ Asked("-ast") \/ name \notin BadMeaning
  /\ flags \subseteq {<<"-c">>, <<"-asm">>} => AsmFilename(name) \notin Unwritable
ExitTells ==
  /\ status = "exit 0" => inputFiles # << >> /\ \A k \in DOMAIN inputFiles : Reached(inputFiles[k])
  /\ status = "exit 1" /\ flags # {} =>
       inputFiles = << >> \/ \E k \in DOMAIN inputFiles : ~Reached(inputFiles[k])

(* The pipeline is halted where a flag says: of each file is shown what    *)
(* the earliest of the flags names, after the passes in front of that      *)
(* stage, and nothing else; with -ir that is what -opt names, a module     *)
(* which the optimizer has been through (IrUnoptimized). When all is well  *)
(* no file was left out, and nothing is written before the last stage.     *)
Stages == <<"-tokens", "-ast", "-sema", "-ir", "-opt", "-asm">>
Texts == <<"tokens", "tree", "success", "module", "module", "assembly">>
PassesBefore(k) ==
  {<<"parser", "analyzer", "generator", "optimizer", "backend">>[j] : j \in 1..(k - 1)}
Earliest(k) == Asked(Stages[k]) /\ \A j \in 1..(k - 1) : ~Asked(Stages[j])
HaltsWhereAsked ==
  /\ \A p \in shown : \E k \in DOMAIN Stages :
       /\ Earliest(k) /\ p.what = Texts[k]
       /\ p.passes = PassesBefore(IF Stages[k] = "-ir" THEN k + 1 ELSE k)
  /\ status = "exit 0" /\ flags \cap Dumps # {} =>
       \A k \in DOMAIN inputFiles : \E p \in shown : p.file = inputFiles[k]
  /\ flags \cap (Dumps \ {<<"-asm">>}) # {} /\ status # "arguments" => disk = << >>

(* "-ir: Dump the unoptimized Intermediate Representation" (README.md:85). *)
IrUnoptimized ==
  \A p \in shown : p.what = "module" /\ ~Asked("-opt") => "optimizer" \notin p.passes

(* One file's errors are no reason not to compile another one.             *)
FilesIndependent ==
  status = "exit 1" /\ flags \subseteq {<<"-c">>} =>
    \A k \in DOMAIN inputFiles :
      Reached(inputFiles[k]) => AsmFilename(inputFiles[k]) \in DOMAIN disk
=============================================================================
