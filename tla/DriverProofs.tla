---------------------------- MODULE DriverProofs -----------------------------
(***************************************************************************)
(* Proofs about Driver, for every command line, every set of files and     *)
(* every verdict of the passes: the exit status and the flags tell the     *)
(* truth, and what is linked is complete if no two inputs share a stem.    *)
(***************************************************************************)
EXTENDS Driver, SequenceTheorems, TLAPS

Stage == {"open", "tokens", "parse", "ast", "sema", "analyzed", "generate",
          "optimize", "ir", "emit"}
AfterTokens == Stage \ {"open", "tokens"}
AfterParsing == AfterTokens \ {"parse"}
AfterTree == AfterParsing \ {"ast"}
AfterAnalysis == AfterTree \ {"sema"}
AfterSema == AfterAnalysis \ {"analyzed"}

Types ==
  /\ argv \in Seq(Arg) /\ inputFiles \in Seq(Arg) /\ files \in Seq(Arg)
  /\ flags \subseteq Flags
  /\ errors \in BOOLEAN /\ hadErrors \in BOOLEAN
  /\ stage \in Stage
  /\ status \in {"arguments", "files", "link", "exit 0", "exit 1", "aborted"}

(* Before the loop nothing has happened; after it nothing is left.         *)
Phases ==
  /\ status = "arguments" =>
       /\ files = << >> /\ stage = "open" /\ passes = {} /\ ~errors /\ ~hadErrors
       /\ asmFiles = << >> /\ shown = {} /\ disk = << >>
  /\ status \in {"link", "exit 0"} => files = << >> /\ ~hadErrors
  /\ status \in {"files", "link", "exit 0"} => inputFiles # << >>
  /\ status = "link" => flags = {}
  /\ status = "exit 1" /\ flags # {} => inputFiles = << >> \/ hadErrors

(* The files not done yet are the last of the input files.                 *)
Done == Len(inputFiles) - Len(files)
FilesLeft ==
  status # "arguments" =>
    /\ Len(files) <= Len(inputFiles)
    /\ \A k \in 1..Len(files) : files[k] = inputFiles[Done + k]

(* What the way to a stage says of the flags and of the file.              *)
StageReached ==
  /\ stage # "open" => files # << >>
  /\ stage = "tokens" => Asked("-tokens") /\ filename \in Readable
  /\ stage \in AfterTokens => ~Asked("-tokens") /\ filename \in Readable
  /\ stage \in AfterParsing => filename \notin BadTokens \cup BadSyntax
  /\ stage = "ast" => Asked("-ast")
  /\ stage \in AfterTree => ~Asked("-ast")
  /\ stage \in AfterAnalysis => filename \notin BadMeaning
  /\ stage = "analyzed" => Asked("-sema")
  /\ stage \in AfterSema => ~Asked("-sema")
  /\ stage = "ir" => Asked("-opt") \/ Asked("-ir")
  /\ stage = "emit" => ~Asked("-opt") /\ ~Asked("-ir")
  /\ stage \in {"open", "tokens", "parse"} => passes = {}
  /\ stage \in {"ast", "sema"} => passes = {"parser"}
  /\ stage \in {"analyzed", "generate"} => passes = {"parser", "analyzer"}
  /\ stage = "optimize" => passes = {"parser", "analyzer", "generator"}
  /\ stage \in {"ir", "emit"} => passes = {"parser", "analyzer", "generator", "optimizer"}

(* A file that is done without hadErrors has passed; an error is owed to   *)
(* one that does not, unless tokens are all that was asked for.            *)
SomeFault == \E k \in 1..Len(inputFiles) : ~Reached(inputFiles[k])
Verdicts ==
  /\ status # "arguments" /\ ~hadErrors => \A k \in 1..Done : Reached(inputFiles[k])
  /\ hadErrors => SomeFault
  /\ errors /\ ~Asked("-tokens") => SomeFault

IInv == Types /\ Phases /\ FilesLeft /\ StageReached /\ Verdicts

-----------------------------------------------------------------------------
LEMMA InitEstablishes == Init => IInv
  <1> SUFFICES ASSUME Init PROVE IInv
    OBVIOUS
  <1>1. argv \in Seq(Arg)
    BY CommandLinesAssumption DEF Init
  <1>2. << >> \in Seq(Arg) /\ Len(<< >>) = 0
    BY EmptySeq
  <1>3. Types
    BY <1>1, <1>2 DEF Types, Init, Stage
  <1>4. Phases /\ FilesLeft /\ StageReached /\ Verdicts
    BY <1>2 DEF Phases, FilesLeft, StageReached, Verdicts, Init, Done, Stage, AfterTokens,
         AfterParsing, AfterTree, AfterAnalysis, AfterSema
  <1> QED BY <1>3, <1>4 DEF IInv

-----------------------------------------------------------------------------
(* The arguments: as long as they are read, the rest has not begun.        *)
LEMMA ArgumentsStep ==
  ASSUME IInv, SetFlag \/ SetOutputFile \/ AddInputFile
  PROVE  IInv'
  <1> USE DEF IInv
  <1>1. /\ status = "arguments" /\ status' = "arguments"
        /\ UNCHANGED <<files, stage, passes, errors, hadErrors, asmFiles, shown, disk>>
    BY DEF SetFlag, SetOutputFile, AddInputFile, Arguments, results
  <1>2. argv \in Seq(Arg) /\ argv # << >>
    BY DEF SetFlag, SetOutputFile, AddInputFile, Arguments, Types
  <1>3. arg \in Arg
    BY <1>2, HeadTailProperties DEF arg
  <1>4. argv' \in Seq(Arg)
    <2>1. ASSUME NEW n \in {1, 2}, argv' = SubSeq(argv, n + 1, Len(argv))
          PROVE  argv' \in Seq(Arg)
      <3>1. Len(argv) \in Nat /\ \A k \in (n + 1)..Len(argv) : argv[k] \in Arg
        BY <1>2
      <3> QED BY <2>1, <3>1, SubSeqProperties
    <2> QED BY <2>1 DEF SetFlag, SetOutputFile, AddInputFile, Arguments
  <1>5. flags' \subseteq Flags /\ inputFiles' \in Seq(Arg)
    <2>1. CASE SetFlag
      BY <2>1 DEF SetFlag, Types
    <2>2. CASE SetOutputFile
      BY <2>2 DEF SetOutputFile, Types
    <2>3. CASE AddInputFile
      BY <2>3, <1>3, AppendProperties DEF AddInputFile, Types
    <2> QED BY <2>1, <2>2, <2>3
  <1>6. Types'
    BY <1>1, <1>4, <1>5 DEF Types
  <1>7. Phases' /\ FilesLeft' /\ StageReached' /\ Verdicts'
    BY <1>1 DEF Phases, FilesLeft, StageReached, Verdicts, AfterTokens,
         AfterParsing, AfterTree, AfterAnalysis, AfterSema
  <1> QED BY <1>6, <1>7

LEMMA EndArgumentsStep ==
  ASSUME IInv, EndArguments
  PROVE  IInv'
  <1>1. /\ status = "arguments" /\ files' = inputFiles
        /\ status' = IF inputFiles = << >> THEN "exit 1" ELSE "files"
        /\ argv' = argv /\ flags' = flags /\ inputFiles' = inputFiles
        /\ UNCHANGED <<stage, passes, errors, hadErrors, asmFiles, shown, disk>>
    BY DEF EndArguments, arguments, results
  <1>2. /\ files = << >> /\ stage = "open" /\ passes = {} /\ ~errors /\ ~hadErrors
        /\ asmFiles = << >> /\ shown = {} /\ disk = << >>
    BY <1>1 DEF IInv, Phases
  <1>3. inputFiles \in Seq(Arg) /\ Len(inputFiles) \in Nat
    BY LenProperties DEF IInv, Types
  <1>4. Done' = 0 /\ Len(files') = Len(inputFiles')
    <2>1. files' = inputFiles /\ inputFiles' = inputFiles
      BY <1>1
    <2>2. Len(files') = Len(inputFiles) /\ Len(inputFiles') = Len(inputFiles)
      BY <2>1, Zenon
    <2> QED BY <2>2, <1>3 DEF Done
  <1>5. Types'
    BY <1>1 DEF IInv, Types
  <1>6. Phases'
    BY <1>1, <1>2 DEF Phases
  <1>7. FilesLeft'
    <2>1. files' = inputFiles' /\ Len(files') \in Nat
      BY <1>1, <1>3
    <2>2. ASSUME NEW k \in 1..Len(files') PROVE files'[k] = inputFiles'[Done' + k]
      BY <1>4, <2>1
    <2>3. Len(files') <= Len(inputFiles')
      BY <1>4, <2>1
    <2> QED BY <2>2, <2>3 DEF FilesLeft
  <1>8. StageReached'
    BY <1>1, <1>2 DEF StageReached, AfterTokens, AfterParsing, AfterTree, AfterAnalysis, AfterSema
  <1>9. Verdicts'
    <2>1. ~hadErrors' /\ ~errors'
      BY <1>1, <1>2
    <2>2. 1..Done' = {}
      BY <1>4
    <2> QED BY <2>1, <2>2, Zenon DEF Verdicts
  <1> QED BY <1>5, <1>6, <1>7, <1>8, <1>9 DEF IInv

-----------------------------------------------------------------------------
(* The loop.  A verdict does not change while the flags and inputs do not. *)
LEMMA VerdictsStay ==
  ASSUME NEW s, Compiling(s)
  PROVE  /\ \A x : Reached(x)' <=> Reached(x)
         /\ SomeFault' <=> SomeFault
  <1>1. flags' = flags /\ inputFiles' = inputFiles
    BY DEF Compiling, arguments
  <1>2. \A x : Reached(x)' <=> Reached(x)
    BY <1>1 DEF Reached, Asked
  <1> QED BY <1>1, <1>2 DEF SomeFault

(* continue: the first file left becomes the last one done.                *)
LEMMA NextFile ==
  ASSUME IInv, NEW s, Compiling(s), Continue, status' = status
  PROVE  /\ files' \in Seq(Arg) /\ FilesLeft' /\ StageReached'
         /\ Done \in Nat /\ Done' = Done + 1
         /\ Done + 1 \in 1..Len(inputFiles)
         /\ inputFiles[Done + 1] = filename
         /\ filename \in Arg
  <1>1. /\ status = "files" /\ files # << >> /\ inputFiles' = inputFiles
        /\ files' = Tail(files) /\ stage' = "open" /\ passes' = {}
    BY DEF Compiling, Continue, arguments
  <1>2. files \in Seq(Arg) /\ inputFiles \in Seq(Arg)
    BY DEF IInv, Types
  <1>3. /\ Head(files) = files[1] /\ Head(files) \in Arg
        /\ files' \in Seq(Arg) /\ Len(files') = Len(files) - 1
        /\ \A k \in 1..Len(files') : files'[k] = files[k + 1]
    BY <1>1, <1>2, HeadTailProperties
  <1>4. Len(files) \in Nat \ {0} /\ Len(inputFiles) \in Nat
    BY <1>1, <1>2, EmptySeq
  <1>5. /\ Len(files) <= Len(inputFiles)
        /\ \A k \in 1..Len(files) : files[k] = inputFiles[Done + k]
    BY <1>1 DEF IInv, FilesLeft
  <1>6. Done \in Nat /\ Done' = Done + 1 /\ Done + 1 \in 1..Len(inputFiles)
    BY <1>1, <1>3, <1>4, <1>5 DEF Done
  <1>7. inputFiles[Done + 1] = filename /\ filename \in Arg
    BY <1>3, <1>4, <1>5 DEF filename
  <1>8. FilesLeft'
    <2>1. Len(files') <= Len(inputFiles')
      BY <1>1, <1>3, <1>4, <1>5
    <2>2. ASSUME NEW k \in 1..Len(files') PROVE files'[k] = inputFiles'[Done' + k]
      <3>1. k + 1 \in 1..Len(files) /\ files'[k] = files[k + 1]
        BY <1>3, <1>4
      <3>2. Done + (k + 1) = Done' + k
        BY <1>6
      <3> QED BY <1>1, <1>5, <3>1, <3>2
    <2> QED BY <2>1, <2>2 DEF FilesLeft
  <1>9. StageReached'
    BY <1>1 DEF StageReached, Stage, AfterTokens, AfterParsing, AfterTree, AfterAnalysis,
         AfterSema
  <1> QED BY <1>3, <1>6, <1>7, <1>8, <1>9

(* A file that fails: one that does not reach the end, or another one did  *)
(* not before it.                                                          *)
LEMMA FailureLeaves ==
  ASSUME IInv, NEW s, Compiling(s), Fail, SomeFault, status' = status, errors' \in BOOLEAN
  PROVE  IInv'
  <1>1. Continue /\ hadErrors' = TRUE
    BY DEF Fail
  <1>2. /\ status = "files" /\ status' = "files"
        /\ argv' = argv /\ flags' = flags /\ inputFiles' = inputFiles /\ stage' = "open"
    BY <1>1 DEF Compiling, Continue, arguments
  <1>3. Types'
    BY <1>1, <1>2, NextFile DEF IInv, Types, Stage
  <1>4. Phases'
    BY <1>2 DEF IInv, Phases
  <1>5. SomeFault'
    BY VerdictsStay
  <1>6. Verdicts'
    BY <1>1, <1>5 DEF Verdicts
  <1> QED BY <1>1, <1>3, <1>4, <1>6, NextFile DEF IInv

LEMMA FailureStep ==
  ASSUME IInv, NEW s, Compiling(s), Fail, ~Reached(filename), status' = status,
         errors' \in BOOLEAN
  PROVE  IInv'
  <1>1. SomeFault
    BY NextFile DEF Fail, SomeFault
  <1> QED BY <1>1, FailureLeaves

LEMMA OwedFailureStep ==
  ASSUME IInv, NEW s, Compiling(s), Fail, errors, ~Asked("-tokens"), status' = status,
         errors' \in BOOLEAN
  PROVE  IInv'
  <1>1. SomeFault
    BY DEF IInv, Verdicts
  <1> QED BY <1>1, FailureLeaves

(* A file that is done without an error is one that reaches the end.       *)
LEMMA SuccessStep ==
  ASSUME IInv, NEW s, Compiling(s), Continue, Reached(filename), status' = status,
         hadErrors' = hadErrors, errors' \in BOOLEAN, errors' = errors \/ Asked("-tokens")
  PROVE  IInv'
  <1>1. /\ status = "files" /\ status' = "files"
        /\ argv' = argv /\ flags' = flags /\ inputFiles' = inputFiles /\ stage' = "open"
    BY DEF Compiling, Continue, arguments
  <1>2. Types'
    BY <1>1, NextFile DEF IInv, Types, Stage
  <1>3. Phases'
    BY <1>1 DEF IInv, Phases
  <1>4. ASSUME ~hadErrors', NEW k \in 1..Done' PROVE Reached(inputFiles[k])'
    <2>1. k \in 1..Done \/ k = Done + 1
      BY NextFile
    <2>2. Reached(inputFiles[k])
      BY <2>1, <1>1, <1>4, NextFile DEF IInv, Verdicts
    <2> QED BY <2>2, <1>1, VerdictsStay DEF Reached, Asked
  <1>5. Verdicts'
    <2>1. hadErrors' => SomeFault'
      BY VerdictsStay DEF IInv, Verdicts
    <2>2. errors' /\ ~Asked("-tokens")' => SomeFault'
      BY <1>1, VerdictsStay DEF IInv, Verdicts, Asked
    <2> QED BY <1>4, <2>1, <2>2 DEF Verdicts
  <1> QED BY <1>2, <1>3, <1>5, NextFile DEF IInv

(* A file that goes on to another stage, or at which the compiler aborts.  *)
LEMMA GoingOnStep ==
  ASSUME IInv, NEW s, Compiling(s), UNCHANGED <<files, hadErrors>>, stage' \in Stage,
         status' \in {"files", "aborted"}, errors' = errors, StageReached'
  PROVE  IInv'
  <1>1. /\ status = "files"
        /\ argv' = argv /\ flags' = flags /\ inputFiles' = inputFiles
    BY DEF Compiling, arguments
  <1>2. Types'
    BY <1>1 DEF IInv, Types
  <1>3. Phases'
    BY <1>1 DEF IInv, Phases
  <1>4. FilesLeft'
    BY <1>1 DEF IInv, FilesLeft, Done
  <1>5. Verdicts'
    <2>1. ~hadErrors' => \A k \in 1..Done' : Reached(inputFiles[k])'
      BY <1>1, VerdictsStay DEF IInv, Verdicts, Done, Reached, Asked
    <2>2. hadErrors' => SomeFault'
      BY VerdictsStay DEF IInv, Verdicts
    <2>3. errors' /\ ~Asked("-tokens")' => SomeFault'
      BY <1>1, VerdictsStay DEF IInv, Verdicts, Asked
    <2> QED BY <2>1, <2>2, <2>3 DEF Verdicts
  <1> QED BY <1>2, <1>3, <1>4, <1>5 DEF IInv

-----------------------------------------------------------------------------
LEMMA LoopStep ==
  ASSUME IInv,
         \/ OpenFile \/ DumpTokens \/ Parse \/ DumpAst \/ Analyze \/ DumpSema
         \/ Generate \/ Optimize \/ DumpIr \/ Emit
  PROVE  IInv'
  <1> USE DEF Stage, AfterTokens, AfterParsing, AfterTree, AfterAnalysis, AfterSema
  <1>1. errors \in BOOLEAN /\ StageReached
    BY DEF IInv, Types
  <1>2. CASE OpenFile
    <2>1. Compiling("open") /\ UNCHANGED <<errors, status>>
      BY <1>2 DEF OpenFile
    <2>2. CASE filename \notin Readable
      BY <1>1, <1>2, <2>1, <2>2, FailureStep DEF OpenFile, Reached
    <2>3. CASE filename \in Readable
      <3>1. /\ UNCHANGED <<files, hadErrors>>
            /\ stage' = IF Asked("-tokens") THEN "tokens" ELSE "parse"
            /\ files # << >> /\ flags' = flags /\ status = "files" /\ passes' = {}
        BY <1>1, <1>2, <2>1, <2>3 DEF StageReached, OpenFile, Goto, Compiling, arguments
      <3>2. StageReached'
        BY <3>1, <2>3 DEF StageReached, Asked, filename
      <3> QED BY <2>1, <3>1, <3>2, GoingOnStep
    <2> QED BY <2>2, <2>3
  <1>3. CASE DumpTokens
    <2>1. /\ Compiling("tokens") /\ Continue /\ UNCHANGED <<hadErrors, status>>
          /\ Asked("-tokens") /\ filename \in Readable
      BY <1>1, <1>3 DEF DumpTokens, Compiling, StageReached
    <2>2. errors' \in BOOLEAN /\ (errors' = errors \/ Asked("-tokens"))
      BY <1>1, <1>3, <2>1 DEF DumpTokens
    <2>3. Reached(filename)
      BY <2>1 DEF Reached, Asked
    <2> QED BY <2>1, <2>2, <2>3, SuccessStep
  <1>4. CASE Parse
    <2>1. /\ Compiling("parse") /\ status' = status /\ errors' \in BOOLEAN
          /\ (errors' = errors \/ filename \in BadTokens \cup BadSyntax)
          /\ ~Asked("-tokens") /\ filename \in Readable
      BY <1>1, <1>4 DEF Parse, Compiling, StageReached
    <2>2. CASE errors'
      <3>1. Fail
        BY <1>4, <2>2 DEF Parse
      <3>2. CASE filename \in BadTokens \cup BadSyntax
        BY <2>1, <3>1, <3>2, FailureStep DEF Reached
      <3>3. CASE errors
        BY <2>1, <3>1, <3>3, OwedFailureStep
      <3> QED BY <2>1, <2>2, <3>2, <3>3
    <2>3. CASE ~errors'
      <3>1. /\ UNCHANGED <<files, hadErrors>>
            /\ stage' = IF Asked("-ast") THEN "ast" ELSE "sema"
            /\ files # << >> /\ flags' = flags /\ status = "files"
            /\ errors' = errors /\ filename \notin BadTokens \cup BadSyntax
            /\ passes' = passes \cup {"parser"} /\ passes = {}
        BY <1>1, <1>4, <2>1, <2>3 DEF StageReached, Parse, Goto, Compiling, arguments
      <3>2. StageReached'
        BY <2>1, <3>1 DEF StageReached, Asked, filename
      <3> QED BY <2>1, <3>1, <3>2, GoingOnStep
    <2> QED BY <2>2, <2>3
  <1>5. CASE DumpAst
    <2>1. /\ Compiling("ast") /\ Continue /\ UNCHANGED <<errors, hadErrors, status>>
          /\ Asked("-ast") /\ filename \in Readable
          /\ filename \notin BadTokens \cup BadSyntax
      BY <1>1, <1>5 DEF DumpAst, Compiling, StageReached
    <2>2. Reached(filename)
      BY <2>1 DEF Reached, Asked
    <2> QED BY <1>1, <2>1, <2>2, SuccessStep
  <1>6. CASE Analyze
    <2>1. /\ Compiling("sema") /\ status' = status /\ errors' \in BOOLEAN
          /\ (errors' = errors \/ filename \in BadMeaning)
          /\ ~Asked("-tokens") /\ ~Asked("-ast") /\ filename \in Readable
          /\ filename \notin BadTokens \cup BadSyntax
      BY <1>1, <1>6 DEF Analyze, Compiling, StageReached
    <2>2. CASE errors'
      <3>1. Fail
        BY <1>6, <2>2 DEF Analyze
      <3>2. CASE filename \in BadMeaning
        BY <2>1, <3>1, <3>2, FailureStep DEF Reached
      <3>3. CASE errors
        BY <2>1, <3>1, <3>3, OwedFailureStep
      <3> QED BY <2>1, <2>2, <3>2, <3>3
    <2>3. CASE ~errors'
      <3>1. /\ UNCHANGED <<files, hadErrors>>
            /\ stage' = IF Asked("-sema") THEN "analyzed" ELSE "generate"
            /\ files # << >> /\ flags' = flags /\ status = "files"
            /\ errors' = errors /\ filename \notin BadMeaning
            /\ passes' = passes \cup {"analyzer"} /\ passes = {"parser"}
        BY <1>1, <1>6, <2>1, <2>3 DEF StageReached, Analyze, Goto, Compiling, arguments
      <3>2. StageReached'
        BY <2>1, <3>1 DEF StageReached, Asked, filename
      <3> QED BY <2>1, <3>1, <3>2, GoingOnStep
    <2> QED BY <2>2, <2>3
  <1>7. CASE DumpSema
    <2>1. /\ Compiling("analyzed") /\ Continue /\ UNCHANGED <<errors, hadErrors, status>>
          /\ Asked("-sema") /\ filename \in Readable
          /\ filename \notin BadTokens \cup BadSyntax /\ filename \notin BadMeaning
      BY <1>1, <1>7 DEF DumpSema, Compiling, StageReached
    <2>2. Reached(filename)
      BY <2>1 DEF Reached, Asked
    <2> QED BY <1>1, <2>1, <2>2, SuccessStep
  <1>8. CASE Optimize
    <2>1. /\ Compiling("optimize") /\ UNCHANGED <<files, hadErrors, errors>>
          /\ stage' = IF Asked("-opt") \/ Asked("-ir") THEN "ir" ELSE "emit"
          /\ files # << >> /\ flags' = flags /\ status' \in {"files", "aborted"}
          /\ passes' = passes \cup {"optimizer"}
      BY <1>8 DEF Optimize, Goto, Compiling, arguments
    <2>2. stage = "optimize"
      BY <2>1 DEF Compiling
    <2>3. StageReached'
      BY <1>1, <2>1, <2>2 DEF StageReached, Asked, filename
    <2> QED BY <2>1, <2>3, GoingOnStep
  <1>11. CASE Generate
    <2>1. /\ Compiling("generate") /\ UNCHANGED <<files, hadErrors, errors>>
          /\ stage' = "optimize" /\ passes' = passes \cup {"generator"}
          /\ files # << >> /\ flags' = flags /\ status' = "files"
      BY <1>11 DEF Generate, Goto, Compiling, arguments
    <2>2. stage = "generate"
      BY <2>1 DEF Compiling
    <2>3. StageReached'
      BY <1>1, <2>1, <2>2 DEF StageReached, Asked, filename
    <2> QED BY <2>1, <2>3, GoingOnStep
  <1>9. CASE DumpIr
    <2>1. /\ Compiling("ir") /\ Continue /\ UNCHANGED <<errors, hadErrors, status>>
          /\ (Asked("-opt") \/ Asked("-ir")) /\ filename \in Readable
          /\ filename \notin BadTokens \cup BadSyntax /\ filename \notin BadMeaning
      BY <1>1, <1>9 DEF DumpIr, Compiling, StageReached
    <2>2. Reached(filename)
      BY <2>1 DEF Reached, Asked
    <2> QED BY <1>1, <2>1, <2>2, SuccessStep
  <1>10. CASE Emit
    <2>1. /\ Compiling("emit") /\ errors' = errors
          /\ filename \in Readable /\ flags \subseteq Flags
          /\ ~Asked("-tokens") /\ ~Asked("-ast") /\ ~Asked("-sema")
          /\ ~Asked("-opt") /\ ~Asked("-ir")
          /\ filename \notin BadTokens \cup BadSyntax /\ filename \notin BadMeaning
      BY <1>1, <1>10 DEF Emit, Compiling, StageReached, IInv, Types
    <2>2. CASE CannotWrite
      <3>1. flags \subseteq {<<"-c">>, <<"-asm">>}
        BY <2>1 DEF Flags, Dumps, Asked
      <3> QED BY <1>1, <2>1, <2>2, <3>1, FailureStep DEF CannotWrite, Reached
    <2>3. CASE Abort
      <3>1. UNCHANGED <<files, stage, passes, hadErrors>> /\ status' = "aborted"
        BY <2>3 DEF Abort
      <3>2. stage' \in Stage /\ flags' = flags
        BY <2>1, <3>1 DEF Compiling, arguments
      <3>3. StageReached'
        BY <1>1, <3>1, <3>2 DEF StageReached, Asked, filename
      <3> QED BY <2>1, <3>1, <3>2, <3>3, GoingOnStep
    <2>4. CASE Write
      BY <1>1, <2>1, <2>4, SuccessStep DEF Write, Reached
    <2> QED BY <1>10, <2>2, <2>3, <2>4 DEF Emit
  <1> QED BY <1>2, <1>3, <1>4, <1>5, <1>6, <1>7, <1>8, <1>9, <1>10, <1>11

LEMMA EndStep ==
  ASSUME IInv, EndFiles \/ Link
  PROVE  IInv'
  <1>1. /\ argv' = argv /\ flags' = flags /\ inputFiles' = inputFiles
        /\ UNCHANGED <<files, stage, passes, errors, hadErrors>>
        /\ status \in {"files", "link"} /\ status' \in {"link", "exit 0", "exit 1"}
    BY DEF EndFiles, Link, arguments, results
  <1>2. Types'
    BY <1>1 DEF IInv, Types
  <1>3. Phases'
    <2>1. status' \in {"link", "exit 0"} => files' = << >> /\ ~hadErrors'
      BY <1>1 DEF EndFiles, Link, IInv, Phases
    <2>2. inputFiles' # << >>
      BY <1>1 DEF IInv, Phases
    <2>3. status' = "link" => flags' = {}
      BY <1>1 DEF EndFiles, Link
    <2>4. status' = "exit 1" /\ flags' # {} => hadErrors'
      BY <1>1 DEF EndFiles, Link, IInv, Phases
    <2> QED BY <1>1, <2>1, <2>2, <2>3, <2>4 DEF Phases
  <1>4. FilesLeft' /\ StageReached'
    BY <1>1 DEF IInv, FilesLeft, StageReached, Done, Asked, filename
  <1>5. Verdicts'
    <2>1. \A x : Reached(x)' <=> Reached(x)
      BY <1>1 DEF Reached, Asked
    <2> QED BY <1>1, <2>1 DEF IInv, Verdicts, Done, SomeFault, Asked
  <1> QED BY <1>2, <1>3, <1>4, <1>5 DEF IInv

LEMMA StepPreserves == IInv /\ [Next]_driverVars => IInv'
  <1> SUFFICES ASSUME IInv, [Next]_driverVars PROVE IInv'
    OBVIOUS
  <1>1. CASE UNCHANGED driverVars
    <2>1. /\ argv' = argv /\ flags' = flags /\ inputFiles' = inputFiles
          /\ UNCHANGED <<files, stage, passes, status, errors, hadErrors, asmFiles, shown, disk>>
      BY <1>1 DEF driverVars, arguments, results
    <2>2. Types' /\ Phases'
      BY <2>1 DEF IInv, Types, Phases
    <2>6. FilesLeft'
      BY <2>1 DEF IInv, FilesLeft, Done
    <2>7. (filename' = filename) /\ (\A flag : Asked(flag)' <=> Asked(flag))
      BY <2>1 DEF filename, Asked
    <2>3. StageReached'
      <3>1. /\ stage' = stage /\ files' = files /\ passes' = passes /\ filename' = filename
            /\ StageReached
        BY <2>1, <2>7 DEF IInv
      <3>2. /\ Asked("-tokens")' <=> Asked("-tokens")
            /\ Asked("-ast")' <=> Asked("-ast")
            /\ Asked("-sema")' <=> Asked("-sema")
            /\ Asked("-opt")' <=> Asked("-opt")
            /\ Asked("-ir")' <=> Asked("-ir")
        BY <2>7
      <3> QED BY ONLY <3>1, <3>2 DEF StageReached
    <2>4. \A x : Reached(x)' <=> Reached(x)
      BY <2>1 DEF Reached, Asked
    <2>5. Verdicts'
      BY <2>1, <2>4 DEF IInv, Verdicts, Done, SomeFault, Asked
    <2> QED BY <2>2, <2>3, <2>5, <2>6 DEF IInv
  <1>2. CASE Next
    BY <1>2, ArgumentsStep, EndArgumentsStep, LoopStep, EndStep DEF Next
  <1> QED BY <1>1, <1>2

LEMMA InvariantHolds == Spec => []IInv
  BY InitEstablishes, StepPreserves, PTL DEF Spec

-----------------------------------------------------------------------------
(* The exit status tells whether every file was there and passed the       *)
(* passes up to the one asked for.                                         *)
THEOREM ExitStatusTells == Spec => []ExitTells
  <1>1. IInv => ExitTells
    <2> SUFFICES ASSUME IInv PROVE ExitTells
      OBVIOUS
    <2>1. inputFiles \in Seq(Arg) /\ Len(inputFiles) \in Nat
      BY LenProperties DEF IInv, Types
    <2>2. DOMAIN inputFiles = 1..Len(inputFiles)
      BY <2>1, LenProperties
    <2>3. ASSUME status = "exit 0", NEW k \in DOMAIN inputFiles PROVE Reached(inputFiles[k])
      <3>1. files = << >> /\ ~hadErrors
        BY <2>3 DEF IInv, Phases
      <3>2. Len(files) = 0
        BY <3>1
      <3>3. k \in 1..Done
        BY <2>1, <2>2, <3>2 DEF Done
      <3> QED BY <2>3, <3>1, <3>3 DEF IInv, Verdicts
    <2>4. status = "exit 0" => inputFiles # << >>
      BY DEF IInv, Phases
    <2>5. ASSUME status = "exit 1", flags # {}, inputFiles # << >>
          PROVE  \E k \in DOMAIN inputFiles : ~Reached(inputFiles[k])
      BY <2>2, <2>5 DEF IInv, Phases, Verdicts, SomeFault
    <2> QED BY <2>3, <2>4, <2>5 DEF ExitTells
  <1> QED BY <1>1, InvariantHolds, PTL

-----------------------------------------------------------------------------
(* What each flag leaves to be shown: of a file, what is due at the stage  *)
(* of the earliest flag; of every file that is done without an error, some. *)
Due(p, k) ==
  /\ p.what = Texts[k]
  /\ p.passes = PassesBefore(IF Stages[k] = "-ir" THEN k + 1 ELSE k)
ShownAsAsked == \A p \in shown : \E k \in 1..6 : Earliest(k) /\ Due(p, k)
NoneLeftOut ==
  status \in {"files", "exit 0"} /\ ~hadErrors /\ flags \cap Dumps # {} =>
    \A k \in 1..Done : \E p \in shown : p.file = inputFiles[k]
Halting == flags \cap (Dumps \ {<<"-asm">>}) # {}
NothingWritten == Halting /\ status # "arguments" => disk = << >>
Halts == ShownAsAsked /\ NoneLeftOut /\ NothingWritten

LEMMA StagesInOrder ==
  /\ DOMAIN Stages = 1..6
  /\ Stages[1] = "-tokens" /\ Stages[2] = "-ast" /\ Stages[3] = "-sema"
  /\ Stages[4] = "-ir" /\ Stages[5] = "-opt" /\ Stages[6] = "-asm"
  /\ Texts[1] = "tokens" /\ Texts[2] = "tree" /\ Texts[3] = "success"
  /\ Texts[4] = "module" /\ Texts[5] = "module" /\ Texts[6] = "assembly"
  BY DEF Stages, Texts

LEMMA PassesInOrder ==
  /\ PassesBefore(1) = {} /\ PassesBefore(2) = {"parser"}
  /\ PassesBefore(3) = {"parser", "analyzer"}
  /\ PassesBefore(5) = {"parser", "analyzer", "generator", "optimizer"}
  /\ PassesBefore(6) = {"parser", "analyzer", "generator", "optimizer", "backend"}
  <1> DEFINE order == <<"parser", "analyzer", "generator", "optimizer", "backend">>
  <1>1. /\ order[1] = "parser" /\ order[2] = "analyzer" /\ order[3] = "generator"
        /\ order[4] = "optimizer" /\ order[5] = "backend"
    OBVIOUS
  <1>2. \A k \in 1..6 : PassesBefore(k) = {order[j] : j \in 1..(k - 1)}
    BY DEF PassesBefore
  <1> HIDE DEF order
  <1> QED BY <1>1, <1>2

(* A file is shown for a flag that no earlier stage's flag is set with.    *)
LEMMA ShowStep ==
  ASSUME IInv, Halts, NEW s, Compiling(s), Continue, UNCHANGED <<status, hadErrors>>,
         NEW k \in 1..6, Earliest(k), NEW what, NEW after, Show(what, after),
         Due([what |-> what, passes |-> after, file |-> filename], k)
  PROVE  ShownAsAsked' /\ NoneLeftOut'
  <1> DEFINE new == [what |-> what, passes |-> after, file |-> filename]
  <1>1. shown' = shown \cup {new} /\ flags' = flags /\ inputFiles' = inputFiles
    BY DEF Show, Compiling, arguments
  <1>2. \A j : Earliest(j)' <=> Earliest(j)
    BY <1>1 DEF Earliest, Asked
  <1>3. ShownAsAsked'
    BY <1>1, <1>2 DEF Halts, ShownAsAsked
  <1>4. new.file = filename
    OBVIOUS
  <1> HIDE DEF new
  <1>5. NoneLeftOut'
    <2> SUFFICES ASSUME status = "files", ~hadErrors, flags \cap Dumps # {}, NEW j \in 1..Done'
                 PROVE  \E p \in shown' : p.file = inputFiles[j]
      BY <1>1 DEF NoneLeftOut, Compiling
    <2>1. j \in 1..Done \/ inputFiles[j] = filename
      BY NextFile
    <2>2. CASE j \in 1..Done
      BY <1>1, <2>2 DEF Halts, NoneLeftOut
    <2>3. CASE inputFiles[j] = filename
      BY <1>1, <1>4, <2>3
    <2> QED BY <2>1, <2>2, <2>3
  <1> QED BY <1>3, <1>5

(* Nothing is shown, and no file is done without an error.                 *)
LEMMA SilentStep ==
  ASSUME Halts, UNCHANGED <<flags, shown, inputFiles>>,
         hadErrors' \/ Len(files') = Len(files),
         status \in {"files", "exit 0"} \/ status' \notin {"files", "exit 0"}, ~hadErrors' => ~hadErrors
  PROVE  ShownAsAsked' /\ NoneLeftOut'
  <1>1. \A j : Earliest(j)' <=> Earliest(j)
    BY DEF Earliest, Asked
  <1>2. ShownAsAsked'
    BY <1>1 DEF Halts, ShownAsAsked
  <1>3. ~hadErrors' => Done' = Done
    BY DEF Done
  <1>4. NoneLeftOut'
    BY <1>3 DEF Halts, NoneLeftOut
  <1> QED BY <1>2, <1>4

LEMMA HaltsInit == Init => Halts
  BY DEF Init, Halts, ShownAsAsked, NoneLeftOut, NothingWritten

LEMMA HaltsStep ==
  ASSUME IInv, Halts, [Next]_driverVars
  PROVE  Halts'
  <1> USE DEF Stage, AfterTokens, AfterParsing, AfterTree, AfterAnalysis, AfterSema
  <1>1. StageReached
    BY DEF IInv
  <1>2. CASE SetFlag \/ SetOutputFile \/ AddInputFile \/ EndArguments
    <2>1. status = "arguments" /\ UNCHANGED <<shown, disk>>
      BY <1>2 DEF SetFlag, SetOutputFile, AddInputFile, EndArguments, Arguments, results
    <2>2. shown' = {} /\ disk' = << >>
      BY <2>1 DEF IInv, Phases
    <2>3. NoneLeftOut'
      <3>1. CASE EndArguments
        <4>1. files' = inputFiles /\ inputFiles' = inputFiles /\ Len(inputFiles) \in Nat
          BY <3>1, LenProperties DEF EndArguments, arguments, IInv, Types
        <4>2. Len(files') = Len(inputFiles) /\ Len(inputFiles') = Len(inputFiles)
          BY <4>1, Zenon
        <4>3. Done' = 0
          BY <4>1, <4>2 DEF Done
        <4>4. 1..Done' = {}
          BY <4>3
        <4> QED BY <4>4, Zenon DEF NoneLeftOut
      <3>2. CASE SetFlag \/ SetOutputFile \/ AddInputFile
        <4>1. status' = "arguments"
          BY <3>2 DEF SetFlag, SetOutputFile, AddInputFile, Arguments
        <4> QED BY <4>1 DEF NoneLeftOut
      <3> QED BY <1>2, <3>1, <3>2
    <2> QED BY <2>2, <2>3 DEF Halts, ShownAsAsked, NothingWritten
  <1>3. ASSUME UNCHANGED <<disk, flags>>, status # "arguments" \/ status' = status
        PROVE  NothingWritten'
    BY <1>3 DEF Halts, NothingWritten, Halting
  <1>4. CASE UNCHANGED driverVars
    BY <1>3, <1>4 DEF driverVars, arguments, results, Halts, ShownAsAsked, NoneLeftOut, Earliest,
         Asked, Done
  <1>5. CASE OpenFile \/ Parse \/ Analyze \/ Generate \/ Optimize
    <2>1. /\ UNCHANGED <<flags, shown, disk, inputFiles>> /\ status = "files"
          /\ status' \in {"files", "aborted"}
          /\ \/ UNCHANGED <<files, hadErrors>>
             \/ hadErrors'
      BY <1>5 DEF OpenFile, Parse, Analyze, Generate, Optimize, Goto, Fail, Compiling, arguments
    <2>2. ShownAsAsked' /\ NoneLeftOut'
      BY <2>1, SilentStep
    <2> QED BY <1>3, <2>1, <2>2 DEF Halts
  <1>6. CASE EndFiles \/ Link
    <2>1. /\ UNCHANGED <<flags, shown, disk, inputFiles, files, hadErrors>>
          /\ status \in {"files", "link"}
          /\ status = "link" => flags = {}
      BY <1>6 DEF EndFiles, Link, arguments, results, IInv, Phases
    <2>2. ShownAsAsked' /\ (status = "files" => NoneLeftOut')
      <3>1. CASE status = "files"
        BY <2>1, <3>1, SilentStep
      <3>2. CASE status = "link"
        BY <2>1, <3>2 DEF Halts, ShownAsAsked, Earliest, Asked
      <3> QED BY <2>1, <3>1, <3>2
    <2>3. status = "link" => NoneLeftOut'
      BY <2>1 DEF NoneLeftOut
    <2> QED BY <1>3, <2>1, <2>2, <2>3 DEF Halts
  <1>7. CASE DumpTokens
    <2>1. /\ Compiling("tokens") /\ Continue /\ UNCHANGED <<status, hadErrors, disk>>
          /\ Show("tokens", passes) /\ flags' = flags
          /\ Asked("-tokens") /\ passes = {} /\ status = "files"
      BY <1>1, <1>7 DEF DumpTokens, Compiling, StageReached, arguments
    <2>2. Earliest(1) /\ Due([what |-> "tokens", passes |-> passes, file |-> filename], 1)
      BY <2>1, StagesInOrder, PassesInOrder DEF Earliest, Due
    <2>3. ShownAsAsked' /\ NoneLeftOut'
      BY <2>1, <2>2, ShowStep
    <2> QED BY <1>3, <2>1, <2>3 DEF Halts
  <1>8. CASE DumpAst
    <2>1. /\ Compiling("ast") /\ Continue /\ UNCHANGED <<status, hadErrors, disk>>
          /\ Show("tree", passes) /\ flags' = flags
          /\ Asked("-ast") /\ ~Asked("-tokens") /\ passes = {"parser"} /\ status = "files"
      BY <1>1, <1>8 DEF DumpAst, Compiling, StageReached, arguments
    <2>2. Earliest(2)
      BY <2>1, StagesInOrder DEF Earliest
    <2>3. Due([what |-> "tree", passes |-> passes, file |-> filename], 2)
      BY <2>1, StagesInOrder, PassesInOrder DEF Due
    <2>4. ShownAsAsked' /\ NoneLeftOut'
      BY <2>1, <2>2, <2>3, ShowStep
    <2> QED BY <1>3, <2>1, <2>4 DEF Halts
  <1>9. CASE DumpSema
    <2>1. /\ Compiling("analyzed") /\ Continue /\ UNCHANGED <<status, hadErrors, disk>>
          /\ Show("success", passes) /\ flags' = flags /\ status = "files"
          /\ Asked("-sema") /\ ~Asked("-tokens") /\ ~Asked("-ast")
          /\ passes = {"parser", "analyzer"}
      BY <1>1, <1>9 DEF DumpSema, Compiling, StageReached, arguments
    <2>2. Earliest(3)
      <3>1. Asked("-sema") /\ ~Asked("-tokens") /\ ~Asked("-ast")
        BY <2>1
      <3> QED BY ONLY <3>1, StagesInOrder DEF Earliest
    <2>3. Due([what |-> "success", passes |-> passes, file |-> filename], 3)
      BY <2>1, StagesInOrder, PassesInOrder DEF Due
    <2>4. ShownAsAsked' /\ NoneLeftOut'
      <3> HIDE DEF Stage, AfterTokens, AfterParsing, AfterTree, AfterAnalysis, AfterSema
      <3>1. /\ Compiling("analyzed") /\ Continue /\ UNCHANGED <<status, hadErrors>>
            /\ Show("success", passes)
        BY <2>1
      <3> QED BY <2>2, <2>3, <3>1, ShowStep
    <2> QED BY <1>3, <2>1, <2>4 DEF Halts
  <1>10. CASE DumpIr
    <2>1. /\ Compiling("ir") /\ Continue /\ UNCHANGED <<status, hadErrors, disk>>
          /\ Show("module", passes) /\ flags' = flags /\ status = "files"
          /\ ~Asked("-tokens") /\ ~Asked("-ast") /\ ~Asked("-sema")
          /\ Asked("-opt") \/ Asked("-ir")
          /\ passes = {"parser", "analyzer", "generator", "optimizer"}
      BY <1>1, <1>10 DEF DumpIr, Compiling, StageReached, arguments
    <2>2. Earliest(4) \/ Earliest(5)
      BY <2>1, StagesInOrder DEF Earliest
    <2>3. /\ Due([what |-> "module", passes |-> passes, file |-> filename], 4)
          /\ Due([what |-> "module", passes |-> passes, file |-> filename], 5)
      BY <2>1, StagesInOrder, PassesInOrder DEF Due
    <2>4. ShownAsAsked' /\ NoneLeftOut'
      BY <2>1, <2>2, <2>3, ShowStep
    <2> QED BY <1>3, <2>1, <2>4 DEF Halts
  <1>11. CASE Emit
    <2>1. /\ Compiling("emit") /\ flags' = flags /\ inputFiles' = inputFiles
          /\ status = "files" /\ flags \subseteq Flags
          /\ ~Asked("-tokens") /\ ~Asked("-ast") /\ ~Asked("-sema")
          /\ ~Asked("-opt") /\ ~Asked("-ir")
          /\ passes = {"parser", "analyzer", "generator", "optimizer"}
      BY <1>1, <1>11 DEF Emit, Compiling, arguments, StageReached, IInv, Types
    <2>2. ~Halting /\ ~Halting'
      BY <2>1 DEF Halting, Dumps, Asked
    <2>3. CASE CannotWrite
      <3>1. hadErrors' /\ UNCHANGED <<shown, status>>
        BY <2>3 DEF CannotWrite, Fail
      <3> QED BY <2>1, <2>2, <3>1, SilentStep DEF Halts, NothingWritten
    <2>4. CASE Abort
      <3>1. UNCHANGED <<files, shown, hadErrors>> /\ status' = "aborted"
        BY <2>4 DEF Abort
      <3> QED BY <2>1, <2>2, <3>1, SilentStep DEF Halts, NothingWritten
    <2>5. CASE Write
      <3>1. Continue /\ UNCHANGED <<status, hadErrors>>
        BY <2>5 DEF Write
      <3>2. CASE Asked("-asm")
        <4>1. Show("assembly", passes \cup {"backend"})
          BY <2>5, <3>2 DEF Write
        <4>2. Earliest(6)
          BY <2>1, <3>2, StagesInOrder DEF Earliest
        <4>3. Due([what |-> "assembly", passes |-> passes \cup {"backend"},
                   file |-> filename], 6)
          <5>1. passes \cup {"backend"} = PassesBefore(6)
            BY <2>1, PassesInOrder
          <5> QED BY <5>1, StagesInOrder DEF Due
        <4>4. ShownAsAsked' /\ NoneLeftOut'
          BY <2>1, <3>1, <4>1, <4>2, <4>3, ShowStep
        <4> QED BY <2>2, <4>4 DEF Halts, NothingWritten
      <3>3. CASE ~Asked("-asm")
        <4>1. flags \cap Dumps = {} /\ shown' = shown
          BY <2>1, <2>5, <3>3 DEF Write, Dumps, Asked
        <4>2. ShownAsAsked'
          BY <2>1, <4>1 DEF Halts, ShownAsAsked, Earliest, Asked
        <4> QED BY <2>1, <2>2, <4>1, <4>2 DEF Halts, NoneLeftOut, NothingWritten
      <3> QED BY <3>2, <3>3
    <2> QED BY <1>11, <2>3, <2>4, <2>5 DEF Emit
  <1> QED BY <1>2, <1>4, <1>5, <1>6, <1>7, <1>8, <1>9, <1>10, <1>11 DEF Next

(* Of each file is shown what the earliest of the flags names, after the   *)
(* passes in front of that stage (with -ir the optimizer too), and nothing *)
(* else; no file is left out, and nothing is written before the last stage. *)
THEOREM HaltsWhereTold == Spec => []HaltsWhereAsked
  <1>1. IInv /\ Halts => HaltsWhereAsked
    <2> SUFFICES ASSUME IInv, Halts PROVE HaltsWhereAsked
      OBVIOUS
    <2>1. \A p \in shown : \E k \in DOMAIN Stages : Earliest(k) /\ Due(p, k)
      BY StagesInOrder DEF Halts, ShownAsAsked
    <2>2. ASSUME status = "exit 0", flags \cap Dumps # {}, NEW k \in DOMAIN inputFiles
          PROVE  \E p \in shown : p.file = inputFiles[k]
      <3>1. files = << >> /\ ~hadErrors
        BY <2>2 DEF IInv, Phases
      <3>2. inputFiles \in Seq(Arg) /\ Len(files) = 0
        BY <3>1 DEF IInv, Types
      <3>3. k \in 1..Done
        BY <3>2, LenProperties DEF Done
      <3> QED BY <2>2, <3>1, <3>3 DEF Halts, NoneLeftOut
    <2> QED BY <2>1, <2>2 DEF Halts, Due, Halting, NothingWritten, HaltsWhereAsked
  <1>2. IInv /\ Halts /\ [Next]_driverVars => Halts'
    BY HaltsStep
  <1> QED BY <1>1, <1>2, HaltsInit, InvariantHolds, PTL DEF Spec

-----------------------------------------------------------------------------
(* Linking.  Without the assumption two inputs may share an assembly file. *)
Elements(s) == {s[k] : k \in 1..Len(s)}
StemsApart ==
  \A line \in CommandLines : \A x, y \in Elements(line) :
    AsmFilename(x) = AsmFilename(y) => x = y

FromLine ==
  \E line \in CommandLines :
    Elements(argv) \subseteq Elements(line) /\ Elements(inputFiles) \subseteq Elements(line)

(* Each file that is done has its assembly, listed in order and its own.   *)
Assembled ==
  status \in {"files", "link"} /\ flags = {} /\ ~hadErrors =>
    /\ asmFiles \in Seq({AsmFilename(x) : x \in Arg}) /\ Len(asmFiles) = Done
    /\ \A k \in 1..Done :
         /\ asmFiles[k] = AsmFilename(inputFiles[k])
         /\ asmFiles[k] \in DOMAIN disk /\ disk[asmFiles[k]] = inputFiles[k]

LEMMA LinkingInit == Init => FromLine /\ Assembled
  <1> SUFFICES ASSUME Init PROVE FromLine
    BY DEF Init, Assembled
  <1>1. Elements(inputFiles) = {}
    BY DEF Init, Elements
  <1> QED BY <1>1 DEF Init, FromLine

LEMMA FromLineStep ==
  ASSUME IInv, FromLine, [Next]_driverVars
  PROVE  FromLine'
  <1>1. PICK line \in CommandLines :
          Elements(argv) \subseteq Elements(line) /\ Elements(inputFiles) \subseteq Elements(line)
    BY DEF FromLine
  <1>2. argv \in Seq(Arg) /\ inputFiles \in Seq(Arg)
    BY DEF IInv, Types
  <1>3. CASE SetFlag \/ SetOutputFile \/ AddInputFile
    <2>1. argv # << >> /\ \E n \in {1, 2} : argv' = SubSeq(argv, n + 1, Len(argv))
      BY <1>3 DEF SetFlag, SetOutputFile, AddInputFile, Arguments
    <2>2. Elements(argv') \subseteq Elements(argv)
      <3>1. PICK n \in {1, 2} : argv' = SubSeq(argv, n + 1, Len(argv))
        BY <2>1
      <3>2. /\ \A k \in 1..(Len(argv) - (n + 1) + 1) : argv'[k] = argv[n + 1 + k - 1]
            /\ Len(argv') = IF n + 1 <= Len(argv) THEN Len(argv) - (n + 1) + 1 ELSE 0
        BY <1>2, <3>1, SubSeqProperties
      <3> QED BY <1>2, <3>2 DEF Elements
    <2>3. arg \in Elements(argv)
      BY <1>2, <2>1, HeadTailProperties DEF arg, Elements
    <2>4. inputFiles' = inputFiles \/ inputFiles' = Append(inputFiles, arg)
      BY <1>3 DEF SetFlag, SetOutputFile, AddInputFile
    <2>5. Elements(inputFiles') \subseteq Elements(inputFiles) \cup {arg}
      <3>1. arg \in Arg
        BY <1>2, <2>1, HeadTailProperties DEF arg
      <3> QED BY <1>2, <2>4, <3>1, AppendProperties, SMTT(30) DEF Elements
    <2> QED BY <1>1, <2>2, <2>3, <2>5 DEF FromLine, Elements
  <1>4. CASE UNCHANGED <<argv, inputFiles>>
    BY <1>1, <1>4 DEF FromLine, Elements
  <1>5. CASE UNCHANGED driverVars \/ EndArguments \/ EndFiles \/ Link
    BY <1>4, <1>5 DEF driverVars, arguments, EndArguments, EndFiles, Link
  <1>6. CASE \/ OpenFile \/ DumpTokens \/ Parse \/ DumpAst \/ Analyze \/ DumpSema
             \/ Generate \/ Optimize \/ DumpIr \/ Emit
    BY <1>4, <1>6 DEF OpenFile, DumpTokens, Parse, DumpAst, Analyze, DumpSema, Generate, Optimize, DumpIr,
         Emit, Compiling, arguments
  <1> QED BY <1>3, <1>5, <1>6 DEF Next

LEMMA AssembledStep ==
  ASSUME StemsApart, IInv, FromLine, Assembled, [Next]_driverVars
  PROVE  Assembled'
  <1> DEFINE Names == {AsmFilename(x) : x \in Arg}
  <1>1. inputFiles \in Seq(Arg) /\ files \in Seq(Arg) /\ StageReached /\ Types
    BY DEF IInv, Types
  <1>2. ASSUME UNCHANGED <<status, flags, hadErrors, asmFiles, disk, inputFiles, files>>
        PROVE  Assembled'
    BY <1>2 DEF Assembled, Done
  <1>3. CASE UNCHANGED driverVars
    BY <1>2, <1>3 DEF driverVars, arguments, results
  <1>4. CASE SetFlag \/ SetOutputFile \/ AddInputFile
    BY <1>4 DEF SetFlag, SetOutputFile, AddInputFile, Arguments, Assembled
  <1>5. CASE EndArguments
    <2>1. asmFiles' = << >> /\ files' = inputFiles /\ inputFiles' = inputFiles
      BY <1>5 DEF EndArguments, arguments, results, IInv, Phases
    <2>2. Len(inputFiles) \in Nat
      BY <1>1, LenProperties
    <2>3. Len(files') = Len(inputFiles) /\ Len(inputFiles') = Len(inputFiles)
      BY <2>1, Zenon
    <2>4. Done' = 0 /\ Len(asmFiles') = 0 /\ asmFiles' \in Seq(Names)
      BY <2>1, <2>2, <2>3 DEF Done
    <2> QED BY <2>4 DEF Assembled
  <1>6. CASE Fail
    BY <1>6 DEF Fail, Assembled
  <1>7. CASE OpenFile \/ Parse \/ Analyze
    BY <1>2, <1>6, <1>7 DEF OpenFile, Parse, Analyze, Goto, Compiling, arguments
  <1>8. CASE DumpTokens \/ DumpAst \/ DumpSema \/ DumpIr
    <2>1. flags # {} /\ flags' = flags
      BY <1>1, <1>8 DEF DumpTokens, DumpAst, DumpSema, DumpIr, Compiling, arguments,
           StageReached, Asked
    <2> QED BY <2>1 DEF Assembled
  <1>12. CASE Generate
    BY <1>2, <1>12 DEF Generate, Goto, Compiling, arguments
  <1>9. CASE Optimize
    <2>1. status' \in {status, "aborted"} /\ UNCHANGED <<flags, hadErrors, asmFiles, disk, inputFiles, files>>
      BY <1>9 DEF Optimize, Goto, Compiling, arguments
    <2>2. CASE status' = status
      BY <1>2, <2>1, <2>2
    <2>3. CASE status' = "aborted"
      BY <2>3 DEF Assembled
    <2> QED BY <2>1, <2>2, <2>3
  <1>10. CASE EndFiles \/ Link
    BY <1>10 DEF EndFiles, Link, Assembled, arguments, results, Done
  <1>11. CASE Emit
    <2>1. Compiling("emit") /\ flags' = flags /\ inputFiles' = inputFiles /\ status = "files"
      BY <1>11 DEF Emit, Compiling, arguments
    <2>2. CASE CannotWrite
      BY <1>6, <2>2 DEF CannotWrite
    <2>3. CASE Abort
      BY <2>3 DEF Abort, Assembled
    <2>4. CASE Write
      <3> SUFFICES ASSUME flags = {}, ~hadErrors
                   PROVE  Assembled'
        BY <2>1, <2>4 DEF Write, Assembled
      <3> DEFINE name == AsmFilename(filename)
      <3>1. /\ asmFiles \in Seq(Names) /\ Len(asmFiles) = Done
            /\ \A k \in 1..Done :
                 /\ asmFiles[k] = AsmFilename(inputFiles[k])
                 /\ asmFiles[k] \in DOMAIN disk /\ disk[asmFiles[k]] = inputFiles[k]
        BY <2>1 DEF Assembled
      <3>2. /\ Done \in Nat /\ Done' = Done + 1 /\ Done + 1 \in 1..Len(inputFiles)
            /\ inputFiles[Done + 1] = filename /\ filename \in Arg
        BY <2>1, <2>4, NextFile DEF Write
      <3>3. name \in Names
        BY <3>2
      <3>4. asmFiles' = Append(asmFiles, name) /\ disk' = Written(name, filename)
        BY <2>4 DEF Write
      <3>5. /\ asmFiles' \in Seq(Names) /\ Len(asmFiles') = Done + 1
            /\ \A k \in 1..Done : asmFiles'[k] = asmFiles[k]
            /\ asmFiles'[Done + 1] = name
        <4> HIDE DEF name, Names
        <4> QED BY <3>1, <3>3, <3>4, AppendProperties
      <3>6. /\ DOMAIN disk' = {name} \cup DOMAIN disk
            /\ disk'[name] = filename
            /\ \A x \in DOMAIN disk : x # name => disk'[x] = disk[x]
        <4> HIDE DEF name
        <4> QED BY <3>4 DEF Written
      <3>7. ASSUME NEW k \in 1..Done, asmFiles[k] = name PROVE inputFiles[k] = filename
        <4>1. AsmFilename(inputFiles[k]) = AsmFilename(inputFiles[Done + 1])
          BY <3>1, <3>2, <3>7
        <4>2. inputFiles[k] \in Elements(inputFiles) /\ inputFiles[Done + 1] \in Elements(inputFiles)
          BY <3>2 DEF Elements
        <4> QED BY <3>2, <4>1, <4>2 DEF StemsApart, FromLine
      <3>8. ASSUME NEW k \in 1..Done'
            PROVE  /\ asmFiles'[k] = AsmFilename(inputFiles'[k])
                   /\ asmFiles'[k] \in DOMAIN disk' /\ disk'[asmFiles'[k]] = inputFiles'[k]
        <4>1. CASE k = Done + 1
          BY <2>1, <3>2, <3>5, <3>6, <4>1
        <4>2. CASE k \in 1..Done
          <5>1. asmFiles'[k] = asmFiles[k] /\ asmFiles[k] = AsmFilename(inputFiles[k])
            BY <3>1, <3>5, <4>2
          <5>2. asmFiles[k] \in DOMAIN disk /\ disk[asmFiles[k]] = inputFiles[k]
            BY <3>1, <4>2
          <5>3. disk'[asmFiles[k]] = inputFiles[k]
            BY <3>6, <3>7, <4>2, <5>2
          <5> QED BY <2>1, <3>6, <5>1, <5>2, <5>3
        <4> QED BY <3>2, <4>1, <4>2
      <3> QED BY <3>2, <3>5, <3>8 DEF Assembled
    <2> QED BY <1>11, <2>2, <2>3, <2>4 DEF Emit
  <1> QED BY <1>3, <1>4, <1>5, <1>7, <1>8, <1>9, <1>10, <1>11, <1>12 DEF Next

(* gcc is given the assembly of every input file, in order, each written   *)
(* in this run from the file it is named after, if no two inputs share a   *)
(* stem.                                                                   *)
THEOREM LinkedIsComplete ==
  ASSUME StemsApart
  PROVE  Spec => []LinkedComplete
  <1>1. ASSUME IInv, Assembled PROVE LinkedComplete
    <2>1. inputFiles \in Seq(Arg)
      BY <1>1 DEF IInv, Types
    <2>2. Len(inputFiles) \in Nat /\ DOMAIN inputFiles = 1..Len(inputFiles)
      BY <2>1, LenProperties
    <2>3. ASSUME status = "link"
          PROVE  /\ asmFiles = [k \in DOMAIN inputFiles |-> AsmFilename(inputFiles[k])]
                 /\ \A k \in DOMAIN inputFiles : disk[asmFiles[k]] = inputFiles[k]
      <3>1. files = << >> /\ ~hadErrors /\ flags = {}
        BY <1>1, <2>3 DEF IInv, Phases
      <3>2. Len(files) = 0
        BY <3>1
      <3>3. Done = Len(inputFiles)
        BY <2>2, <3>2 DEF Done
      <3>4. /\ asmFiles \in Seq({AsmFilename(x) : x \in Arg}) /\ Len(asmFiles) = Len(inputFiles)
            /\ \A k \in 1..Len(inputFiles) :
                 asmFiles[k] = AsmFilename(inputFiles[k]) /\ disk[asmFiles[k]] = inputFiles[k]
        BY <1>1, <2>3, <3>1, <3>3 DEF Assembled
      <3>5. asmFiles = [k \in 1..Len(inputFiles) |-> asmFiles[k]]
        BY <3>4, LenProperties
      <3> QED BY <2>2, <3>4, <3>5
    <2> QED BY <2>3 DEF LinkedComplete
  <1>2. StemsApart
    OBVIOUS
  <1>3. IInv /\ FromLine /\ Assembled /\ [Next]_driverVars => FromLine' /\ Assembled'
    BY <1>2, FromLineStep, AssembledStep
  <1>4. IInv /\ Assembled => LinkedComplete
    BY <1>1
  <1>5. Init => FromLine /\ Assembled
    BY LinkingInit
  <1> QED BY <1>3, <1>4, <1>5, InvariantHolds, PTL DEF Spec
=============================================================================
