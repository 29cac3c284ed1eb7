--------------------------- MODULE StartupProofs ----------------------------
(***************************************************************************)
(* The safety properties of Startup, for every set of parameters, every    *)
(* way their text can be long or short, and any number of processes,       *)
(* edits and kills, from the inductive invariant IInv.                     *)
(***************************************************************************)
EXTENDS Startup, TLAPS

USE StartupAssumption

LEMMA InitIInv == Init => IInv
  <1> SUFFICES ASSUME Init PROVE IInv
    OBVIOUS
  <1> USE DEF Init
  <1>1. TypeOK
    BY DEF TypeOK, NoFile, NoValues
  <1>2. FileSolid
    BY DEF FileSolid, Covered, NoFile
  <1>3. Answered /\ FileSaysParameters
    BY DEF Answered, Writing, FileSaysParameters
  <1>4. DbStages /\ TableUnlessInterrupted
    BY DEF DbStages, TableUnlessInterrupted
  <1>5. QED
    BY <1>1, <1>2, <1>3, <1>4 DEF IInv

\* Steps of main that leave both files alone, but for the prompt.
LEMMA QuietStep ==
  ASSUME IInv, Start \/ LoadEnv \/ StatDb
  PROVE  IInv'
  <1> USE DEF IInv, disk, observed
  <1>1. CASE Start
    BY <1>1 DEF Start, Goto, TypeOK, Answered, Writing, FileSolid, Covered,
                FileSaysParameters, DbStages, TableUnlessInterrupted
  <1>2. CASE LoadEnv
    <2> USE <1>2 DEF LoadEnv, Goto
    <2>1. TypeOK'
      BY DEF TypeOK
    <2>2. FileSolid'
      <3>1. \A p \in Param : config.values[p] # Unset => env'[p] = config.values[p]
        BY DEF TypeOK, NoValues
      <3>2. QED
        BY <3>1 DEF FileSolid, Covered
    <2>3. QED
      BY <2>1, <2>2 DEF Answered, Writing, FileSaysParameters, DbStages,
                        TableUnlessInterrupted
  <1>3. CASE StatDb
    BY <1>3 DEF StatDb, Goto, TypeOK, Answered, Writing, FileSolid, Covered,
                FileSaysParameters, DbStages, TableUnlessInterrupted
  <1>4. QED
    BY <1>1, <1>2, <1>3

\* An answer is given for a parameter only that the file gives no value.
LEMMA AskStep ==
  ASSUME IInv, NEW p \in Param, NEW v \in Value, Ask(p, v)
  PROVE  IInv'
  <1> USE DEF IInv, disk, observed
  <1>1. TypeOK'
    BY DEF Ask, TypeOK
  <1>2. FileSolid'
    <2> SUFFICES ASSUME ~outgrown, NEW r \in Param, config.values[r] # Unset
                 PROVE  env'[r] = config.values[r]
      BY DEF Ask, FileSolid, Covered
    <2>1. env[r] = config.values[r] /\ env[p] = Unset
      BY DEF Ask, FileSolid
    <2>2. r # p
      BY <2>1
    <2>3. QED
      BY <2>1, <2>2 DEF Ask, TypeOK
  <1>3. QED
    BY <1>1, <1>2 DEF Ask, Answered, Writing, FileSaysParameters, DbStages,
                      TableUnlessInterrupted

LEMMA OpenConfigStep ==
  ASSUME IInv, OpenConfig
  PROVE  IInv'
  <1> USE DEF IInv, OpenConfig, OpensAs, observed
  <1>1. env \in [Param -> Value] /\ env' = env
    BY DEF TypeOK
  <1>2. TypeOK'
    BY DEF Goto, TypeOK, Garbled, NoValues, NoFile
  <1>3. /\ config'.values = config.values /\ config'.length = config.length
        /\ config'.exists
    BY DEF TypeOK, NoFile, Garbled
  <1>4. FileSolid'
    BY <1>1, <1>3 DEF FileSolid, Covered, Goto
  <1>5. QED
    BY <1>1, <1>2, <1>4 DEF Goto, Answered, Writing, FileSaysParameters, DbStages,
                            TableUnlessInterrupted

\* What is written over a text it covers is all there is, and a text that
\* parses once written is what was written.
LEMMA WriteConfigStep ==
  ASSUME IInv, WriteConfig
  PROVE  IInv'
  <1> USE DEF IInv, WriteConfig, Writes, Goto
  <1>1. env \in [Param -> Value] /\ env' = env
    BY DEF Answered, Writing
  <1>2. Length[env] \in Nat /\ env \in [Param -> Value \cup {Unset}]
    BY <1>1
  <1>3. config' = Overwrite(env)
    OBVIOUS
  <1>4. TypeOK'
    <2>1. config' \in [exists : BOOLEAN, parses : BOOLEAN,
                       values : [Param -> Value \cup {Unset}], length : Nat]
      BY <1>2, <1>3 DEF TypeOK, Overwrite, Text, Garbled, NoValues
    <2>2. /\ IF config'.parses THEN Length[config'.values] <= config'.length
                              ELSE config'.values = NoValues
          /\ config'.exists \/ config' = NoFile
      BY <1>2, <1>3 DEF TypeOK, Overwrite, Text, Garbled
    <2>3. QED
      BY <1>1, <2>1, <2>2 DEF TypeOK, NoValues, NoFile
  <1>5. config'.parses => config' = Text(env, 0)
    <2>1. ~config.exists => ~config.parses
      BY DEF TypeOK, NoFile
    <2>2. QED
      BY <1>3, <2>1 DEF Overwrite, Garbled
  <1>6. CASE config' = Text(env, 0)
    <2>1. config'.values = env /\ config'.length = Length[env]
      BY <1>2, <1>6 DEF Text
    <2>2. Covered(config)'
      <3> SUFFICES ASSUME NEW values \in [Param -> Value],
                          \A p \in Param : config'.values[p] # Unset
                                             => values[p] = config'.values[p]
                   PROVE  config'.length <= Length[values]
        BY DEF Covered
      <3>1. \A p \in Param : values[p] = env[p]
        BY <1>1, <2>1
      <3>2. values = env
        BY <1>1, <3>1
      <3>3. QED
        BY <1>2, <2>1, <3>2
    <2>3. \A p \in Param : config'.values[p] # Unset
      BY <1>1, <2>1
    <2>4. FileSolid'
      BY <2>2, <2>3 DEF FileSolid
    <2>5. QED
      BY <1>1, <1>4, <2>1, <2>4 DEF Answered, Writing, FileSaysParameters, DbStages,
                                    TableUnlessInterrupted
  <1>7. CASE config' # Text(env, 0)
    <2>1. ~config'.parses
      BY <1>5, <1>7
    <2>2. outgrown
      <3> SUFFICES ASSUME ~outgrown PROVE FALSE
        BY DEF TypeOK
      <3>1. config.exists /\ Covered(config)
            /\ \A p \in Param : config.values[p] # Unset => env[p] = config.values[p]
        BY DEF FileSolid
      <3>2. config.length <= Length[env]
        BY <1>1, <3>1 DEF Covered
      <3>3. config' = Text(env, 0)
        BY <1>2, <1>3, <3>1, <3>2 DEF Overwrite, Text
      <3>4. QED
        BY <1>7, <3>3
    <2>3. FileSolid'
      <3>1. outgrown'
        BY <2>1, <2>2
      <3>2. QED
        BY <3>1 DEF FileSolid
    <2>4. QED
      BY <1>1, <1>4, <2>1, <2>3 DEF Answered, Writing, FileSaysParameters, DbStages,
                                    TableUnlessInterrupted
  <1>8. QED
    BY <1>6, <1>7

\* Steps that touch the sqlite file only.
LEMMA DbStep ==
  ASSUME IInv, CreateFile \/ CreateTable \/ Insert
  PROVE  IInv'
  <1> USE DEF IInv, observed
  <1>1. TypeOK'
    BY DEF CreateFile, CreateTable, Insert, Goto, TypeOK
  <1>2. Answered' /\ FileSolid' /\ FileSaysParameters'
    BY DEF CreateFile, CreateTable, Insert, Goto, Answered, Writing, FileSolid, Covered,
           FileSaysParameters
  <1>3. DbStages' /\ TableUnlessInterrupted'
    <2>1. CASE CreateFile
      BY <2>1 DEF CreateFile, Goto, DbStages, TableUnlessInterrupted, TypeOK
    <2>2. CASE CreateTable
      BY <2>2 DEF CreateTable, Goto, DbStages, TableUnlessInterrupted, TypeOK
    <2>3. CASE Insert
      BY <2>3 DEF Insert, DbStages, TableUnlessInterrupted, TypeOK
    <2>4. QED
      BY <2>1, <2>2, <2>3
  <1>4. QED
    BY <1>1, <1>2, <1>3

LEMMA EndStep ==
  ASSUME IInv, End
  PROVE  IInv'
  <1> USE DEF IInv, End, disk
  <1>1. TypeOK'
    BY DEF TypeOK, NoValues
  <1>2. Answered' /\ FileSolid' /\ FileSaysParameters'
    BY DEF Answered, Writing, FileSolid, Covered, FileSaysParameters
  <1>3. DbStages' /\ TableUnlessInterrupted'
    BY DEF DbStages, TableUnlessInterrupted, TypeOK
  <1>4. QED
    BY <1>1, <1>2, <1>3

\* What config.json can be.
IsText(text) ==
    /\ text \in [exists : BOOLEAN, parses : BOOLEAN,
                values : [Param -> Value \cup {Unset}], length : Nat]
    /\ IF text.parses THEN Length[text.values] <= text.length ELSE text.values = NoValues
    /\ text.exists \/ text = NoFile

\* An edit may outgrow the file, or it comes while no process has read it.
LEMMA EditStep ==
  ASSUME IInv, NEW new \in Edited, Edit(new)
  PROVE  IInv'
  <1> USE DEF IInv, Edit
  <1>1. IsText(new)
    <2>1. ASSUME NEW values \in [Param -> Value \cup {Unset}], NEW extra \in 0 .. MaxExtra,
                 new = Text(values, extra)
          PROVE  IsText(new)
      <3>1. Length[values] \in Nat /\ extra \in Nat
        OBVIOUS
      <3>2. QED
        BY <2>1, <3>1 DEF Text, IsText
    <2>2. ASSUME NEW n \in 0 .. MaxBroken, new = Garbled(n)
          PROVE  IsText(new)
      BY <2>2 DEF Garbled, NoValues, IsText
    <2>3. CASE new = NoFile
      BY <2>3 DEF NoFile, NoValues, IsText
    <2>4. QED
      BY <2>1, <2>2, <2>3 DEF Edited
  <1>2. TypeOK'
    BY <1>1 DEF TypeOK, NoFile, NoValues, IsText
  <1>3. FileSolid'
    <2> SUFFICES ASSUME ~outgrown'
                 PROVE  /\ Covered(new) /\ pc' \notin {"ask", "write"}
                        /\ \A p \in Param : new.values[p] = Unset => p \in removed'
      BY DEF FileSolid, Covered
    <2>1. QED
      OBVIOUS
  <1>4. QED
    BY <1>2, <1>3 DEF Answered, Writing, FileSaysParameters, DbStages,
                      TableUnlessInterrupted

LEMMA StepIInv == IInv /\ [Next]_vars => IInv'
  <1> SUFFICES ASSUME IInv, [Next]_vars PROVE IInv'
    OBVIOUS
  <1>1. CASE Start \/ LoadEnv \/ StatDb
    BY <1>1, QuietStep
  <1>2. CASE \E p \in Param, v \in Value : Ask(p, v)
    BY <1>2, AskStep
  <1>3. CASE OpenConfig
    BY <1>3, OpenConfigStep
  <1>4. CASE WriteConfig
    BY <1>4, WriteConfigStep
  <1>5. CASE CreateFile \/ CreateTable \/ Insert
    BY <1>5, DbStep
  <1>6. CASE End
    BY <1>6, EndStep
  <1>7. CASE \E new \in Edited : Edit(new)
    BY <1>7, EditStep
  <1>8. CASE UNCHANGED vars
    BY <1>8 DEF vars, disk, observed, IInv, TypeOK, Answered, FileSolid, Covered,
                FileSaysParameters, DbStages, TableUnlessInterrupted
  <1>9. QED
    BY <1>1, <1>2, <1>3, <1>4, <1>5, <1>6, <1>7, <1>8 DEF Next

-----------------------------------------------------------------------------

\* IInv holds in every reachable state of main, over all processes.
THEOREM Inductive == Spec => []IInv
  BY InitIInv, StepIInv, PTL DEF Spec

\* Types of the files and the process, over all kills and edits.
THEOREM TypeCorrect == Spec => []TypeOK
  BY Inductive, PTL DEF IInv

\* No process asks again for what was written, over every way to edit or remove
\* the file, but for what the last edit removed or once the file was outgrown.
THEOREM AsksOnce == Spec => []AsksWithReason
  <1>1. IInv => AsksWithReason
    BY DEF IInv, AsksWithReason, Asks, FileSolid
  <1>2. QED
    BY <1>1, Inductive, PTL

\* config.json says what the process runs with, or does not parse.
THEOREM FileTrue == Spec => []FileSaysParameters
  BY Inductive, PTL DEF IInv

\* A sqlite file without a table is always the work of an interrupted InitDb.
THEOREM TableThere == Spec => []TableUnlessInterrupted
  BY Inductive, PTL DEF IInv
=============================================================================
