------------------------------- MODULE Startup ------------------------------
(***************************************************************************)
(* What main does before the bot runs (main.go), over one process after    *)
(* another: config.json is read, the operator is asked for the parameters  *)
(* it does not give, the file is rewritten in place, and the sqlite file   *)
(* is created when there is none (InitDb, utils/sqliteClient.go).  The     *)
(* process can be killed at any point, and the operator edits the file in  *)
(* any way: new values, keys left out or empty, more text, broken JSON, no *)
(* file at all.                                                            *)
(*                                                                         *)
(* A text is its length, blanks at its end left out, and the parameters a   *)
(* JSON parser finds in it.                                                *)
(***************************************************************************)
EXTENDS Integers

CONSTANTS
    Param,     \* the parameters checkEnv asks for
    Value,     \* the values they can have
    Default,   \* the value proposed at the prompt
    Unset,     \* no value: the key is missing or its value is empty
    Length,    \* the length of the text checkEnv writes for some values
    MaxExtra,  \* bound: text an edit adds that the bot does not write itself
    MaxBroken, \* bound: the length of a text that is not JSON
    MaxStarts, \* bound: processes started
    MaxRows    \* bound: trades a process records

ASSUME StartupAssumption ==
    /\ Unset \notin Value
    /\ Default \in Value
    /\ Length \in [[Param -> Value \cup {Unset}] -> Nat]
    /\ MaxExtra \in Nat /\ MaxBroken \in Nat /\ MaxStarts \in Nat /\ MaxRows \in Nat

VARIABLES
    config, \* config.json: whether it exists, parses, says what, how long
    dbfile, \* the sqlite file: "absent", "empty" or with its "table"
    env,    \* the environment of the process
    pc,     \* where main is, "down" when there is no process
    starts, \* processes started
    rows,   \* trades in the table
    \* Observed, not in the code:
    written,    \* a process has written the parameters to config.json
    edited,     \* the operator has changed the file since
    removed,    \* the parameters that edit left without a value
    outgrown,   \* that edit left text the next write may not cover
    interrupted \* a process ended between making the sqlite file and its table

observed == <<written, edited, removed, outgrown, interrupted>>
disk == <<config, dbfile, rows>>
vars == <<disk, env, pc, starts, observed>>

NoValues == [p \in Param |-> Unset]

NoFile == [exists |-> FALSE, parses |-> FALSE, values |-> NoValues, length |-> 0]
Garbled(length) ==
    [exists |-> TRUE, parses |-> FALSE, values |-> NoValues, length |-> length]
Text(values, extra) ==
    [exists |-> TRUE, parses |-> TRUE, values |-> values,
     length |-> Length[values] + extra]

Init ==
    /\ config = NoFile
    /\ dbfile = "absent"
    /\ env = NoValues
    /\ pc = "down"
    /\ starts = 0
    /\ rows = 0
    /\ written = FALSE /\ edited = FALSE /\ removed = {}
    /\ outgrown = FALSE /\ interrupted = FALSE

-----------------------------------------------------------------------------
(* Parameters (setEnv, loadEnv, checkEnv) *)

Goto(from, to) == pc = from /\ pc' = to

Start ==
    /\ Goto("down", "load")
    /\ starts < MaxStarts
    /\ starts' = starts + 1
    /\ UNCHANGED <<disk, env, observed>>

\* Whatever parses becomes the environment; no error of loadEnv is looked at.
LoadEnv ==
    /\ Goto("load", "ask")
    /\ env' = IF config.parses THEN config.values ELSE env
    /\ UNCHANGED <<disk, starts, observed>>

\* The operator answers the prompt, or takes the default with an empty line.
Ask(p, v) ==
    /\ pc = "ask"
    /\ env[p] = Unset
    /\ env' = [env EXCEPT ![p] = v]
    /\ UNCHANGED <<disk, pc, starts, observed>>

OpensAs(text) ==
    /\ Goto("ask", "write")
    /\ \A p \in Param : env[p] # Unset
    /\ config' = text
    /\ UNCHANGED <<dbfile, rows, env, starts, observed>>

\* Faulty: the old text is cut before the new one is written.
OpenTruncating == OpensAs(Garbled(0))

\* O_CREATE|O_WRONLY: the file is made when missing, never cut.
OpenConfig == OpensAs(IF config.exists THEN config ELSE Garbled(0))

\* Faulty: what goes beyond the end of the old text is not written.
OverwriteToOldLength(values) ==
    [Text(values, 0) EXCEPT !.length = config.length]

\* A text written over a longer one leaves the end of that one behind it; a
\* file removed since it was opened stays removed.
Overwrite(values) ==
    LET new == Text(values, 0) IN
        CASE ~config.exists -> config
          [] config.exists /\ config.length <= new.length -> new
          [] OTHER -> Garbled(config.length)

Writes(values) ==
    /\ Goto("write", "stat")
    /\ config' = Overwrite(values)
    /\ written' = TRUE
    /\ edited' = FALSE
    /\ removed' = {}
    /\ outgrown' = (outgrown /\ ~config'.parses)
    /\ UNCHANGED <<dbfile, rows, env, starts, interrupted>>

\* Faulty: the proposed defaults are written, not the answers.
WriteDefaults == Writes([p \in Param |-> Default])

WriteConfig == Writes(env)

-----------------------------------------------------------------------------
(* The database (InitDb) and the bot *)

\* Faulty: a missing file is taken for one that is there.
StatBlind == Goto("stat", "run") /\ UNCHANGED <<disk, env, starts, observed>>

StatDb ==
    /\ Goto("stat", IF dbfile = "absent" THEN "create" ELSE "run")
    /\ UNCHANGED <<disk, env, starts, observed>>

\* The driver makes an empty file on first use, before the statement runs.
CreateFile ==
    /\ Goto("create", "table")
    /\ dbfile' = "empty"
    /\ UNCHANGED <<config, rows, env, starts, observed>>

CreateTable ==
    /\ Goto("table", "run")
    /\ dbfile' = "table"
    /\ UNCHANGED <<config, rows, env, starts, observed>>

\* A row goes to the table; without one the insert fails, unseen by the bot.
Insert ==
    /\ pc = "run"
    /\ rows < MaxRows
    /\ rows' = IF dbfile = "table" THEN rows + 1 ELSE rows
    /\ dbfile' = IF dbfile = "absent" THEN "empty" ELSE dbfile
    /\ UNCHANGED <<config, env, pc, starts, observed>>

\* A kill, or an error main ends with: the file cannot be opened, the table
\* cannot be created, the exchange cannot be reached, the GUI is left.
End ==
    /\ pc # "down"
    /\ pc' = "down"
    /\ env' = NoValues
    /\ interrupted' = (interrupted \/ pc = "table")
    /\ UNCHANGED <<disk, starts, written, edited, removed, outgrown>>

\* What the operator can leave in place of the file.
Edited ==
    {Text(values, extra) : values \in [Param -> Value \cup {Unset}], extra \in 0 .. MaxExtra}
        \cup {Garbled(n) : n \in 0 .. MaxBroken} \cup {NoFile}

\* Whatever a process that reads the text is told at its prompts, what it
\* writes is as long.
Covered(text) ==
    \A values \in [Param -> Value] :
        (\A p \in Param : text.values[p] # Unset => values[p] = text.values[p])
            => text.length <= Length[values]

\* The operator changes the file, maybe after a process has read it and before
\* it writes; no new file is made in the moment a removed one is written to.
Edit(new) ==
    /\ pc = "write" => config.exists
    /\ config' = new
    /\ edited' = TRUE
    /\ removed' = {p \in Param : new.values[p] = Unset}
    /\ outgrown' = (pc \in {"ask", "write"} \/ ~Covered(new))
    /\ UNCHANGED <<dbfile, rows, env, pc, starts, written, interrupted>>

Next ==
    \/ Start \/ LoadEnv
    \/ \E p \in Param, v \in Value : Ask(p, v)
    \/ OpenConfig \/ WriteConfig
    \/ StatDb \/ CreateFile \/ CreateTable
    \/ Insert
    \/ End
    \/ \E new \in Edited : Edit(new)

Spec == Init /\ [][Next]_vars

-----------------------------------------------------------------------------
(* Properties *)

TypeOK ==
    /\ config \in [exists : BOOLEAN, parses : BOOLEAN,
                   values : [Param -> Value \cup {Unset}], length : Nat]
    /\ IF config.parses THEN Length[config.values] <= config.length
                        ELSE config.values = NoValues
    /\ config.exists \/ config = NoFile
    /\ dbfile \in {"absent", "empty", "table"}
    /\ env \in [Param -> Value \cup {Unset}]
    /\ pc \in {"down", "load", "ask", "write", "stat", "create", "table", "run"}
    /\ starts \in Nat /\ rows \in Nat
    /\ written \in BOOLEAN /\ edited \in BOOLEAN /\ removed \subseteq Param
    /\ outgrown \in BOOLEAN /\ interrupted \in BOOLEAN

Asks(p) == pc = "ask" /\ env[p] = Unset

\* Once a process has written the parameters no later one asks for any, over
\* kills and edits: but for one that the last edit left without a value, by an
\* empty or missing key, broken JSON or a removed file, and but for an edit that
\* left the file longer than what is written over it, by its text or by coming
\* between the reading and the writing of a process (main.go:121-145, 157).
AsksWithReason ==
    \A p \in Param : Asks(p) => ~written \/ p \in removed \/ outgrown

\* README.md:64 and 80: the bot asks for the parameters on the first run, later
\* ones are adjusted by an edit.
AsksOnFirstRunOnly == \A p \in Param : Asks(p) => ~written \/ p \in removed

\* The file a process leaves behind says what that process runs with, or it
\* does not parse at all: it never holds parameters of an earlier life.
FileSaysParameters ==
    pc \in {"stat", "create", "table", "run"} /\ ~edited /\ config.parses =>
        config.values = env

\* A bot runs without a table, its inserts failing unseen, only after some
\* process has ended between making the file and its table; and then rows
\* are never written again (sqliteClient.go:13).
TableUnlessInterrupted ==
    /\ pc = "run" => dbfile = "table" \/ interrupted
    /\ interrupted => dbfile = "empty" /\ rows = 0

-----------------------------------------------------------------------------
(* The inductive invariant behind the safety properties *)

Writing == {"write", "stat", "create", "table", "run"}

\* Past the prompts, every parameter has a value.
Answered == pc \in Writing => env \in [Param -> Value]

\* Never outgrown, the text is one the next write covers, once written it lacks
\* only what was removed, and the process about to write has read it.
FileSolid ==
    ~outgrown =>
        /\ Covered(config)
        /\ written => \A p \in Param : config.values[p] = Unset => p \in removed
        /\ pc \in {"ask", "write"} =>
            \A p \in Param : config.values[p] # Unset => env[p] = config.values[p]
        /\ pc = "write" => config.exists

\* Who has seen the sqlite file without its table.
DbStages ==
    /\ pc = "create" => dbfile = "absent"
    /\ pc = "table" => dbfile = "empty" /\ ~interrupted
    /\ dbfile = "absent" => rows = 0 /\ ~interrupted
    /\ dbfile = "empty" => rows = 0 /\ (interrupted \/ pc = "table")

IInv ==
    /\ TypeOK
    /\ Answered
    /\ FileSolid
    /\ FileSaysParameters
    /\ DbStages
    /\ TableUnlessInterrupted
=============================================================================
