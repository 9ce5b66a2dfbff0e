----------------------------- MODULE SchemaUpgrade -----------------------------
(* init_db on a database of an earlier version: db.py 47-313.  A statement that *)
(* changes the schema commits by itself; the UPDATEs of one transaction and the *)
(* statements after them commit together.  The process may die between any two *)
(* commits, and starts again from the version check.                            *)
EXTENDS Integers

CONSTANTS
  Deps,        \* deployments of the old database
  Current,     \* SCHEMA_VERSION
  MaxDeaths    \* bound: deaths and shutdowns

ASSUME CurrentVersion == Current \in Nat \ {0}
ASSUME MaxDeathsNat == MaxDeaths \in Nat

VARIABLES
  version,     \* PRAGMA user_version
  tables,      \* which of recipes and templates exist
  library,     \* the table that holds the user's templates
  link,        \* the column by which a deployment names its template
  columns,     \* answer columns of deployments: json (plain), enc (encrypted)
  answers,     \* in which column a deployment has ask-on-deploy answers
  original,    \* which successful deploy a deployment's original plan is from
  past,        \* whether the first and the second of them can be verified
  sqlite,      \* what this SQLite can do to a column: nothing, rename, drop too
  stage,       \* place in init_db
  deaths

schema == <<version, tables, library, link, columns, answers, original, past,
            sqlite, stage, deaths>>

\* A new database, one of an earlier version at any of the old layouts, an
\* upgraded one, or one that a newer program has written.
UpgradeInit ==
  /\ version \in {0, Current, Current + 1}
  /\ \/ /\ tables = {} /\ columns = {} /\ link = "none" /\ version = 0
        /\ answers = [d \in Deps |-> {}] /\ original = [d \in Deps |-> "none"]
        /\ library = "templates"
     \/ /\ tables \in {{"recipes"}, {"templates"}} /\ library \in tables
        /\ columns \in {{"json"}, {"json", "enc"}, {"enc"}}
        /\ link \in {"recipe_id", "template_id"}
        /\ answers \in [Deps -> {{}} \cup {{c} : c \in columns}]
        /\ original \in [Deps -> {"none", "saved"}]
        /\ version # 0 => columns = {"enc"} /\ library = "templates" /\ link = "template_id"
  /\ past \in [Deps -> {"good", "bad"} \X {"none", "good"}]
  /\ sqlite \in {"old", "renames", "drops"}
  /\ stage = "off" /\ deaths = 0

\* Mutant of Following: create_all runs first.
CreateFirst ==
  [off |-> "create", create |-> "rename", rename |-> "relink", relink |-> "add",
   add |-> "move", move |-> "backfill", backfill |-> "stamp", stamp |-> "serving"]
\* _rename_legacy runs before create_all, the encryption before the drop.
Following ==
  [off |-> "rename", rename |-> "relink", relink |-> "create", create |-> "add",
   add |-> "move", move |-> "backfill", backfill |-> "stamp", stamp |-> "serving"]

AtStage(s) == stage = s /\ stage' = Following[s]

StartUp ==
  /\ stage = "off"
  /\ stage' = IF version > Current THEN "refused" ELSE Following["off"]
  /\ UNCHANGED <<version, tables, library, link, columns, answers, original, past,
                 sqlite, deaths>>

RenameTable ==
  /\ AtStage("rename")
  /\ IF tables = {"recipes"}
     THEN tables' = {"templates"} /\ library' = "templates"
     ELSE UNCHANGED <<tables, library>>
  /\ UNCHANGED <<version, link, columns, answers, original, past, sqlite, deaths>>

\* An SQLite that cannot rename a column is warned about and goes on.
RenameLink ==
  /\ AtStage("relink")
  /\ link' = IF link = "recipe_id" /\ sqlite # "old" THEN "template_id" ELSE link
  /\ UNCHANGED <<version, tables, library, columns, answers, original, past, sqlite, deaths>>

\* create_all makes the missing tables, of the present layout, and no column.
CreateAll ==
  /\ AtStage("create")
  /\ tables' = tables \cup {"templates"}
  /\ columns' = IF columns = {} THEN {"enc"} ELSE columns
  /\ link' = IF link = "none" THEN "template_id" ELSE link
  /\ UNCHANGED <<version, library, answers, original, past, sqlite, deaths>>

\* Mutant of AddNeeded: the column is added without a look at the table.
AddAlways == TRUE

AddNeeded == "enc" \notin columns

\* ALTER TABLE refuses a column that is there: init_db raises, the start fails.
AddColumn ==
  /\ stage = "add"
  /\ IF AddNeeded /\ "enc" \in columns
     THEN stage' = "off" /\ UNCHANGED columns
     ELSE /\ stage' = Following["add"]
          /\ columns' = columns \cup {"enc"}
  /\ UNCHANGED <<version, tables, library, link, answers, original, past, sqlite, deaths>>

\* Mutant of Moved: the plain answers are blanked before they are read.
BlankedOnly(cells) == cells \ {"json"}

\* What one row holds after the UPDATEs: a row already encrypted is not read.
Moved(cells) == IF "json" \in cells THEN {"enc"} ELSE cells

\* One transaction: encrypt, blank the plain answers, drop the column if possible.
MoveAnswers ==
  /\ AtStage("move")
  /\ IF "json" \in columns
     THEN /\ answers' = [d \in Deps |-> Moved(answers[d])]
          /\ columns' = IF sqlite = "drops" THEN {"enc"} ELSE columns
     ELSE UNCHANGED <<answers, columns>>
  /\ UNCHANGED <<version, tables, library, link, original, past, sqlite, deaths>>

\* Only the earliest successful deploy is a candidate (seen), verified or not.
Recovered(d) == IF past[d][1] = "good" THEN "first" ELSE "none"

\* _backfill_original_plans, one transaction; a saved original is left alone.
Backfill ==
  /\ AtStage("backfill")
  /\ original' = [d \in Deps |-> IF original[d] = "none" THEN Recovered(d) ELSE original[d]]
  /\ UNCHANGED <<version, tables, library, link, columns, answers, past, sqlite, deaths>>

Stamp ==
  /\ AtStage("stamp")
  /\ version' = Current
  /\ UNCHANGED <<tables, library, link, columns, answers, original, past, sqlite, deaths>>

\* The process is killed, or shut down while it serves.
StopProcess ==
  /\ stage \notin {"off", "refused"} /\ deaths < MaxDeaths
  /\ stage' = "off" /\ deaths' = deaths + 1
  /\ UNCHANGED <<version, tables, library, link, columns, answers, original, past, sqlite>>

Upgrading ==
  \/ StartUp \/ RenameTable \/ RenameLink \/ CreateAll \/ AddColumn \/ MoveAnswers
  \/ Backfill \/ Stamp
UpgradeNext == Upgrading \/ StopProcess

\* init_db runs to its end or dies: nothing in it waits.
UpgradeSpec == UpgradeInit /\ [][UpgradeNext]_schema /\ WF_schema(Upgrading)

--------------------------------------------------------------------------------
UpgradeTypeOK ==
  /\ version \in {0, Current, Current + 1}
  /\ tables \subseteq {"recipes", "templates"} /\ library \in {"recipes", "templates"}
  /\ link \in {"none", "recipe_id", "template_id"} /\ columns \subseteq {"json", "enc"}
  /\ answers \in [Deps -> SUBSET {"json", "enc"}]
  /\ original \in [Deps -> {"none", "saved", "first", "second"}]
  /\ stage \in DOMAIN Following \cup {"serving", "refused"} /\ deaths \in 0..MaxDeaths
  /\ stage = "serving" => version = Current /\ "enc" \in columns

\* What an operator has survives the upgrade, whatever commit a death falls behind and
\* however often it is started again: the library of templates is never stranded in the
\* old table by an empty new one made beside it (db.py 72-100), and a deployment's original
\* plan is what was saved or what the first successful deploy admitted, never a later
\* one's (db.py 249-312).
HistoryKept ==
  /\ library \in tables \/ tables = {}
  /\ stage = "serving" => library = "templates" /\ (sqlite # "old" => link = "template_id")
  /\ \A d \in Deps : original[d] # "second" /\ (original[d] = "first" => past[d][1] = "good")

\* No death loses a deployment's answers, and once the program serves none of
\* them is left in plain text, even if the column could not be dropped (db.py 172-193).
AnswersSealed ==
  [][/\ \A d \in Deps : answers[d] # {} => answers[d]' # {}
     /\ stage' = "serving" => \A d \in Deps : "json" \notin answers'[d]]_schema

\* However often it is interrupted, an upgrade that is started ends in service, or
\* the newer database is refused (db.py 47-62).
UpgradeEnds == stage # "off" ~> stage \in {"serving", "refused"}
================================================================================
