---------------------------- MODULE DemoRuntime -----------------------------
(***************************************************************************)
(* The local runtime: the tool that initialises the database (demo/init_db.py, *)
(* demo/bootstrap.py) and the server that opens it (api/runtime.py), composed *)
(* with the administration of a LOT that the server then serves.            *)
(*                                                                         *)
(* The tool builds the file in several commits.  It may be killed between    *)
(* any two of them, or one of them may raise.  The operator starts the server *)
(* when the tool has ended and stops it before a reset (README.md:52).        *)
(***************************************************************************)
EXTENDS LotAdmin, Sequences

CONSTANT Seeded      \* the value the fixture gives the columns that are not null

VARIABLES
  file,          \* the number of stages committed to the file, None without a file
  up,            \* is the server running?
  tool,          \* what init_db does next
  reset,         \* was it called with --reset?
  cut            \* did the run that made the file end without finishing it?

demo == <<file, up, tool, reset, cut>>

(* The commits of initialize_demo_database, in order.                       *)
Stages == <<"schema", "fixture", "LOT-101", "LOT-102", "plan">>
Complete == Len(Stages)

(* No file is not a file without tables.                                    *)
ASSUME DemoAssumption == Seeded \in Values /\ None \notin 0 .. Complete

NoRows == /\ table' = [e \in Tables |-> None]
          /\ eligible' = [o \in {} |-> None]
          /\ worked' = FALSE

Idle == \A s \in Sessions : pc[s] = "idle"
Requested == <<lock, pc, req, row, ops, code, early>>

-----------------------------------------------------------------------------
(* python -m production_control.demo.init_db                                *)
Run(r) ==
  /\ tool = "idle"
  /\ r => ~ up
  /\ tool' = "check" /\ reset' = r
  /\ UNCHANGED <<file, up, cut, vars>>

(* Mutant: an existing file is replaced without being asked.                 *)
Refused_Never == FALSE
Refused == file # None /\ ~ reset

(* database_path.exists(): FileExistsError, or unlink                        *)
Check ==
  /\ tool = "check"
  /\ IF Refused
     THEN /\ tool' = "idle" /\ reset' = FALSE
          /\ UNCHANGED <<file, cut, table, eligible, worked>>
     ELSE /\ tool' = "build" /\ file' = None /\ cut' = FALSE
          /\ NoRows /\ UNCHANGED reset
  /\ UNCHANGED <<up, Requested>>

(* The first connection makes an empty file.                                *)
Open ==
  /\ tool = "build" /\ file = None
  /\ file' = 0
  /\ UNCHANGED <<up, tool, reset, cut, vars>>

(* The rows of LOT-101 and its gate in seed_f02_fixture                      *)
Fixture ==
  [e \in Tables |-> [f \in Columns(e) |-> IF f = "completed_at" THEN None ELSE Seeded]]

(* materialize_lot_execution: an operation that exists is left alone.        *)
Materialized ==
  [o \in Ops |-> IF o \in DOMAIN eligible THEN eligible[o] ELSE table["lot"]["release_at"]]

Stage ==
  /\ tool = "build" /\ file \in 0 .. Complete - 1
  /\ file' = file + 1
  /\ table' = IF Stages[file'] = "fixture" THEN Fixture ELSE table
  /\ eligible' = IF Stages[file'] = "LOT-101" THEN Materialized ELSE eligible
  /\ IF file' = Complete
     THEN tool' = "idle" /\ reset' = FALSE
     ELSE UNCHANGED <<tool, reset>>
  /\ UNCHANGED <<up, cut, worked, Requested>>

(* A stage raises.  create_schema is called before the try block; from then   *)
(* on the file is removed.  Mutant: it is left.                              *)
Cleaned_Never == FALSE
Cleaned == file > 0

Fail ==
  /\ tool = "build" /\ file # None
  /\ IF Cleaned
     THEN file' = None /\ NoRows /\ UNCHANGED cut
     ELSE cut' = (file = 0) /\ UNCHANGED <<file, table, eligible, worked>>
  /\ tool' = "idle" /\ reset' = FALSE
  /\ UNCHANGED <<up, Requested>>

Kill ==
  /\ tool # "idle"
  /\ tool' = "idle" /\ reset' = FALSE
  /\ cut' = (cut \/ (tool = "build" /\ file # None))
  /\ UNCHANGED <<file, up, vars>>

(* create_demo_app: the file need only exist.                               *)
Openable == file # None

Start ==
  /\ ~ up /\ tool = "idle"
  /\ Openable
  /\ up' = TRUE
  /\ UNCHANGED <<file, tool, reset, cut, vars>>

Stop ==
  /\ up /\ Idle
  /\ up' = FALSE
  /\ UNCHANGED <<file, tool, reset, cut, vars>>

(* Requests and work events.  While there are no tables every request is      *)
(* answered 500 and changes nothing.                                        *)
Served ==
  /\ up /\ file \in 1 .. Complete
  /\ \/ \E s \in Sessions : (\E r \in Requests : Receive(s, r)) \/ Serve(s)
     \/ \E rework \in {{}} \cup {{o} : o \in Ops} : Work(rework)
  /\ UNCHANGED demo

Down ==
  /\ up /\ Crash
  /\ up' = FALSE
  /\ UNCHANGED <<file, tool, reset, cut>>

-----------------------------------------------------------------------------
DemoInit ==
  /\ Init /\ table = Fixture
  /\ file = Complete /\ up = FALSE
  /\ tool = "idle" /\ reset = FALSE /\ cut = FALSE

DemoNext ==
  \/ \E r \in BOOLEAN : Run(r)
  \/ Check
  \/ Open
  \/ Stage
  \/ Fail
  \/ Kill
  \/ Start
  \/ Stop
  \/ Served
  \/ Down

DemoSpec == DemoInit /\ [][DemoNext]_<<vars, demo>>

-----------------------------------------------------------------------------
(* Properties                                                               *)

(* ServedComplete: a running server has a completely initialised database, if *)
(* the run that made it was not killed and did not fail in create_schema: one *)
(* that raises later leaves no file that create_demo_app would accept.        *)
ServedComplete == up /\ ~ cut => file = Complete

(* WorkKept: reported work and changed LOTs disappear only in a run that was  *)
(* told to reset, whatever runs are refused, raise or are killed ("an existing *)
(* DB is not overwritten without --reset", README.md).                        *)
WorkKept ==
  [][\A e \in Tables : table[e] # None /\ table'[e] = None =>
       reset \/ (~ worked /\ table = Fixture)]_<<vars, demo>>
=============================================================================
