----------------------------- MODULE DemoProofs -----------------------------
(***************************************************************************)
(* Theorems about the demo runtime and the administration of its LOTs, for    *)
(* any number of sessions, any operations, values and PATCHes.               *)
(***************************************************************************)
EXTENDS DemoRuntime, TLAPS

Cells == Values \cup {None}
Phases == {"idle", "load", "check", "sync", "commit"}

(* What a request rests on: the row that it loaded is still there, and who is *)
(* at work on a LOT without work events, or got past the check, arrived before *)
(* the first of them.                                                       *)
Serving(s) ==
  /\ pc[s] # "idle" => req[s] \in Requests
  /\ pc[s] # "idle" /\ ~ worked => s \in early
  /\ pc[s] \in {"sync", "commit"} /\ Moves(s) => s \in early
  /\ pc[s] \in {"check", "sync", "commit"} => table[req[s].table] # None

AdminTypes ==
  /\ table = [e \in Tables |-> table[e]]
  /\ \A e \in Tables : table[e] \in [Columns(e) -> Cells] \cup {None}
  /\ worked \in BOOLEAN
  /\ pc \in [Sessions -> Phases]
  /\ req = [s \in Sessions |-> req[s]]
  /\ code = [s \in Sessions |-> code[s]]

AdminInv == AdminTypes /\ \A s \in Sessions : Serving(s)

(* The tool builds while nobody serves, and what a run that was not cut short *)
(* leaves is nothing or everything.                                         *)
FileInv ==
  /\ file \in {None} \cup 0 .. Complete
  /\ tool \in {"idle", "check", "build"}
  /\ up \in BOOLEAN /\ reset \in BOOLEAN /\ cut \in BOOLEAN
  /\ ~ up => Idle
  /\ up => file # None /\ tool # "build" /\ ~ reset
  /\ tool = "idle" => ~ reset
  /\ tool # "build" /\ ~ cut => file \in {None, Complete}
  /\ file \in {None, 0, 1} => \A e \in Tables : table[e] = None
  /\ tool = "build" =>
       ~ worked /\ (table = Fixture \/ \A e \in Tables : table[e] = None)

DInv == AdminInv /\ FileInv

-----------------------------------------------------------------------------
(* Requests                                                                 *)

LEMMA RequestFacts ==
  ASSUME NEW r \in Requests
  PROVE  /\ r.table \in Tables
         /\ DOMAIN r.patch \subseteq Columns(r.table)
         /\ \A f \in DOMAIN r.patch : r.patch[f] \in Cells
<1>1. PICK e \in Tables : r \in [table : {e}, known : BOOLEAN, patch : Patches(e)]
  BY DEF Requests
<1>2. r.table = e /\ r.patch \in Patches(e)
  BY <1>1
<1>3. PICK F \in SUBSET (Named \cap Columns(e)) : r.patch \in [F -> Cells]
  BY <1>2 DEF Patches, Cells
<1> QED BY <1>2, <1>3

(* A session is not disturbed by what the others do.                        *)
LEMMA OthersKept ==
  ASSUME AdminInv, NEW t \in Sessions,
         pc'[t] = pc[t], req'[t] = req[t], t \in early => t \in early',
         worked => worked', worked' \in BOOLEAN,
         \A e \in Tables : table[e] # None => table'[e] # None
  PROVE  Serving(t)'
<1>1. Serving(t)
  BY DEF AdminInv
<1>2. pc[t] # "idle" => req[t].table \in Tables
  BY <1>1, RequestFacts DEF Serving
<1>3. Moves(t)' <=> Moves(t)
  BY DEF Moves
<1> QED BY <1>1, <1>2, <1>3 DEF Serving

(* A row that a PATCH has been written to is a row.                          *)
LEMMA WrittenRow ==
  ASSUME AdminInv, NEW s \in Sessions, pc[s] = "commit"
  PROVE  /\ req[s].table \in Tables
         /\ RowWritten(s) \in [Columns(req[s].table) -> Cells]
         /\ RowWritten(s) # None
<1> DEFINE e == req[s].table
<1>1. req[s] \in Requests /\ table[e] # None
  BY DEF AdminInv, Serving
<1>2. e \in Tables /\ \A f \in DOMAIN req[s].patch : req[s].patch[f] \in Cells
  BY <1>1, RequestFacts
<1>3. table[e] \in [Columns(e) -> Cells]
  BY <1>1, <1>2 DEF AdminInv, AdminTypes
<1>4. Changed(s) \subseteq DOMAIN req[s].patch
  BY DEF Changed
<1>5. \A f \in Columns(e) :
        (IF f \in Changed(s) THEN req[s].patch[f] ELSE table[e][f]) \in Cells
  BY <1>2, <1>3, <1>4
<1>6. RowWritten(s) \in [Columns(e) -> Cells]
  BY <1>5 DEF RowWritten
<1> QED BY <1>2, <1>6, LotAdminAssumption DEF Cells

LEMMA ReceiveKeeps ==
  ASSUME AdminInv, NEW s \in Sessions, NEW r \in Requests, Receive(s, r)
  PROVE  AdminInv'
<1>1. AdminTypes'
  BY DEF AdminInv, AdminTypes, Receive, Phases
<1>2. Serving(s)'
  BY DEF AdminInv, AdminTypes, Serving, Receive
<1>3. ASSUME NEW t \in Sessions, t # s PROVE Serving(t)'
  BY <1>3, OthersKept DEF AdminInv, AdminTypes, Receive
<1> QED BY <1>1, <1>2, <1>3 DEF AdminInv

(* A response leaves nothing behind of the request.                          *)
LEMMA ReplyKeeps ==
  ASSUME AdminInv, NEW s \in Sessions, NEW c, Reply(s, c), worked' = worked,
         table' = [e \in Tables |-> table'[e]],
         \A e \in Tables : table'[e] \in [Columns(e) -> Cells] \cup {None},
         \A e \in Tables : table[e] # None => table'[e] # None
  PROVE  AdminInv'
<1>1. AdminTypes'
  BY DEF AdminInv, AdminTypes, Reply, Phases
<1>2. Serving(s)'
  BY DEF AdminInv, AdminTypes, Serving, Reply
<1>3. ASSUME NEW t \in Sessions, t # s PROVE Serving(t)'
  <2>1. pc'[t] = pc[t] /\ req'[t] = req[t] /\ (t \in early => t \in early')
    BY <1>3 DEF AdminInv, AdminTypes, Reply
  <2> QED BY <2>1, OthersKept DEF AdminInv, AdminTypes
<1> QED BY <1>1, <1>2, <1>3 DEF AdminInv

LEMMA LoadKeeps ==
  ASSUME AdminInv, NEW s \in Sessions, Load(s)
  PROVE  AdminInv'
<1>1. CASE req[s].known /\ table[req[s].table] # None
  <2>1. AdminTypes'
    BY <1>1 DEF AdminInv, AdminTypes, Load, Phases
  <2>2. Serving(s)'
    <3>1. pc[s] = "load" /\ req' = req /\ early' = early /\ table' = table /\ worked' = worked
      BY <1>1 DEF Load
    <3>2. pc'[s] = IF Moves(s) THEN "check" ELSE "commit"
      BY <1>1 DEF AdminInv, AdminTypes, Load
    <3>3. Moves(s)' <=> Moves(s)
      BY <3>1 DEF Moves
    <3> QED BY <1>1, <3>1, <3>2, <3>3 DEF AdminInv, Serving
  <2>3. ASSUME NEW t \in Sessions, t # s PROVE Serving(t)'
    BY <1>1, <2>3, OthersKept DEF AdminInv, AdminTypes, Load
  <2> QED BY <2>1, <2>2, <2>3 DEF AdminInv
<1>2. CASE ~ (req[s].known /\ table[req[s].table] # None)
  <2>1. Reply(s, 404) /\ table' = table /\ worked' = worked
    BY <1>2 DEF Load
  <2> QED BY <2>1, ReplyKeeps DEF AdminInv, AdminTypes
<1> QED BY <1>1, <1>2

LEMMA CheckWorkKeeps ==
  ASSUME AdminInv, NEW s \in Sessions, CheckWork(s)
  PROVE  AdminInv'
<1>1. CASE ~ HasWorkEvent
  <2>1. /\ pc[s] = "check" /\ pc' = [pc EXCEPT ![s] = "sync"] /\ ~ worked
        /\ UNCHANGED <<table, worked, req, code, early>>
    BY <1>1 DEF CheckWork, HasWorkEvent
  <2>2. AdminTypes'
    BY <2>1 DEF AdminInv, AdminTypes, Phases
  <2>3. Serving(s)'
    <3>1. Serving(s) /\ pc'[s] = "sync"
      BY <2>1 DEF AdminInv, AdminTypes
    <3> QED BY <2>1, <3>1 DEF Serving
  <2>4. ASSUME NEW t \in Sessions, t # s PROVE Serving(t)'
    BY <2>1, <2>4, OthersKept DEF AdminInv, AdminTypes
  <2> QED BY <2>2, <2>3, <2>4 DEF AdminInv
<1>2. CASE HasWorkEvent
  <2>1. Reply(s, 409) /\ table' = table /\ worked' = worked
    BY <1>2 DEF CheckWork
  <2> QED BY <2>1, ReplyKeeps DEF AdminInv, AdminTypes
<1> QED BY <1>1, <1>2

LEMMA SyncKeeps ==
  ASSUME AdminInv, NEW s \in Sessions, Sync(s)
  PROVE  AdminInv'
<1>1. /\ pc[s] = "sync" /\ pc' = [pc EXCEPT ![s] = "commit"]
      /\ UNCHANGED <<table, worked, req, code, early>>
  BY DEF Sync
<1>2. AdminTypes'
  BY <1>1 DEF AdminInv, AdminTypes, Phases
<1>3. Serving(s)'
  <2>1. Serving(s) /\ pc'[s] = "commit" /\ (Moves(s)' <=> Moves(s))
    BY <1>1 DEF AdminInv, AdminTypes, Moves
  <2> QED BY <1>1, <2>1 DEF Serving
<1>4. ASSUME NEW t \in Sessions, t # s PROVE Serving(t)'
  BY <1>1, <1>4, OthersKept DEF AdminInv, AdminTypes
<1> QED BY <1>2, <1>3, <1>4 DEF AdminInv

LEMMA CommitKeeps ==
  ASSUME AdminInv, NEW s \in Sessions, Commit(s)
  PROVE  AdminInv'
<1>1. /\ pc[s] = "commit" /\ Reply(s, 200) /\ worked' = worked
      /\ table' = [table EXCEPT ![req[s].table] = RowWritten(s)]
  BY DEF Commit
<1>2. /\ req[s].table \in Tables /\ RowWritten(s) # None
      /\ RowWritten(s) \in [Columns(req[s].table) -> Cells]
  BY <1>1, WrittenRow
<1>3. /\ table' = [e \in Tables |-> table'[e]]
      /\ \A e \in Tables : table'[e] = IF e = req[s].table THEN RowWritten(s) ELSE table[e]
  BY <1>1, <1>2 DEF AdminInv, AdminTypes
<1> QED BY <1>1, <1>2, <1>3, ReplyKeeps DEF AdminInv, AdminTypes

LEMMA BusyTimeoutKeeps ==
  ASSUME AdminInv, NEW s \in Sessions, BusyTimeout(s)
  PROVE  AdminInv'
<1>1. Reply(s, 500) /\ table' = table /\ worked' = worked
  BY DEF BusyTimeout
<1> QED BY <1>1, ReplyKeeps DEF AdminInv, AdminTypes

LEMMA WorkKeeps ==
  ASSUME AdminInv, NEW rework, Work(rework)
  PROVE  AdminInv'
<1>1. worked' = TRUE /\ UNCHANGED <<table, pc, req, code, early>>
  BY DEF Work
<1> QED BY <1>1, OthersKept DEF AdminInv, AdminTypes

LEMMA CrashKeeps ==
  ASSUME AdminInv, Crash
  PROVE  AdminInv'
<1>1. /\ pc' = [s \in Sessions |-> "idle"] /\ req' = [s \in Sessions |-> None]
      /\ code' = [s \in Sessions |-> 0] /\ UNCHANGED <<table, worked>>
  BY DEF Crash
<1> QED BY <1>1 DEF AdminInv, AdminTypes, Serving, Phases

-----------------------------------------------------------------------------
(* What a step of the server does to the rows                                *)

(* Only COMMIT writes a row, and it writes only where a row is.              *)
RowsKept == table' = table

LEMMA ServeCases ==
  ASSUME NEW s \in Sessions, Serve(s), ~ Commit(s)
  PROVE  RowsKept /\ worked' = worked
BY DEF Serve, Load, CheckWork, Sync, BusyTimeout, RowsKept

LEMMA CommitRows ==
  ASSUME AdminInv, NEW s \in Sessions, Commit(s)
  PROVE  \A e \in Tables : table[e] = None <=> table'[e] = None
<1>1. /\ pc[s] = "commit"
      /\ table' = [table EXCEPT ![req[s].table] = RowWritten(s)]
  BY DEF Commit
<1>2. req[s].table \in Tables /\ RowWritten(s) # None
  BY <1>1, WrittenRow
<1>3. table[req[s].table] # None
  BY <1>1 DEF AdminInv, Serving
<1> QED BY <1>1, <1>2, <1>3 DEF AdminInv, AdminTypes

LEMMA ServedKeeps ==
  ASSUME AdminInv, Served
  PROVE  AdminInv' /\ \A e \in Tables : table[e] = None <=> table'[e] = None
<1>1. ASSUME NEW s \in Sessions, NEW r \in Requests, Receive(s, r)
      PROVE  AdminInv' /\ table' = table
  BY <1>1, ReceiveKeeps DEF Receive
<1>2. ASSUME NEW s \in Sessions, Serve(s)
      PROVE  AdminInv' /\ \A e \in Tables : table[e] = None <=> table'[e] = None
  <2>1. AdminInv'
    BY <1>2, LoadKeeps, CheckWorkKeeps, SyncKeeps, CommitKeeps, BusyTimeoutKeeps DEF Serve
  <2>2. CASE Commit(s)
    BY <2>1, <2>2, CommitRows
  <2>3. CASE ~ Commit(s)
    BY <1>2, <2>1, <2>3, ServeCases DEF RowsKept
  <2> QED BY <2>2, <2>3
<1>3. ASSUME NEW rework, Work(rework) PROVE AdminInv' /\ table' = table
  BY <1>3, WorkKeeps DEF Work
<1> QED BY <1>1, <1>2, <1>3 DEF Served

-----------------------------------------------------------------------------
(* The invariant                                                            *)

(* Between requests the tables may be emptied or filled.                    *)
LEMMA IdleKeeps ==
  ASSUME AdminTypes, Idle, UNCHANGED Requested,
         table' = [e \in Tables |-> table'[e]],
         \A e \in Tables : table'[e] \in [Columns(e) -> Cells] \cup {None},
         worked' \in BOOLEAN
  PROVE  AdminInv'
<1>1. AdminTypes'
  BY DEF AdminTypes, Requested
<1>2. \A s \in Sessions : pc'[s] = "idle"
  BY DEF Idle, Requested
<1> QED BY <1>1, <1>2 DEF AdminInv, Serving

LEMMA FixtureRow ==
  /\ Fixture = [e \in Tables |-> Fixture[e]]
  /\ \A e \in Tables : Fixture[e] \in [Columns(e) -> Cells] /\ Fixture[e] # None
<1>1. \A e \in Tables : Fixture[e] \in [Columns(e) -> Cells]
  BY DemoAssumption DEF Fixture, Cells
<1> QED BY <1>1, LotAdminAssumption DEF Fixture, Cells

LEMMA NoRowsTyped ==
  ASSUME NoRows
  PROVE  /\ table' = [e \in Tables |-> table'[e]]
         /\ \A e \in Tables : table'[e] = None
         /\ worked' = FALSE
BY DEF NoRows

(* Two of the stages fill the tables that PATCHes change.                    *)
LEMMA StageRows ==
  ASSUME DInv, Stage
  PROVE  /\ table' \in {table, Fixture}
         /\ file = 0 => table' = table
         /\ table' = Fixture => table = Fixture \/ \A e \in Tables : table[e] = None
<1>1. Stages[1] = "schema"
  BY DEF Stages
<1>2. table' \in {table, Fixture} /\ (file = 0 => table' = table)
  BY <1>1 DEF Stage
<1> QED BY <1>2 DEF DInv, FileInv, Stage


(* The administration of the LOT does not see a step that only the tool or    *)
(* the operator takes.                                                      *)
LEMMA AdminUnchanged ==
  ASSUME AdminInv, UNCHANGED <<table, worked, Requested>>
  PROVE  AdminInv' /\ (Idle' <=> Idle)
BY DEF AdminInv, AdminTypes, Serving, Moves, Requested, Idle

LEMMA Numbers == Complete = 5 /\ None \notin 0 .. 5
BY DemoAssumption DEF Complete, Stages

LEMMA CheckKeeps ==
  ASSUME DInv, Check
  PROVE  DInv'
<1>1. CASE Refused
  <2>1. UNCHANGED <<table, worked, Requested, file, cut, up>> /\ tool' = "idle" /\ ~ reset'
    BY <1>1 DEF Check
  <2>2. AdminInv' /\ (Idle' <=> Idle)
    BY <2>1, AdminUnchanged DEF DInv
  <2>3. tool = "check" /\ file' # None /\ tool' # "build"
    BY <1>1, <2>1 DEF Check, Refused
  <2>4. FileInv
    BY DEF DInv
  <2>5. reset' \in BOOLEAN
    BY <1>1 DEF Check
  <2>6. FileInv'
    BY <2>1, <2>2, <2>3, <2>4, <2>5 DEF FileInv
  <2> QED BY <2>2, <2>6 DEF DInv
<1>2. CASE ~ Refused
  <2>1. /\ NoRows /\ UNCHANGED <<Requested, up, reset>>
        /\ tool = "check" /\ tool' = "build" /\ file' = None /\ cut' = FALSE
    BY <1>2 DEF Check
  <2>2. ~ up /\ Idle
    BY <1>2 DEF DInv, FileInv, Refused
  <2>3. AdminInv'
    BY <2>1, <2>2, NoRowsTyped, IdleKeeps DEF DInv, AdminInv
  <2>4. Idle'
    BY <2>1, <2>2 DEF Idle, Requested
  <2>5. FileInv'
    BY <2>1, <2>2, <2>4, NoRowsTyped DEF DInv, FileInv
  <2> QED BY <2>3, <2>5 DEF DInv
<1> QED BY <1>1, <1>2

LEMMA StageKeeps ==
  ASSUME DInv, Stage
  PROVE  DInv'
<1>1. /\ tool = "build" /\ ~ up /\ Idle /\ ~ worked /\ file \in 0 .. 4 /\ file' = file + 1
      /\ UNCHANGED <<up, cut, worked, Requested>>
  BY Numbers DEF DInv, FileInv, Stage
<1>6. IF file' = 5 THEN tool' = "idle" /\ ~ reset' /\ reset' \in BOOLEAN
                   ELSE tool' = "build" /\ reset' = reset
  BY Numbers DEF Stage
<1>2. AdminInv'
  BY <1>1, StageRows, FixtureRow, IdleKeeps DEF DInv, AdminInv, AdminTypes
<1>3. Idle'
  BY <1>1 DEF Idle, Requested
<1>4. /\ file' = 1 => \A e \in Tables : table'[e] = None
      /\ table' = Fixture \/ \A e \in Tables : table'[e] = None
  BY <1>1, StageRows DEF DInv, FileInv
<1>5. FileInv'
  BY <1>1, <1>3, <1>4, <1>6, Numbers DEF DInv, FileInv
<1> QED BY <1>2, <1>5 DEF DInv

LEMMA FailKeeps ==
  ASSUME DInv, Fail
  PROVE  DInv'
<1>1. /\ tool = "build" /\ ~ up /\ Idle /\ tool' = "idle" /\ ~ reset' /\ reset' = FALSE
      /\ file \in 0 .. 5 /\ UNCHANGED <<up, Requested>>
  BY Numbers DEF DInv, FileInv, Fail
<1>2. Idle'
  BY <1>1 DEF Idle, Requested
<1>3. CASE Cleaned
  <2>1. file' = None /\ NoRows /\ cut' = cut
    BY <1>3 DEF Fail
  <2>2. AdminInv'
    BY <1>1, <2>1, NoRowsTyped, IdleKeeps DEF DInv, AdminInv
  <2>3. FileInv'
    BY <1>1, <1>2, <2>1, NoRowsTyped DEF DInv, FileInv
  <2> QED BY <2>2, <2>3 DEF DInv
<1>4. CASE ~ Cleaned
  <2>0. file = 0
    BY <1>1, <1>4 DEF Cleaned
  <2>1. cut' = (file = 0) /\ UNCHANGED <<file, table, worked>>
    BY <1>4 DEF Fail
  <2>4. cut' /\ cut' \in BOOLEAN
    BY <2>0, <2>1
  <2>2. AdminInv'
    BY <1>1, <2>1, AdminUnchanged DEF DInv
  <2>3. FileInv'
    BY <1>1, <1>2, <2>0, <2>1, <2>4 DEF DInv, FileInv
  <2> QED BY <2>2, <2>3 DEF DInv
<1> QED BY <1>3, <1>4

(* Run, Open, Kill, Start and Stop touch nothing but the file and the flags.  *)
LEMMA FlagsKeep ==
  ASSUME DInv, (\E r \in BOOLEAN : Run(r)) \/ Open \/ Kill \/ Start \/ Stop
  PROVE  DInv'
<1>1. UNCHANGED <<table, worked, Requested>>
  BY DEF Run, Open, Kill, Start, Stop, vars, Requested
<1>2. AdminInv' /\ (Idle' <=> Idle)
  BY <1>1, AdminUnchanged DEF DInv
<1>3. CASE \E r \in BOOLEAN : Run(r)
  BY <1>1, <1>2, <1>3 DEF DInv, FileInv, Run
<1>4. CASE Open
  BY <1>1, <1>2, <1>4, Numbers DEF DInv, FileInv, Open
<1>5. CASE Kill
  BY <1>1, <1>2, <1>5 DEF DInv, FileInv, Kill
<1>6. CASE Start
  BY <1>1, <1>2, <1>6 DEF DInv, FileInv, Start, Openable
<1>7. CASE Stop
  BY <1>1, <1>2, <1>7 DEF DInv, FileInv, Stop
<1> QED BY <1>3, <1>4, <1>5, <1>6, <1>7

LEMMA ServedFile ==
  ASSUME DInv, Served
  PROVE  DInv'
<1>1. AdminInv' /\ \A e \in Tables : table[e] = None <=> table'[e] = None
  BY ServedKeeps DEF DInv
<1>2. up /\ UNCHANGED <<file, up, tool, reset, cut>>
  BY DEF Served, demo
<1>3. FileInv'
  BY <1>1, <1>2 DEF DInv, FileInv
<1> QED BY <1>1, <1>3 DEF DInv

LEMMA DownKeeps ==
  ASSUME DInv, Down
  PROVE  DInv'
<1>1. /\ AdminInv' /\ UNCHANGED <<table, file, tool, reset, cut>>
      /\ up /\ up' = FALSE /\ pc' = [s \in Sessions |-> "idle"]
  BY CrashKeeps DEF Down, Crash, DInv
<1>2. Idle'
  BY <1>1 DEF Idle
<1> QED BY <1>1, <1>2 DEF DInv, FileInv

LEMMA DemoInitInv == DemoInit => DInv
<1> SUFFICES ASSUME DemoInit PROVE DInv
  OBVIOUS
<1>1. AdminInv
  BY FixtureRow DEF DemoInit, Init, AdminInv, AdminTypes, Serving, Phases
<1>2. FileInv
  <2>1. Idle /\ ~ up /\ ~ reset /\ ~ cut /\ tool = "idle" /\ file = 5
    BY Numbers DEF DemoInit, Init, Idle
  <2>2. up \in BOOLEAN /\ reset \in BOOLEAN /\ cut \in BOOLEAN
    BY DEF DemoInit
  <2> QED BY <2>1, <2>2, Numbers DEF FileInv
<1> QED BY <1>1, <1>2 DEF DInv

LEMMA DemoStepInv == DInv /\ [DemoNext]_<<vars, demo>> => DInv'
<1> SUFFICES ASSUME DInv, [DemoNext]_<<vars, demo>> PROVE DInv'
  OBVIOUS
<1>1. CASE UNCHANGED <<vars, demo>>
  <2>1. AdminInv' /\ (Idle' <=> Idle)
    BY <1>1, AdminUnchanged DEF DInv, vars, Requested
  <2> QED BY <1>1, <2>1 DEF DInv, FileInv, vars, demo
<1>2. CASE DemoNext
  BY <1>2, CheckKeeps, StageKeeps, FailKeeps, FlagsKeep, ServedFile, DownKeeps DEF DemoNext
<1> QED BY <1>1, <1>2

-----------------------------------------------------------------------------
(* The theorems                                                             *)

(* A running server has a complete database, unless the run that made it was   *)
(* killed or failed in create_schema.                                       *)
THEOREM DemoServes == DemoSpec => []ServedComplete
<1>1. DInv => ServedComplete
  BY DEF DInv, FileInv, ServedComplete
<1> QED BY DemoInitInv, DemoStepInv, <1>1, PTL DEF DemoSpec

(* No run destroys reported work or a changed LOT without being told to reset. *)
THEOREM WorkSurvives == DemoSpec => WorkKept
<1> DEFINE Kept == \A e \in Tables : table[e] # None /\ table'[e] = None =>
                       reset \/ (~ worked /\ table = Fixture)
<1>1. ASSUME DInv, DemoNext PROVE Kept
  <2>1. CASE Check
    <3>1. CASE Refused
      BY <2>1, <3>1 DEF Check
    <3>2. CASE ~ Refused /\ ~ reset
      BY <1>1, <3>2 DEF DInv, FileInv, Refused
    <3> QED BY <3>1, <3>2
  <2>2. CASE Stage
    BY <1>1, <2>2, StageRows, FixtureRow
  <2>3. CASE Fail
    BY <1>1, <2>3 DEF DInv, FileInv, Fail
  <2>4. CASE Served
    BY <2>4, <1>1, ServedKeeps DEF DInv
  <2>5. CASE (\E r \in BOOLEAN : Run(r)) \/ Open \/ Kill \/ Start \/ Stop \/ Down
    <3>1. table' = table
      BY <2>5 DEF Run, Open, Kill, Start, Stop, Down, Crash, vars
    <3> QED BY <3>1
  <2> QED BY <1>1, <2>1, <2>2, <2>3, <2>4, <2>5 DEF DemoNext
<1>2. DInv /\ [DemoNext]_<<vars, demo>> => [Kept]_<<vars, demo>>
  BY <1>1
<1> QED BY DemoInitInv, DemoStepInv, <1>2, PTL DEF DemoSpec, WorkKept

(* A 200 is answered by the COMMIT of the session, and by nothing else.       *)
LEMMA AcceptedCommits ==
  ASSUME AdminInv, Served, NEW s \in Sessions, Accepted(s)
  PROVE  Commit(s)
<1>1. ASSUME NEW t \in Sessions, NEW r \in Requests, Receive(t, r) PROVE FALSE
  BY <1>1 DEF Receive, Accepted, AdminInv, AdminTypes
<1>2. ASSUME NEW t \in Sessions, NEW c, Reply(t, c) PROVE s = t /\ c = 200
  BY <1>2 DEF Reply, Accepted, AdminInv, AdminTypes
<1>3. ASSUME NEW t \in Sessions, Load(t) PROVE FALSE
  <2>1. CASE Reply(t, 404)
    BY <1>2, <2>1
  <2>2. CASE pc' = [pc EXCEPT ![t] = IF Moves(t) THEN "check" ELSE "commit"]
    BY <1>3, <2>2 DEF Accepted, AdminInv, AdminTypes
  <2> QED BY <1>3, <2>1, <2>2 DEF Load
<1>4. ASSUME NEW t \in Sessions, CheckWork(t) PROVE FALSE
  <2>1. CASE Reply(t, 409)
    BY <1>2, <2>1
  <2>2. CASE pc' = [pc EXCEPT ![t] = "sync"]
    BY <1>4, <2>2 DEF Accepted, AdminInv, AdminTypes
  <2> QED BY <1>4, <2>1, <2>2 DEF CheckWork
<1>5. ASSUME NEW t \in Sessions, Sync(t) PROVE FALSE
  BY <1>5 DEF Sync, Accepted, AdminInv, AdminTypes
<1>6. ASSUME NEW t \in Sessions, BusyTimeout(t) PROVE FALSE
  BY <1>2, <1>6 DEF BusyTimeout
<1>7. ASSUME NEW t \in Sessions, Commit(t) PROVE Commit(s)
  <2>1. s = t
    BY <1>2, <1>7 DEF Commit
  <2> QED BY <1>7, <2>1
<1>8. ASSUME NEW rework, Work(rework) PROVE FALSE
  BY <1>8 DEF Work, Accepted
<1> QED BY <1>1, <1>3, <1>4, <1>5, <1>6, <1>7, <1>8 DEF Served, Serve

(* COMMIT writes the columns that the PATCH names, and only those.           *)
LEMMA CommitWrites ==
  ASSUME AdminInv, NEW s \in Sessions, Commit(s)
  PROVE  /\ Accepted(s) /\ req[s].table \in Tables
         /\ \A d \in Tables : \A f \in Columns(d) :
              table'[d][f] # table[d][f] => d = req[s].table /\ f \in DOMAIN req[s].patch
         /\ table[req[s].table] = row[s] =>
              \A f \in DOMAIN req[s].patch : table'[req[s].table][f] = req[s].patch[f]
<1> DEFINE e == req[s].table
<1>1. /\ pc[s] = "commit" /\ Reply(s, 200)
      /\ table' = [table EXCEPT ![e] = RowWritten(s)]
  BY DEF Commit
<1>2. e \in Tables /\ DOMAIN req[s].patch \subseteq Columns(e)
  BY <1>1, RequestFacts DEF AdminInv, Serving
<1>3. Accepted(s)
  BY <1>1 DEF Accepted, Reply, AdminInv, AdminTypes
<1>4. \A d \in Tables : table'[d] = IF d = e THEN RowWritten(s) ELSE table[d]
  BY <1>1, <1>2 DEF AdminInv, AdminTypes
<1>5. \A f \in Columns(e) :
        RowWritten(s)[f] = IF f \in Changed(s) THEN req[s].patch[f] ELSE table[e][f]
  BY DEF RowWritten
<1>6. \A f : f \in Changed(s) <=> f \in DOMAIN req[s].patch /\ req[s].patch[f] # row[s][f]
  BY DEF Changed
<1>7. \A d \in Tables : \A f \in Columns(d) :
        table'[d][f] # table[d][f] => d = e /\ f \in DOMAIN req[s].patch
  BY <1>4, <1>5, <1>6
<1>8. table[e] = row[s] => \A f \in DOMAIN req[s].patch : table'[e][f] = req[s].patch[f]
  BY <1>2, <1>4, <1>5, <1>6
<1> QED BY <1>2, <1>3, <1>7, <1>8

(* The rows that a step of the tool or of the operator leaves as they are, or  *)
(* finds or leaves empty; no request is answered by it.                      *)
LEMMA ToolRows ==
  ASSUME DInv, DemoNext, ~ Served
  PROVE  /\ \A e \in Tables : table[e] # None /\ table'[e] # None => table'[e] = table[e]
         /\ \A s \in Sessions : ~ Accepted(s)
         /\ worked /\ worked' => table' = table
<1>1. CASE Check \/ Fail
  <2>1. (table' = table /\ worked' = worked) \/ NoRows
    BY <1>1 DEF Check, Fail
  <2>2. UNCHANGED pc
    BY <1>1 DEF Check, Fail, Requested
  <2> QED BY <2>1, <2>2, NoRowsTyped DEF Accepted
<1>2. CASE Stage
  <2>1. UNCHANGED pc /\ ~ worked
    BY <1>2 DEF DInv, FileInv, Stage, Requested
  <2> QED BY <1>2, <2>1, StageRows DEF Accepted
<1>3. CASE (\E r \in BOOLEAN : Run(r)) \/ Open \/ Kill \/ Start \/ Stop
  BY <1>3 DEF Run, Open, Kill, Start, Stop, vars, Accepted
<1>4. CASE Down
  <2>1. table' = table /\ \A s \in Sessions : code'[s] = 0
    BY <1>4 DEF Down, Crash
  <2> QED BY <2>1 DEF Accepted
<1> QED BY <1>1, <1>2, <1>3, <1>4 DEF DemoNext

LEMMA ServeRows ==
  ASSUME Served, table' # table
  PROVE  \E s \in Sessions : Commit(s)
BY DEF Served, Serve, Receive, Load, CheckWork, Sync, BusyTimeout, Work

(* Columns change by the PATCHes that name them, and a PATCH answered 200 has  *)
(* been applied, through resets, crashes and failures.                       *)
THEOREM PatchesAreApplied == DemoSpec => PatchesApply
<1> DEFINE NamedOnly == \A e \in Tables : table[e] # None /\ table'[e] # None =>
                       \A f \in Columns(e) : table'[e][f] # table[e][f] =>
                         \E s \in Sessions : Accepted(s) /\ req[s].table = e /\ f \in DOMAIN req[s].patch
           Applied == \A s \in Sessions : Accepted(s) /\ table[req[s].table] = row[s] =>
                        \A f \in DOMAIN req[s].patch : table'[req[s].table][f] = req[s].patch[f]
<1>1. ASSUME DInv, DemoNext PROVE NamedOnly /\ Applied
  <2>1. CASE Served
    <3>1. Applied
      BY <1>1, <2>1, AcceptedCommits, CommitWrites DEF DInv
    <3>2. CASE table' = table
      BY <3>1, <3>2
    <3>3. CASE table' # table
      <4>1. PICK s \in Sessions : Commit(s)
        BY <2>1, <3>3, ServeRows
      <4>2. NamedOnly
        BY <1>1, <4>1, CommitWrites DEF DInv
      <4> QED BY <3>1, <4>2
    <3> QED BY <3>2, <3>3
  <2>2. CASE ~ Served
    BY <1>1, <2>2, ToolRows
  <2> QED BY <2>1, <2>2
<1>2. DInv /\ [DemoNext]_<<vars, demo>> => [NamedOnly /\ Applied]_vars
  BY <1>1
<1> QED BY DemoInitInv, DemoStepInv, <1>2, PTL DEF DemoSpec, PatchesApply

(* The release of a LOT that has been worked on moves only by a PATCH that     *)
(* arrived before the first work event.                                      *)
THEOREM ReleaseStays == DemoSpec => ReleaseFrozen
<1> DEFINE Frozen ==
      worked /\ worked' /\ table'["lot"]["release_at"] # table["lot"]["release_at"] =>
        \E s \in early : Accepted(s) /\ Moves(s)
<1>1. ASSUME DInv, DemoNext PROVE Frozen
  <2>1. CASE Served /\ table' # table
    <3>1. PICK s \in Sessions : Commit(s)
      BY <2>1, ServeRows
    <3>2. Accepted(s) /\ (table'["lot"]["release_at"] # table["lot"]["release_at"] => Moves(s))
      BY <1>1, <3>1, CommitWrites DEF DInv, Moves, Tables, Columns
    <3>3. Moves(s) => s \in early
      BY <1>1, <3>1 DEF DInv, AdminInv, Serving, Commit
    <3> QED BY <3>2, <3>3
  <2>2. CASE Served /\ table' = table
    BY <2>2
  <2>3. CASE ~ Served
    BY <1>1, <2>3, ToolRows
  <2> QED BY <2>1, <2>2, <2>3
<1>2. DInv /\ [DemoNext]_<<vars, demo>> => [Frozen]_vars
  BY <1>1
<1> QED BY DemoInitInv, DemoStepInv, <1>2, PTL DEF DemoSpec, ReleaseFrozen

-----------------------------------------------------------------------------
(* The copies of the release                                                *)

(* What a PATCH that moves the release has read is still so, for no other one  *)
(* moves it.                                                                *)
MovesFresh(s) ==
  /\ pc[s] \in {"check", "sync", "commit"} /\ Moves(s) =>
       row[s]["release_at"] = table["lot"]["release_at"]
  /\ pc[s] = "commit" /\ Moves(s) /\ ~ worked => ops[s] = eligible

CInv ==
  /\ eligible = [o \in DOMAIN eligible |-> eligible[o]]
  /\ row = [s \in Sessions |-> row[s]]
  /\ ops = [s \in Sessions |-> ops[s]]
  /\ file \in {None, 0, 1} => DOMAIN eligible = {}
  /\ ReleaseCopied
  /\ \A s \in Sessions : MovesFresh(s)

(* A session reads.                                                         *)
LEMMA ReadingKeeps ==
  ASSUME CInv, NEW s \in Sessions, UNCHANGED <<table, eligible, worked, file>>,
         row' = [t \in Sessions |-> row'[t]], ops' = [t \in Sessions |-> ops'[t]],
         \A t \in Sessions \ {s} : /\ pc'[t] = pc[t] /\ req'[t] = req[t]
                                   /\ row'[t] = row[t] /\ ops'[t] = ops[t],
         MovesFresh(s)'
  PROVE  CInv'
<1>1. \A t \in Sessions \ {s} : MovesFresh(t)'
  BY DEF CInv, MovesFresh, Moves
<1>2. ReleaseCopied'
  BY DEF CInv, ReleaseCopied
<1> QED BY <1>1, <1>2 DEF CInv

LEMMA ReplyFresh ==
  ASSUME DInv, CInv, NEW s \in Sessions, NEW c, Reply(s, c)
  PROVE  /\ MovesFresh(s)'
         /\ row' = [t \in Sessions |-> row'[t]] /\ ops' = [t \in Sessions |-> ops'[t]]
         /\ \A t \in Sessions \ {s} : /\ pc'[t] = pc[t] /\ req'[t] = req[t]
                                      /\ row'[t] = row[t] /\ ops'[t] = ops[t]
BY DEF Reply, DInv, AdminInv, AdminTypes, CInv, MovesFresh

LEMMA ReadsKeepCopies ==
  ASSUME DInv, CInv, UNCHANGED file, NEW s \in Sessions,
         (\E r \in Requests : Receive(s, r)) \/ Load(s) \/ CheckWork(s) \/ Sync(s) \/ BusyTimeout(s)
  PROVE  CInv'
<1>1. UNCHANGED <<table, eligible, worked>>
  BY DEF Receive, Load, CheckWork, Sync, BusyTimeout
<1>2. CASE \E c : Reply(s, c)
  BY <1>1, <1>2, ReplyFresh, ReadingKeeps
<1>3. ASSUME NEW r \in Requests, Receive(s, r) PROVE CInv'
  <2>1. MovesFresh(s)'
    BY <1>3 DEF Receive, MovesFresh, DInv, AdminInv, AdminTypes
  <2> QED BY <1>1, <1>3, <2>1, ReadingKeeps DEF Receive, CInv, DInv, AdminInv, AdminTypes
<1>4. CASE Load(s) /\ ~ \E c : Reply(s, c)
  <2>1. /\ row' = [row EXCEPT ![s] = table[req[s].table]]
        /\ pc' = [pc EXCEPT ![s] = IF Moves(s) THEN "check" ELSE "commit"]
        /\ UNCHANGED <<req, ops>>
    BY <1>4 DEF Load
  <2>2. Moves(s)' <=> Moves(s)
    BY <2>1 DEF Moves
  <2>3. MovesFresh(s)'
    BY <1>1, <2>1, <2>2 DEF MovesFresh, Moves, CInv, DInv, AdminInv, AdminTypes
  <2> QED BY <1>1, <2>1, <2>3, ReadingKeeps DEF CInv, DInv, AdminInv, AdminTypes
<1>5. CASE CheckWork(s) /\ ~ \E c : Reply(s, c)
  <2>1. /\ pc[s] = "check" /\ pc' = [pc EXCEPT ![s] = "sync"]
        /\ UNCHANGED <<req, row, ops>>
    BY <1>5 DEF CheckWork
  <2>2. MovesFresh(s)'
    BY <1>1, <2>1 DEF MovesFresh, Moves, CInv, DInv, AdminInv, AdminTypes
  <2> QED BY <1>1, <2>1, <2>2, ReadingKeeps DEF CInv, DInv, AdminInv, AdminTypes
<1>6. CASE Sync(s)
  <2>1. /\ pc[s] = "sync" /\ pc' = [pc EXCEPT ![s] = "commit"]
        /\ ops' = [ops EXCEPT ![s] = eligible] /\ UNCHANGED <<req, row>>
    BY <1>6 DEF Sync
  <2>2. MovesFresh(s)'
    BY <1>1, <2>1 DEF MovesFresh, Moves, CInv, DInv, AdminInv, AdminTypes
  <2> QED BY <1>1, <2>1, <2>2, ReadingKeeps DEF CInv, DInv, AdminInv, AdminTypes
<1> QED BY <1>2, <1>3, <1>4, <1>5, <1>6 DEF BusyTimeout

LEMMA CommitKeepsCopies ==
  ASSUME DInv, CInv, OneMove, UNCHANGED file, NEW s \in Sessions, Commit(s)
  PROVE  CInv'
<1>1. /\ pc[s] = "commit" /\ Reply(s, 200) /\ worked' = worked
      /\ table' = [table EXCEPT ![req[s].table] = RowWritten(s)]
      /\ eligible' = EligibleWritten(s)
  BY DEF Commit
<1>2. /\ DOMAIN eligible' = DOMAIN eligible
      /\ eligible' = [o \in DOMAIN eligible' |-> eligible'[o]]
  BY <1>1 DEF EligibleWritten
<1>3. CASE ~ Moves(s)
  <2>1. eligible' = eligible
    BY <1>1, <1>3 DEF EligibleWritten, Moved, CInv
  <2>2. table'["lot"]["release_at"] = table["lot"]["release_at"]
    BY <1>3, CommitWrites DEF DInv, Moves, Tables, Columns
  <2>3. ReleaseCopied'
    BY <1>1, <2>1, <2>2 DEF CInv, ReleaseCopied
  <2>4. \A t \in Sessions \ {s} : MovesFresh(t)'
    BY <1>1, <2>1, <2>2, ReplyFresh DEF CInv, MovesFresh, Moves
  <2> QED BY <1>1, <1>2, <2>1, <2>3, <2>4, ReplyFresh DEF CInv
<1>4. CASE Moves(s)
  <2> DEFINE new == req[s].patch["release_at"]
  <2>1. table'["lot"]["release_at"] = new
    <3>1. table'["lot"] = RowWritten(s) /\ req[s].table = "lot"
      BY <1>1, <1>4 DEF Moves, DInv, AdminInv, AdminTypes, Tables
    <3>2. RowWritten(s)["release_at"] =
            IF "release_at" \in Changed(s) THEN new ELSE table["lot"]["release_at"]
      BY <3>1 DEF RowWritten, Columns
    <3>3. "release_at" \notin Changed(s) => new = table["lot"]["release_at"]
      BY <1>1, <1>4 DEF Changed, Moves, CInv, MovesFresh
    <3> QED BY <3>1, <3>2, <3>3
  <2>2. ~ worked => \A o \in DOMAIN eligible : eligible'[o] = new
    BY <1>1, <1>4 DEF EligibleWritten, Moved, CInv, MovesFresh
  <2>3. ReleaseCopied'
    BY <1>1, <1>2, <2>1, <2>2 DEF ReleaseCopied
  <2>4. \A t \in Sessions \ {s} : MovesFresh(t)'
    BY <1>1, <1>4, ReplyFresh DEF OneMove, MovesFresh, Moves
  <2> QED BY <1>1, <1>2, <2>3, <2>4, ReplyFresh DEF CInv
<1> QED BY <1>3, <1>4

(* Work makes the copies a matter of the past.                               *)
LEMMA WorkKeepsCopies ==
  ASSUME CInv, UNCHANGED file, NEW rework, Work(rework)
  PROVE  CInv'
<1>1. /\ worked' = TRUE /\ UNCHANGED <<table, pc, req, row, ops>>
      /\ DOMAIN eligible # {} /\ DOMAIN eligible' = DOMAIN eligible
      /\ eligible' = [o \in DOMAIN eligible' |-> eligible'[o]]
  BY DEF Work
<1> QED BY <1>1 DEF CInv, ReleaseCopied, MovesFresh, Moves

LEMMA StageNames ==
  \A n \in 1 .. 5 : (Stages[n] = "fixture" <=> n = 2) /\ (Stages[n] = "LOT-101" <=> n = 3)
BY DEF Stages

LEMMA ToolKeepsCopies ==
  ASSUME DInv, CInv, DemoNext, ~ Served
  PROVE  CInv'
<1>1. CASE (\E r \in BOOLEAN : Run(r)) \/ Kill \/ Start \/ Stop
  BY <1>1 DEF Run, Kill, Start, Stop, vars, CInv, ReleaseCopied, MovesFresh, Moves
<1>2. CASE Open
  BY <1>2 DEF Open, vars, CInv, ReleaseCopied, MovesFresh, Moves
<1>3. CASE Down
  BY <1>3 DEF Down, Crash, CInv, ReleaseCopied, MovesFresh
<1>4. CASE Check \/ Fail
  <2>1. CASE NoRows /\ UNCHANGED Requested /\ Idle
    <3>1. DOMAIN eligible' = {} /\ eligible' = [o \in DOMAIN eligible' |-> eligible'[o]]
      BY <2>1 DEF NoRows
    <3>2. \A s \in Sessions : pc'[s] = "idle"
      BY <2>1 DEF Idle, Requested
    <3> QED BY <2>1, <3>1, <3>2 DEF CInv, ReleaseCopied, MovesFresh, Requested
  <2>2. CASE UNCHANGED <<file, table, eligible, worked, Requested>>
    BY <2>2 DEF CInv, ReleaseCopied, MovesFresh, Moves, Requested
  <2>3. Idle \/ (Check /\ Refused)
    BY <1>4 DEF DInv, FileInv, Check, Fail, Refused
  <2> QED BY <1>4, <2>1, <2>2, <2>3 DEF Check, Fail
<1>5. CASE Stage
  <2>1. Idle /\ UNCHANGED <<worked, Requested>> /\ file \in 0 .. 4 /\ file' = file + 1
    BY <1>5, Numbers DEF DInv, FileInv, Stage
  <2>2. \A s \in Sessions : pc'[s] = "idle"
    BY <2>1 DEF Idle, Requested
  <2>3. /\ table' = IF file = 1 THEN Fixture ELSE table
        /\ eligible' = IF file = 2 THEN Materialized ELSE eligible
    BY <1>5, <2>1, StageNames DEF Stage
  <2>4. CASE file = 1
    <3>1. DOMAIN eligible = {} /\ eligible' = eligible
      BY <2>3, <2>4 DEF CInv
    <3> QED BY <2>1, <2>2, <3>1, Numbers DEF CInv, ReleaseCopied, MovesFresh, Requested
  <2>5. CASE file = 2
    <3>1. /\ table' = table /\ eligible' = Materialized
          /\ eligible' = [o \in DOMAIN eligible' |-> eligible'[o]]
      BY <2>3, <2>5 DEF Materialized
    <3>2. ReleaseCopied'
      BY <2>1, <3>1 DEF CInv, ReleaseCopied, Materialized
    <3> QED BY <2>1, <2>2, <2>5, <3>1, <3>2, Numbers DEF CInv, MovesFresh, Requested
  <2>6. CASE file \notin {1, 2}
    <3>1. UNCHANGED <<table, eligible>>
      BY <2>3, <2>6
    <3> QED BY <2>1, <2>2, <2>6, <3>1, Numbers DEF CInv, ReleaseCopied, MovesFresh, Requested
  <2> QED BY <2>4, <2>5, <2>6
<1> QED BY <1>1, <1>2, <1>3, <1>4, <1>5 DEF DemoNext

LEMMA CopiesKept == DInv /\ CInv /\ OneMove /\ [DemoNext]_<<vars, demo>> => CInv'
<1> SUFFICES ASSUME DInv, CInv, OneMove, [DemoNext]_<<vars, demo>> PROVE CInv'
  OBVIOUS
<1>1. CASE UNCHANGED <<vars, demo>>
  BY <1>1 DEF vars, demo, CInv, ReleaseCopied, MovesFresh, Moves
<1>2. CASE Served
  <2>1. UNCHANGED file
    BY <1>2 DEF Served, demo
  <2> QED BY <1>2, <2>1, ReadsKeepCopies, CommitKeepsCopies, WorkKeepsCopies DEF Served, Serve
<1>3. CASE DemoNext /\ ~ Served
  BY <1>3, ToolKeepsCopies
<1> QED BY <1>1, <1>2, <1>3

(* As long as one PATCH at a time moves the release, every operation of a LOT   *)
(* without work is eligible at it, whoever else changes the LOT and whatever   *)
(* crashes or times out.                                                    *)
THEOREM ReleaseIsCopied == DemoSpec /\ []OneMove => []ReleaseCopied
<1>1. DemoInit => CInv
  <2> SUFFICES ASSUME DemoInit PROVE CInv
    OBVIOUS
  <2>1. file = 5 /\ file \notin {None, 0, 1}
    BY Numbers DEF DemoInit
  <2> QED BY <2>1 DEF DemoInit, Init, CInv, ReleaseCopied, MovesFresh
<1>2. CInv => ReleaseCopied
  BY DEF CInv
<1> QED BY DemoInitInv, DemoStepInv, <1>1, <1>2, CopiesKept, PTL DEF DemoSpec
=============================================================================
