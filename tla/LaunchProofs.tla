---------------------------- MODULE LaunchProofs ----------------------------
(***************************************************************************)
(* The launch, for any number of polls and launches: what the named mutex  *)
(* guards, what the accountant's database is worth whoever is killed at    *)
(* whichever statement, and that the child outlasts the wizard's process.  *)
(* The inductive invariants are Guarded (the mutex), Prepared (the         *)
(* database), Served (who has a connection) and OnTime (the clock).        *)
(***************************************************************************)
EXTENDS Launch, FiniteSetTheorems, TLAPS

-----------------------------------------------------------------------------
(* The mutex.                                                              *)

Guarded ==
    /\ InstanceTypeOK
    /\ OneInstance
    /\ NoStaleMutex
    /\ \A p \in Process : pc[p] = "claimed" => p \in holders

InstanceStep(p) == Launch(p) \/ ClaimStep(p) \/ Exit(p) \/ Relaunch(p)

LEMMA GuardedStep ==
    ASSUME Guarded, NEW p \in Process, InstanceStep(p)
    PROVE  Guarded'
<1> USE ProcessAssumption DEF Guarded, InstanceTypeOK, OneInstance, NoStaleMutex
<1>1. CASE Launch(p) BY <1>1 DEF Launch
<1>2. CASE Claim(p) BY <1>2 DEF Claim, AlreadyExists
<1>3. CASE Retry(p) BY <1>3 DEF Retry
<1>4. CASE GiveUp(p) BY <1>4 DEF GiveUp
<1>5. CASE ClaimFails(p) BY <1>5 DEF ClaimFails
<1>6. CASE Exit(p) BY <1>6 DEF Exit
<1>7. CASE Relaunch(p) BY <1>7 DEF Relaunch
<1>. QED
  BY <1>1, <1>2, <1>3, <1>4, <1>5, <1>6, <1>7 DEF InstanceStep, ClaimStep

LEMMA GuardedStutter ==
    ASSUME Guarded, UNCHANGED instanceVars
    PROVE  Guarded'
  BY DEF Guarded, InstanceTypeOK, OneInstance, NoStaleMutex, instanceVars

-----------------------------------------------------------------------------
(* The database.                                                           *)

\* What a client that is about to execute s, or past it, has executed.
Made(s) ==
    CASE s = "current_cycle" -> {}
      [] s = "bandwidth_history" -> {"current_cycle"}
      [] s = "current_cycle_metadata" -> {"current_cycle", "bandwidth_history"}
      [] OTHER -> Table

FileType == [version : 0..3, tables : SUBSET Table, corrupt : BOOLEAN, rows : BOOLEAN]

ConnType == Statement \cup {"none", "quarantine", "reopen", "ready", "disabled"}

DbType ==
    /\ file = {} \/ \E f \in FileType : file = {f}
    /\ asides \subseteq FileType
    /\ conn \in [Client -> ConnType]
    /\ fresh \subseteq Client

\* Nothing takes the file from a client that has it open, so what the client
\* has made of it is there; and the stamp is behind the tables.
Prepared ==
    /\ DbType
    /\ VersionTellsSchema
    /\ \A c \in Client : IsOpen(c) => file # {}
    /\ \A c \in Client, f \in file : IsOpen(c) => Made(conn[c]) \subseteq f.tables
    /\ \A c \in Client, f \in file : conn[c] = "ready" => f.version >= 2

LEMMA Statements ==
    /\ Statement = {"current_cycle", "bandwidth_history", "current_cycle_metadata",
                    "journal_mode", "user_version"}
    /\ NextStatement["current_cycle"] = "bandwidth_history"
    /\ NextStatement["bandwidth_history"] = "current_cycle_metadata"
    /\ NextStatement["current_cycle_metadata"] = "journal_mode"
    /\ NextStatement["journal_mode"] = "user_version"
    /\ NextStatement["user_version"] = "ready"
  BY DEF Statement, NextStatement

LEMMA EmptyIsFile == Empty \in FileType /\ Empty.version = 0 /\ Empty.rows = FALSE
  BY DEF Empty, File, FileType

LEMMA InitPrepared == DatabaseInit => Prepared
<1> SUFFICES ASSUME DatabaseInit PROVE Prepared
  OBVIOUS
<1>1. Left \subseteq FileType /\ \A f \in Left : f.version >= 2 => f.tables = Table
  BY DEF Left, File, FileType, V1Tables, Table
<1>2. file = {} \/ \E f \in Left : file = {f}
  BY DEF DatabaseInit
<1>3. \A c \in Client : conn[c] = "none" /\ ~IsOpen(c)
  BY Statements DEF DatabaseInit, IsOpen
<1>4. conn \in [Client -> ConnType]
  BY DEF DatabaseInit, ConnType
<1>. QED
  BY <1>1, <1>2, <1>3, <1>4 DEF DatabaseInit, Prepared, DbType, VersionTellsSchema

\* Opening: a fresh file has nothing to answer for.
LEMMA OpenStep ==
    ASSUME Prepared, NEW c \in Client,
           file' = IF file = {} THEN {Empty} ELSE file,
           conn' = [conn EXCEPT ![c] = "current_cycle"],
           fresh' \subseteq Client, UNCHANGED asides
    PROVE  Prepared'
<1>1. DbType'
  BY EmptyIsFile, Statements DEF Prepared, DbType, ConnType
<1>2. VersionTellsSchema'
  BY EmptyIsFile DEF Prepared, VersionTellsSchema
<1>3. ASSUME NEW d \in Client, NEW f \in file', IsOpen(d)'
      PROVE  file' # {} /\ Made(conn'[d]) \subseteq f.tables
  <2>1. CASE d = c
    BY <2>1, <1>1, Statements DEF Prepared, DbType, Made
  <2>2. CASE d # c
    <3>1. conn'[d] = conn[d]
      BY <2>2 DEF Prepared, DbType
    <3>2. IsOpen(d)
      BY <1>3, <3>1 DEF IsOpen
    <3>3. file # {} /\ file' = file
      BY <3>2 DEF Prepared
    <3>. QED BY <1>3, <3>1, <3>2, <3>3 DEF Prepared
  <2>. QED BY <2>1, <2>2
<1>4. \A d \in Client : (conn[d] = "ready")' => file # {} /\ conn[d] = "ready"
  BY Statements DEF Prepared, DbType, IsOpen
<1>5. file' # {}
  <2>1. {Empty} # {}
    OBVIOUS
  <2>. QED BY <2>1, Zenon
<1>. QED BY <1>1, <1>2, <1>3, <1>4, <1>5 DEF Prepared

\* A statement of init: the next one starts from what this one has made.
LEMMA StatementStep ==
    ASSUME Prepared, NEW c \in Client, InitStep(c)
    PROVE  Prepared'
<1>1. conn[c] \in Statement /\ IsOpen(c) /\ file # {}
  BY DEF InitStep, IsOpen, Prepared
<1>2. PICK f \in FileType : file = {f}
  BY <1>1 DEF Prepared, DbType
<1> DEFINE s == conn[c]
           g == AfterStatement(f, s)
<1>3. file' = {g} /\ conn' = [conn EXCEPT ![c] = NextStatement[s]]
      /\ UNCHANGED <<asides, fresh>>
  BY <1>2 DEF InitStep
<1>4. /\ g \in FileType
      /\ f.tables \subseteq g.tables
      /\ f.version >= 2 => g.version >= 2
      /\ s \in Table => g.tables = f.tables \cup {s} /\ g.version = f.version
      /\ s = "user_version" => g.tables = f.tables /\ g.version = 2
      /\ s = "journal_mode" => g = f
  <2>1. CASE s \in Table
    <3>1. g = [f EXCEPT !.tables = f.tables \cup {s}]
      BY <2>1 DEF AfterStatement, Table
    <3>. QED BY <2>1, <3>1 DEF FileType, Table
  <2>2. CASE s = "user_version"
    <3>1. g = [f EXCEPT !.version = 2] /\ s \notin Table
      BY <2>2 DEF AfterStatement, LATEST_USER_VERSION, Table
    <3>2. f.version \in 0..3 /\ g.version = 2 /\ g.tables = f.tables /\ g \in FileType
      BY <3>1 DEF FileType
    <3>. QED BY <2>2, <3>1, <3>2
  <2>3. CASE s = "journal_mode"
    <3>1. g = f /\ s \notin Table
      BY <2>3 DEF AfterStatement, Table
    <3>. QED BY <2>3, <3>1 DEF FileType
  <2>. QED BY <1>1, <2>1, <2>2, <2>3, Statements DEF Table
<1>5. Made(s) \subseteq f.tables
  BY <1>1, <1>2 DEF Prepared
<1>6. NextStatement[s] \in ConnType /\ Made(NextStatement[s]) \subseteq g.tables
      /\ (NextStatement[s] = "ready" => s = "user_version")
  BY <1>1, <1>4, <1>5, Statements DEF Made, ConnType, Table
<1>7. f.version >= 2 => f.tables = Table
  BY <1>2 DEF Prepared, VersionTellsSchema
<1> HIDE DEF g
<1>8. DbType'
  BY <1>3, <1>4, <1>6 DEF Prepared, DbType
<1>9. VersionTellsSchema'
  <2>1. g.version >= 2 => g.tables = Table
    BY <1>1, <1>4, <1>5, <1>7, Statements DEF Made, Table, FileType
  <2>. QED BY <1>3, <2>1 DEF VersionTellsSchema
<1>10. ASSUME NEW d \in Client, IsOpen(d)'
       PROVE  Made(conn'[d]) \subseteq g.tables
  <2>1. CASE d = c
    BY <2>1, <1>3, <1>6 DEF Prepared, DbType
  <2>2. CASE d # c
    <3>1. conn'[d] = conn[d] /\ IsOpen(d)
      BY <1>3, <1>10, <2>2 DEF Prepared, DbType, IsOpen
    <3>. QED BY <3>1, <1>2, <1>4 DEF Prepared
  <2>. QED BY <2>1, <2>2
<1>11. ASSUME NEW d \in Client, conn'[d] = "ready" PROVE g.version >= 2
  <2>1. CASE d = c
    BY <2>1, <1>3, <1>4, <1>6, <1>11 DEF Prepared, DbType
  <2>2. CASE d # c
    <3>1. conn[d] = "ready"
      BY <1>3, <1>11, <2>2 DEF Prepared, DbType
    <3>. QED BY <3>1, <1>2, <1>4 DEF Prepared, FileType
  <2>. QED BY <2>1, <2>2
<1>. QED BY <1>3, <1>8, <1>9, <1>10, <1>11 DEF Prepared

\* A client that gives up, or ends, has nothing of the file any more.
LEMMA LeavesStep ==
    ASSUME Prepared, NEW c \in Client,
           NEW where \in {"none", "quarantine", "disabled"},
           conn' = [conn EXCEPT ![c] = where],
           fresh' \subseteq Client, UNCHANGED <<file, asides>>
    PROVE  Prepared'
<1>1. /\ \A d \in Client \ {c} : conn'[d] = conn[d]
      /\ conn'[c] = where
  BY DEF Prepared, DbType
<1>2. \A d \in Client : IsOpen(d)' => IsOpen(d) /\ d # c
  BY <1>1, Statements DEF IsOpen
<1>3. DbType' /\ VersionTellsSchema'
  BY DEF Prepared, DbType, VersionTellsSchema, ConnType
<1>4. \A d \in Client : conn'[d] = "ready" => conn[d] = "ready"
  BY <1>1
<1>. QED BY <1>1, <1>2, <1>3, <1>4 DEF Prepared

\* The file is put aside only when nobody has it open.
LEMMA QuarantineStep ==
    ASSUME Prepared, NEW c \in Client, Quarantine(c)
    PROVE  Prepared'
<1>1. /\ \A d \in Client \ {c} : ~IsOpen(d) /\ conn'[d] = conn[d]
      /\ conn'[c] = "reopen" /\ file' = {}
  BY DEF Quarantine, Prepared, DbType
<1>2. \A d \in Client : ~IsOpen(d)'
  BY <1>1, Statements DEF IsOpen
<1>3. DbType' /\ VersionTellsSchema'
  BY DEF Quarantine, Prepared, DbType, VersionTellsSchema, ConnType
<1>. QED BY <1>1, <1>2, <1>3 DEF Prepared

LEMMA PreparedStep ==
    ASSUME Prepared, NEW c \in Client, DatabaseStep(c) \/ Close(c)
    PROVE  Prepared'
<1>1. fresh \subseteq Client
  BY DEF Prepared, DbType
<1>2. CASE Open(c) BY <1>1, <1>2, OpenStep DEF Open
<1>3. CASE OpenFails(c) \/ QuarantineFails(c)
  BY <1>1, <1>3, LeavesStep DEF OpenFails, QuarantineFails
<1>4. CASE InitStep(c) BY <1>4, StatementStep
<1>5. CASE InitFails(c)
  BY <1>1, <1>5, LeavesStep DEF InitFails
<1>6. CASE Quarantine(c) BY <1>6, QuarantineStep
<1>7. CASE Reopen(c)
  BY <1>1, <1>7, OpenStep, LeavesStep DEF Reopen
<1>8. CASE Close(c) BY <1>1, <1>8, LeavesStep DEF Close
<1>. QED
  BY <1>2, <1>3, <1>4, <1>5, <1>6, <1>7, <1>8 DEF DatabaseStep

LEMMA PreparedStutter ==
    ASSUME Prepared, UNCHANGED dbVars
    PROVE  Prepared'
  BY DEF Prepared, DbType, VersionTellsSchema, IsOpen, dbVars

-----------------------------------------------------------------------------
(* The processes, their connections and the clock.                         *)

\* Only a process that runs has a connection.
Served == \A c \in Client : conn[c] # "none" => Running(c)

\* When the wizard's process must have left.
Deadline == IF closing THEN left + TotalShutdown ELSE MaxClose

OnTime ==
    /\ clock \in Nat /\ clock <= MAX_POLLS
    /\ closing \in BOOLEAN
    /\ left \in 0..clock /\ left <= MaxClose
    /\ launches \in 0..MaxLaunches
    /\ pc["child"] = "off" => clock = 0 /\ polls["child"] = 0
    /\ pc["child"] # "off" => pc["wizard"] # "claiming"
    /\ pc["wizard"] # "off"
    /\ polls["child"] <= clock + 1
    /\ pc["child"] \in {"claimed", "unguarded", "exited"} => polls["child"] <= clock
    /\ Running("wizard") => clock <= Deadline

LaunchInv == Guarded /\ Prepared /\ Served /\ OnTime

LEMMA Constants ==
    /\ "wizard" \in Process /\ "child" \in Process /\ "other" \in Process
    /\ "child" \in Waiting /\ "wizard" \notin Waiting /\ "other" \notin Waiting
    /\ Client = {"child", "other"} /\ Process = {"wizard", "child", "other"}
    /\ MaxClose \in Nat /\ MaxLaunches \in Nat /\ MAX_POLLS \in Nat
    /\ TotalShutdown \in Nat
<1>1. MAX_POLLS \in Nat /\ 3000 * MAX_POLLS \in Nat
  BY ProcessAssumption
<1>2. (3000 * MAX_POLLS) \div 5000 \in Nat
  BY <1>1
<1>. QED
  BY <1>1, <1>2, LaunchAssumption DEF TotalShutdown

LEMMA InitLaunchInv == LaunchInit => LaunchInv
<1> SUFFICES ASSUME LaunchInit PROVE LaunchInv
  OBVIOUS
<1>1. Guarded
  BY Constants DEF LaunchInit, Guarded, InstanceTypeOK, OneInstance, NoStaleMutex
<1>2. Prepared
  BY InitPrepared DEF LaunchInit
<1>3. Served
  BY DEF LaunchInit, DatabaseInit, Served
<1>4. OnTime
  <2>1. /\ pc["child"] = "off" /\ pc["wizard"] = "claiming" /\ polls["child"] = 0
        /\ clock = 0 /\ closing = FALSE /\ left = 0 /\ launches = 0
    BY Constants DEF LaunchInit
  <2>2. closing \in BOOLEAN
    BY <2>1
  <2>. QED BY <2>1, <2>2, Constants, SMT DEF OnTime, Running
<1>. QED BY <1>1, <1>2, <1>3, <1>4 DEF LaunchInv

\* The steps that leave the database alone.
LEMMA WizardStep ==
    ASSUME LaunchInv, StartMonitoring \/ EframeReturns \/ WizardEnds
    PROVE  LaunchInv'
<1> USE Constants DEF LaunchInv
<1>1. pc \in [Process -> {"off", "claiming", "claimed", "unguarded", "exited"}]
      /\ polls \in [Process -> 0..MAX_POLLS]
  BY DEF Guarded, InstanceTypeOK
<1>2. CASE StartMonitoring
  <2>1. Launch("child") /\ Running("wizard") /\ ~closing /\ UNCHANGED <<dbVars, clockVars>>
    BY <1>2 DEF StartMonitoring
  <2>2. Guarded' /\ Prepared'
    BY <2>1, GuardedStep, PreparedStutter DEF InstanceStep
  <2>3. Served'
    BY <2>1, <1>1 DEF Served, Running, Launch, dbVars
  <2>4. OnTime'
    BY <2>1, <1>1 DEF OnTime, Running, Launch, clockVars, Deadline
  <2>. QED BY <2>2, <2>3, <2>4
<1>3. CASE EframeReturns
  <2>1. Guarded' /\ Prepared'
    BY <1>3, GuardedStutter, PreparedStutter DEF EframeReturns
  <2>2. Served'
    BY <1>3 DEF EframeReturns, Served, Running, dbVars, instanceVars
  <2>3. OnTime'
    BY <1>3 DEF EframeReturns, OnTime, Running, instanceVars, Deadline
  <2>. QED BY <2>1, <2>2, <2>3
<1>4. CASE WizardEnds
  <2>1. Exit("wizard") /\ UNCHANGED <<dbVars, clockVars>>
    BY <1>4 DEF WizardEnds
  <2>2. Guarded' /\ Prepared'
    BY <2>1, GuardedStep, PreparedStutter DEF InstanceStep
  <2>3. Served'
    BY <2>1, <1>1 DEF Served, Running, Exit, dbVars
  <2>4. OnTime'
    BY <2>1, <1>1 DEF OnTime, Running, Exit, clockVars, Deadline
  <2>. QED BY <2>2, <2>3, <2>4
<1>. QED BY <1>2, <1>3, <1>4

\* An attempt is made when it is due, and leaves its process at most one poll
\* ahead of the clock.
LEMMA AttemptStep ==
    ASSUME LaunchInv, NEW p \in Process, Attempt(p)
    PROVE  LaunchInv'
<1> USE Constants DEF LaunchInv
<1>1. pc \in [Process -> {"off", "claiming", "claimed", "unguarded", "exited"}]
      /\ polls \in [Process -> 0..MAX_POLLS]
  BY DEF Guarded, InstanceTypeOK
<1>2. ClaimStep(p) /\ UNCHANGED <<dbVars, clockVars>> /\ pc[p] = "claiming"
      /\ (p = "child" => polls[p] <= clock)
  BY DEF Attempt, AttemptIsDue, ClaimStep, Claim, Retry, GiveUp, ClaimFails
<1>3. Guarded' /\ Prepared'
  BY <1>2, GuardedStep, PreparedStutter DEF InstanceStep
<1>4. /\ \A q \in Process \ {p} : pc'[q] = pc[q] /\ polls'[q] = polls[q]
      /\ pc'[p] # "off"
      /\ \/ pc'[p] = "claiming" /\ polls'[p] = polls[p] + 1
         \/ pc'[p] # "claiming" /\ polls'[p] = polls[p]
  BY <1>1, <1>2 DEF ClaimStep, Claim, Retry, GiveUp, ClaimFails
<1>5. Served'
  BY <1>2, <1>4 DEF Served, Running, dbVars
<1>6. OnTime'
  BY <1>1, <1>2, <1>4 DEF OnTime, Running, clockVars, Deadline
<1>. QED BY <1>3, <1>5, <1>6

LEMMA OtherStep ==
    ASSUME LaunchInv, DoubleClick \/ Again \/ Tick
    PROVE  LaunchInv'
<1> USE Constants DEF LaunchInv
<1>1. pc \in [Process -> {"off", "claiming", "claimed", "unguarded", "exited"}]
      /\ polls \in [Process -> 0..MAX_POLLS]
  BY DEF Guarded, InstanceTypeOK
<1>2. CASE DoubleClick
  <2>1. Guarded' /\ Prepared'
    BY <1>2, GuardedStep, PreparedStutter DEF DoubleClick, InstanceStep
  <2>2. Served' /\ OnTime'
    BY <1>1, <1>2 DEF DoubleClick, Launch, Served, OnTime, Running, dbVars, Deadline
  <2>. QED BY <2>1, <2>2
<1>3. CASE Again
  <2>1. Guarded' /\ Prepared'
    BY <1>3, GuardedStep, PreparedStutter DEF Again, InstanceStep
  <2>2. Served' /\ OnTime'
    BY <1>1, <1>3 DEF Again, Relaunch, Served, OnTime, Running, dbVars, clockVars, Deadline
  <2>. QED BY <2>1, <2>2
<1>4. CASE Tick
  <2>1. Guarded' /\ Prepared' /\ Served'
    BY <1>4, GuardedStutter, PreparedStutter
       DEF Tick, Served, Running, dbVars, instanceVars
  <2>2. /\ polls["child"] > clock /\ clock' = clock + 1 /\ pc["child"] = "claiming"
        /\ Running("wizard") => IF closing THEN clock - left < TotalShutdown
                                           ELSE clock < MaxClose
        /\ UNCHANGED <<instanceVars, closing, left, launches>>
    BY <1>1, <1>4 DEF Tick, AttemptIsDue, Overdue, OnTime
  <2>3. OnTime'
    BY <1>1, <2>2 DEF OnTime, Running, instanceVars, Deadline
  <2>. QED BY <2>1, <2>3
<1>. QED BY <1>2, <1>3, <1>4

\* A client works on the database, or ends.
LEMMA ClientStep ==
    ASSUME LaunchInv, NEW c \in Client, UseDatabase(c) \/ Ends(c)
    PROVE  LaunchInv'
<1> USE Constants DEF LaunchInv
<1>1. /\ pc \in [Process -> {"off", "claiming", "claimed", "unguarded", "exited"}]
      /\ polls \in [Process -> 0..MAX_POLLS]
      /\ conn \in [Client -> ConnType]
  BY DEF Guarded, InstanceTypeOK, Prepared, DbType
<1>2. CASE UseDatabase(c)
  <2>1. Running(c) /\ DatabaseStep(c) /\ UNCHANGED <<instanceVars, clockVars>>
    BY <1>2 DEF UseDatabase
  <2>2. \A d \in Client \ {c} : conn'[d] = conn[d]
    BY <1>1, <2>1 DEF DatabaseStep, Open, OpenFails, InitStep, InitFails, Quarantine,
                      QuarantineFails, Reopen
  <2>3. Guarded' /\ Prepared'
    BY <2>1, GuardedStutter, PreparedStep
  <2>4. Served'
    BY <2>1, <2>2 DEF Served, Running, instanceVars
  <2>5. OnTime'
    BY <2>1 DEF OnTime, Running, instanceVars, clockVars, Deadline
  <2>. QED BY <2>3, <2>4, <2>5
<1>3. CASE Ends(c)
  <2>1. Running(c) /\ Exit(c) /\ UNCHANGED clockVars
    BY <1>3 DEF Ends
  <2>2. conn'[c] = "none" /\ \A d \in Client \ {c} : conn'[d] = conn[d]
    BY <1>1, <1>3 DEF Ends, Close, dbVars
  <2>3. Guarded' /\ Prepared'
    BY <1>3, GuardedStep, PreparedStep, PreparedStutter DEF Ends, InstanceStep
  <2>4. Served'
    BY <1>1, <2>1, <2>2 DEF Served, Running, Exit
  <2>5. OnTime'
    BY <1>1, <2>1 DEF OnTime, Running, Exit, clockVars, Deadline
  <2>. QED BY <2>3, <2>4, <2>5
<1>. QED BY <1>2, <1>3

LEMMA LaunchInvStep == LaunchInv /\ [LaunchNext]_launchVars => LaunchInv'
<1>1. ASSUME LaunchInv, UNCHANGED launchVars PROVE LaunchInv'
  <2>1. Guarded' /\ Prepared'
    BY <1>1, GuardedStutter, PreparedStutter DEF launchVars, LaunchInv
  <2>2. Served' /\ OnTime'
    BY <1>1 DEF LaunchInv, launchVars, instanceVars, dbVars, clockVars, Served, OnTime,
                Running, Deadline
  <2>. QED BY <2>1, <2>2 DEF LaunchInv
<1>. QED
  BY <1>1, WizardStep, AttemptStep, OtherStep, ClientStep DEF LaunchNext

LEMMA LaunchInvHolds == LaunchSpec => []LaunchInv
  BY InitLaunchInv, LaunchInvStep, PTL DEF LaunchSpec

-----------------------------------------------------------------------------
\* The processes, the database and the clock only hold well-formed values; the
\* child's wait ends within MAX_POLLS pauses.
THEOREM LaunchTypeCorrect == LaunchSpec => []LaunchTypeOK
<1>1. DbType => DatabaseTypeOK
  <2>1. Cardinality({}) <= 1 /\ \A f : Cardinality({f}) <= 1
    BY FS_EmptySet, FS_Singleton
  <2>. QED BY <2>1 DEF DbType, DatabaseTypeOK, FileType, ConnType
<1>2. LaunchInv => LaunchTypeOK
  BY <1>1, Constants DEF LaunchInv, Guarded, Prepared, OnTime, LaunchTypeOK
<1>. QED BY <1>2, LaunchInvHolds, PTL

\* claim_or_exit: two processes run at once only if CreateMutexW failed for one
\* of them, whoever waits, gives up, ends and is started again.
THEOREM OnlyOneClaims == LaunchSpec => []OneInstance
<1>1. LaunchInv => OneInstance BY DEF LaunchInv, Guarded
<1>. QED BY <1>1, LaunchInvHolds, PTL

\* The named mutex is freed with the last process that asked for it.
THEOREM MutexIsFreed == LaunchSpec => []NoStaleMutex
<1>1. LaunchInv => NoStaleMutex BY DEF LaunchInv, Guarded
<1>. QED BY <1>1, LaunchInvHolds, PTL

\* The database has one writer, unless CreateMutexW failed.
THEOREM OnlyOneAccountant == LaunchSpec => []OneAccountant
<1>1. LaunchInv => OneAccountant
  BY Constants DEF LaunchInv, Guarded, OneInstance, Served, Running, OneAccountant
<1>. QED BY <1>1, LaunchInvHolds, PTL

\* If eframe returns within what the child's wait leaves of the watchdog's
\* budget, the child gives up on the wizard's process only when it has ended.
THEOREM ChildOutwaits ==
    ASSUME MaxClose + TotalShutdown < MAX_POLLS
    PROVE  LaunchSpec => []GivesUpLast
<1>1. LaunchInv => GivesUpLast
  BY Constants DEF LaunchInv, OnTime, Deadline, GivesUpLast
<1>. QED BY <1>1, LaunchInvHolds, PTL

\* schema.rs: the stamp comes last, so that a file that says version 2 has the
\* tables of version 2, after whichever statement a process was killed.
THEOREM StampIsLast == LaunchSpec => []VersionTellsSchema
<1>1. LaunchInv => VersionTellsSchema BY DEF LaunchInv, Prepared
<1>. QED BY <1>1, LaunchInvHolds, PTL

\* An accountant that runs has a file that migrate would leave as it is.
THEOREM InitMigrates == LaunchSpec => []NothingToMigrate
<1>1. LaunchInv => NothingToMigrate
  <2> SUFFICES ASSUME LaunchInv, NEW c \in Client, NEW f \in file, conn[c] = "ready"
               PROVE  migrate(f) = f
    BY DEF NothingToMigrate
  <2>1. f.version >= 2 /\ f.version \in 0..3
    BY DEF LaunchInv, Prepared, DbType, FileType
  <2>. QED BY <2>1 DEF migrate
<1>. QED BY <1>1, LaunchInvHolds, PTL

\* lib.rs: the rows found at the path stay there or are put aside with it.
THEOREM NoRowIsLost == LaunchSpec => RowsAreKept
<1>1. ASSUME LaunchInv, NEW c \in Client, DatabaseStep(c)
      PROVE  HasRows(file \cup asides) => HasRows(file' \cup asides')
  <2>1. CASE InitStep(c)
    <3>1. \A f \in file : AfterStatement(f, conn[c]).rows = f.rows
      BY DEF LaunchInv, Prepared, DbType, FileType, AfterStatement, Table
    <3>. QED BY <2>1, <3>1 DEF InitStep, HasRows
  <2>2. CASE Quarantine(c)
    BY <2>2 DEF Quarantine, HasRows
  <2>3. CASE Open(c) \/ Reopen(c)
    BY <2>3 DEF Open, Reopen, HasRows
  <2>4. CASE OpenFails(c) \/ InitFails(c) \/ QuarantineFails(c)
    BY <2>4 DEF OpenFails, InitFails, QuarantineFails, HasRows
  <2>. QED BY <1>1, <2>1, <2>2, <2>3, <2>4 DEF DatabaseStep
<1>2. ASSUME LaunchInv, [LaunchNext]_launchVars
      PROVE  [HasRows(file \cup asides) => HasRows(file' \cup asides')]_dbVars
  <2>1. ASSUME NEW c \in Client, UseDatabase(c)
        PROVE  HasRows(file \cup asides) => HasRows(file' \cup asides')
    BY <1>1, <1>2, <2>1 DEF UseDatabase
  <2>2. ASSUME NEW c \in Client, Ends(c)
        PROVE  UNCHANGED <<file, asides>>
    BY <2>2 DEF Ends, Close, dbVars
  <2>3. CASE UNCHANGED dbVars
    BY <2>3
  <2>4. \/ UNCHANGED dbVars
        \/ \E c \in Client : UseDatabase(c) \/ Ends(c)
    BY <1>2 DEF LaunchNext, StartMonitoring, EframeReturns, WizardEnds, Attempt,
                DoubleClick, Again, Tick, launchVars
  <2>. QED BY <2>1, <2>2, <2>3, <2>4 DEF HasRows
<1>. QED BY <1>2, LaunchInvHolds, PTL DEF LaunchSpec, RowsAreKept
=============================================================================
