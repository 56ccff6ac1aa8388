---------------------------- MODULE OperationsProofs ----------------------------
(***************************************************************************)
(* Proofs about what runs on the host: ServiceLifecycle (a started server     *)
(* stays the one service.json names), Backups (latest.xlsx is the newest      *)
(* snapshot, retention keeps its bound) and StorageRelocation (the configured *)
(* database holds every search), for any number of processes, commands,       *)
(* backups and roots.  The last theorems carry all of it, and what            *)
(* ProviderProofs shows of GithubPublish, to the composition that TLC runs.   *)
(***************************************************************************)
EXTENDS MCOperations, ProviderProofs, NumberLemmas

-----------------------------------------------------------------------------
(* The service commands: the inductive invariant                           *)

Step == {"look", "clear", "spawn", "write", "wait", "give_up", "unlink", "stop", "await_end",
         "clear_state", "configure", "unit_start", "unit_restart", "unit_wait", "unit_stop",
         "unit_gone", "unit_gone_restart", "write_unit", "remove_unit"}
Commanded == [name: {"start", "stop", "restart", "install", "uninstall"},
              tunnel: TunnelOption \union {"unset"}, pid: Pid \union {NoPid},
              supervised: BOOLEAN, step: Step]

ProcessTypes ==
    /\ DOMAIN procs \subseteq Pid /\ \A p \in DOMAIN procs : procs[p] \in Process
    /\ \A p \in DOMAIN procs : procs[p].by = "start" => procs[p].program = "gateway"
UnitTypes == unit \in Unit /\ (unit.main # NoPid => unit.main \in DOMAIN procs)
LifecycleTypes ==
    /\ ProcessTypes /\ UnitTypes
    /\ state_file \in Pid \union {NoPid} /\ tunnel_file \in Pid \union {NoPid}
    /\ commands \in [Operator -> {NoCommand} \union Commanded]
    /\ excused \in BOOLEAN /\ issued \in 0..MaxCommands /\ events \in 0..MaxEvents

\* The servers that a start made and did not give up.
Ours(table) == {p \in DOMAIN table : table[p].by = "start" /\ table[p].term # "start"}

Managed(table, file) == \A p \in Ours(table) : p = file /\ table[p].phase = "serving"

\* While a command is between two steps, it knows that server, or there is none.
Accounted(command, table, file) ==
    CASE command.step \in {"clear", "spawn", "unlink", "clear_state"} -> Ours(table) = {}
      [] command.step \in {"write", "wait", "give_up"} ->
           /\ \A p \in Ours(table) : p = command.pid /\ table[p].term = "no"
           /\ command.step # "write" => file = command.pid
      [] command.step = "await_end" -> Ours(table) \subseteq {command.pid}
      [] OTHER -> Managed(table, file)

LifecycleInv ==
    /\ LifecycleTypes
    /\ ~excused =>
          /\ \A o, d \in Operator : commands[o] # NoCommand /\ commands[d] # NoCommand => o = d
          /\ \A o \in Operator : commands[o] # NoCommand => Accounted(commands[o], procs, state_file)
          /\ (\A o \in Operator : commands[o] = NoCommand) => Managed(procs, state_file)

-----------------------------------------------------------------------------
(* What the steps are made of                                              *)

\* The steps at which no process is being started or stopped.
Calm == {"look", "stop", "configure", "unit_start", "unit_restart", "unit_wait", "unit_stop",
         "unit_gone", "unit_gone_restart", "write_unit", "remove_unit"}

\* What a process table keeps of an earlier one: the servers of ours, and how far they are.
Keeps(table, later) ==
    \A p \in Ours(later) : /\ p \in Ours(table) /\ later[p].term = table[p].term
                           /\ table[p].phase = "serving" => later[p].phase = "serving"

LEMMA IdleCommand == NoCommand.step = "idle" /\ NoCommand \notin Commanded
<1>1. NoCommand.step = "idle"
  BY DEF NoCommand
<1>2. \A command \in Commanded : command.step # "idle"
  BY DEF Commanded, Step
<1> QED BY <1>1, <1>2

LEMMA StepUpdate ==
    ASSUME NEW command \in Commanded, NEW step \in Step,
           NEW later, later = [command EXCEPT !.step = step]
    PROVE  later \in Commanded /\ later.step = step /\ later.pid = command.pid
BY Zenon DEF Commanded

LEMMA NameUpdate ==
    ASSUME NEW command \in Commanded, NEW step \in Step,
           NEW later, later = [command EXCEPT !.name = "start", !.step = step]
    PROVE  later \in Commanded /\ later.step = step
BY Zenon DEF Commanded

LEMMA TermUpdate ==
    ASSUME NEW process \in Process, NEW term \in {"no", "start", "stop"},
           NEW later, later = [process EXCEPT !.term = term]
    PROVE  /\ later \in Process /\ later.term = term /\ later.by = process.by
           /\ later.program = process.program /\ later.phase = process.phase
BY Zenon DEF Process

LEMMA EndpointUpdate ==
    ASSUME NEW process \in Process, NEW later, later = [process EXCEPT !.endpoint = TRUE]
    PROVE  /\ later \in Process /\ later.term = process.term /\ later.by = process.by
           /\ later.program = process.program /\ later.phase = process.phase
BY Zenon DEF Process

LEMMA PhaseUpdate ==
    ASSUME NEW process \in Process, NEW later, later = [process EXCEPT !.phase = "serving"]
    PROVE  /\ later \in Process /\ later.term = process.term /\ later.by = process.by
           /\ later.program = process.program /\ later.phase = "serving"
BY Zenon DEF Process

LEMMA UnitUpdates ==
    ASSUME NEW u \in Unit
    PROVE  /\ \A p \in Pid \union {NoPid} : [u EXCEPT !.main = p] \in Unit
                                            /\ [u EXCEPT !.main = p].main = p
           /\ \A b \in BOOLEAN : [u EXCEPT !.main = NoPid, !.failed = b] \in Unit
           /\ \A b \in BOOLEAN : [u EXCEPT !.main = NoPid, !.failed = b].main = NoPid
           /\ \A b \in BOOLEAN : /\ [u EXCEPT !.active = b] \in Unit
                                 /\ [u EXCEPT !.active = b].main = u.main
           /\ /\ [u EXCEPT !.active = TRUE, !.failed = FALSE] \in Unit
              /\ [u EXCEPT !.active = TRUE, !.failed = FALSE].main = u.main
           /\ \A b \in BOOLEAN : /\ [u EXCEPT !.tunnel = b] \in Unit
                                 /\ [u EXCEPT !.tunnel = b].main = u.main
           /\ \A b \in BOOLEAN : /\ [u EXCEPT !.owner = "own", !.tunnel = b] \in Unit
                                 /\ [u EXCEPT !.owner = "own", !.tunnel = b].main = u.main
           /\ /\ [u EXCEPT !.owner = "none", !.active = FALSE] \in Unit
              /\ [u EXCEPT !.owner = "none", !.active = FALSE].main = u.main
BY Zenon DEF Unit

LEMMA EndedTypes ==
    ASSUME LifecycleTypes, NEW p, NEW well \in BOOLEAN, Ended(p, well)
    PROVE  /\ ProcessTypes' /\ UnitTypes' /\ Keeps(procs, procs')
           /\ \A q \in DOMAIN procs' : q \in DOMAIN procs /\ q # p /\ procs'[q] = procs[q]
<1>1. DOMAIN procs' = DOMAIN procs \ {p} /\ \A q \in DOMAIN procs' : procs'[q] = procs[q]
  BY DEF Ended
<1>2. ProcessTypes'
  BY <1>1 DEF LifecycleTypes, ProcessTypes
<1>3. UnitTypes'
  <2>1. unit \in Unit /\ (unit.main # NoPid => unit.main \in DOMAIN procs)
    BY DEF LifecycleTypes, UnitTypes
  <2>2. CASE unit.main = p
    <3>1. PICK failed \in BOOLEAN : failed = (~well /\ ~unit.active)
      OBVIOUS
    <3>2. unit' = [unit EXCEPT !.main = NoPid, !.failed = failed]
      BY <2>2, <3>1 DEF Ended
    <3> QED BY <2>1, <3>2, UnitUpdates DEF UnitTypes
  <2>3. CASE unit.main # p
    <3>1. unit' = unit
      BY <2>3 DEF Ended
    <3> QED BY <1>1, <2>1, <2>3, <3>1 DEF UnitTypes
  <2> QED BY <2>2, <2>3
<1>4. Keeps(procs, procs')
  BY <1>1 DEF Keeps, Ours
<1> QED BY <1>1, <1>2, <1>3, <1>4

LEMMA JoinsTypes ==
    ASSUME LifecycleTypes, NEW p \in FreePids, NEW process \in Process, Joins(p, process),
           process.by = "start" => process.program = "gateway"
    PROVE  /\ ProcessTypes' /\ p \in Pid /\ p \notin DOMAIN procs
           /\ DOMAIN procs' = DOMAIN procs \union {p} /\ procs'[p] = process
           /\ \A q \in DOMAIN procs : procs'[q] = procs[q]
           /\ process.by # "start" => Keeps(procs, procs')
<1>1. p \in Pid /\ p \notin DOMAIN procs
  <2> DEFINE free == Pid \ DOMAIN procs
             named == free \intersect ({state_file, tunnel_file} \union {commands[o].pid : o \in
                          {d \in Operator : commands[d] # NoCommand}})
  <2>1. FreePids = named \union IF free = named THEN {} ELSE {CHOOSE q \in free \ named : TRUE}
    BY DEF FreePids
  <2>2. named \subseteq free
    OBVIOUS
  <2>3. free # named => (CHOOSE q \in free \ named : TRUE) \in free
    BY <2>2
  <2> QED BY <2>1, <2>2, <2>3
<1>2. DOMAIN procs' = DOMAIN procs \union {p} /\ procs'[p] = process
      /\ \A q \in DOMAIN procs : procs'[q] = procs[q]
  BY <1>1 DEF Joins
<1>3. ProcessTypes'
  BY <1>1, <1>2 DEF LifecycleTypes, ProcessTypes
<1>4. process.by # "start" => Keeps(procs, procs')
  BY <1>2 DEF Keeps, Ours
<1> QED BY <1>1, <1>2, <1>3, <1>4

LEMMA SignalTypes ==
    ASSUME LifecycleTypes, NEW p \in DOMAIN procs, NEW why \in {"start", "stop"}, Signal(p, why)
    PROVE  /\ ProcessTypes' /\ DOMAIN procs' = DOMAIN procs
           /\ \A q \in DOMAIN procs : procs'[q].by = procs[q].by /\ procs'[q].phase = procs[q].phase
           /\ \A q \in DOMAIN procs : q # p => procs'[q] = procs[q]
           /\ procs'[p].term = IF procs[p].term = "no" THEN why ELSE procs[p].term
<1>1. DOMAIN procs' = DOMAIN procs /\ \A q \in DOMAIN procs : q # p => procs'[q] = procs[q]
  BY DEF Signal
<1>2. PICK term \in {"no", "start", "stop"} :
         term = IF procs[p].term = "no" THEN why ELSE procs[p].term
  BY DEF LifecycleTypes, ProcessTypes, Process
<1>3. procs'[p] = [procs[p] EXCEPT !.term = term]
  BY <1>2 DEF Signal
<1>4. procs[p] \in Process
  BY DEF LifecycleTypes, ProcessTypes
<1>5. /\ procs'[p] \in Process /\ procs'[p].term = term /\ procs'[p].by = procs[p].by
      /\ procs'[p].program = procs[p].program /\ procs'[p].phase = procs[p].phase
  BY <1>3, <1>4, TermUpdate
<1>6. ProcessTypes'
  BY <1>1, <1>5 DEF LifecycleTypes, ProcessTypes
<1> QED BY <1>1, <1>2, <1>5, <1>6

LEMMA CalmIsManaged ==
    ASSUME NEW command, command.step \in Calm, NEW table, NEW file
    PROVE  Accounted(command, table, file) <=> Managed(table, file)
BY DEF Calm, Accounted

LEMMA ManagedStays ==
    ASSUME NEW file, NEW table, NEW later, Managed(table, file),
           \A p \in Ours(later) : p \in Ours(table)
                                  /\ (table[p].phase = "serving" => later[p].phase = "serving")
    PROVE  Managed(later, file)
BY DEF Managed

LEMMA AccountedStays ==
    ASSUME NEW command, NEW file, NEW table, NEW later, Keeps(table, later),
           Accounted(command, table, file)
    PROVE  Accounted(command, later, file)
<1>1. \A p \in Ours(later) : p \in Ours(table) /\ later[p].term = table[p].term
                             /\ (table[p].phase = "serving" => later[p].phase = "serving")
  BY DEF Keeps
<1>2. CASE command.step \in {"clear", "spawn", "unlink", "clear_state"}
  BY <1>1, <1>2 DEF Accounted
<1>3. CASE command.step \in {"write", "wait", "give_up"}
  BY <1>1, <1>3 DEF Accounted
<1>4. CASE command.step = "await_end"
  BY <1>1, <1>4 DEF Accounted
<1>5. CASE command.step \notin {"clear", "spawn", "unlink", "clear_state", "write", "wait",
                                "give_up", "await_end"}
  BY <1>1, <1>5, ManagedStays DEF Accounted
<1> QED BY <1>2, <1>3, <1>4, <1>5

\* A step of the processes leaves the commands where they are.
LEMMA ProcessStep ==
    ASSUME LifecycleInv, ProcessTypes', UnitTypes', tunnel_file' \in Pid \union {NoPid},
           events' \in 0..MaxEvents, UNCHANGED <<commands, state_file, excused, issued>>,
           Keeps(procs, procs')
    PROVE  LifecycleInv'
<1>1. LifecycleTypes'
  BY DEF LifecycleInv, LifecycleTypes
<1>2. ASSUME ~excused, NEW o \in Operator, commands[o] # NoCommand
      PROVE  Accounted(commands[o], procs', state_file)
  BY <1>2, AccountedStays DEF LifecycleInv
<1>3. Managed(procs, state_file) => Managed(procs', state_file)
  BY ManagedStays DEF Keeps
<1> QED BY <1>1, <1>2, <1>3 DEF LifecycleInv

\* A step of a command leaves the others where they are: without an overlap there is none.
LEMMA CommandMoves ==
    ASSUME LifecycleInv, NEW o \in Operator, commands[o] # NoCommand,
           NEW command \in {NoCommand} \union Commanded, CommandGoes(o, command),
           ProcessTypes', UnitTypes', UNCHANGED <<issued, events>>,
           state_file' \in Pid \union {NoPid}, tunnel_file' \in Pid \union {NoPid},
           excused' \in BOOLEAN, ~excused' => ~excused,
           ~excused' /\ command # NoCommand => Accounted(command, procs', state_file'),
           ~excused' /\ command = NoCommand => Managed(procs', state_file')
    PROVE  LifecycleInv'
<1>1. commands \in [Operator -> {NoCommand} \union Commanded]
  BY DEF LifecycleInv, LifecycleTypes
<1>2. commands' \in [Operator -> {NoCommand} \union Commanded] /\ commands'[o] = command
      /\ \A d \in Operator : d # o => commands'[d] = commands[d]
  BY <1>1 DEF CommandGoes
<1>3. LifecycleTypes'
  BY <1>2 DEF LifecycleInv, LifecycleTypes
<1>4. ASSUME ~excused', NEW d \in Operator, d # o PROVE commands'[d] = NoCommand
  BY <1>2, <1>4 DEF LifecycleInv
<1> QED BY <1>2, <1>3, <1>4 DEF LifecycleInv

CalmlyGoes(o) ==
    \E command \in {NoCommand} \union Commanded :
        CommandGoes(o, command) /\ (command # NoCommand => command.step \in Calm)

LEMMA StepsCalmly ==
    ASSUME NEW o, commands[o] \in Commanded, NEW step \in Calm, CommandStep(o, step)
    PROVE  CalmlyGoes(o)
<1>1. step \in Step
  BY DEF Calm, Step
<1>2. PICK command : command = [commands[o] EXCEPT !.step = step]
  OBVIOUS
<1>3. command \in Commanded /\ command.step = step
  BY <1>1, <1>2, StepUpdate
<1> QED BY <1>2, <1>3 DEF CalmlyGoes, CommandStep

LEMMA EndsCalmly == \A o : CommandEnds(o) => CalmlyGoes(o)
BY DEF CalmlyGoes, CommandEnds

LEMMA AfterStopCalmly ==
    ASSUME NEW o, commands[o] \in Commanded, AfterStop(o)
    PROVE  CalmlyGoes(o)
<1>1. CASE commands[o].name = "restart"
  <2>1. "look" \in Step /\ "look" \in Calm
    BY DEF Step, Calm
  <2>2. PICK command : command = [commands[o] EXCEPT !.name = "start", !.step = "look"]
    OBVIOUS
  <2>3. command \in Commanded /\ command.step = "look"
    <3>1. PICK base \in Commanded : base = commands[o]
      OBVIOUS
    <3>2. command = [base EXCEPT !.name = "start", !.step = "look"]
      BY <2>2, <3>1
    <3> QED BY <2>1, <3>2, NameUpdate
  <2> QED BY <1>1, <2>1, <2>2, <2>3 DEF CalmlyGoes, AfterStop
<1>2. CASE commands[o].name = "install"
  <2>1. CommandStep(o, "write_unit")
    BY <1>2 DEF AfterStop
  <2>2. "write_unit" \in Calm
    BY DEF Calm
  <2> QED BY <2>1, <2>2, StepsCalmly
<1>3. CASE commands[o].name \notin {"restart", "install"}
  BY <1>3, EndsCalmly DEF AfterStop
<1> QED BY <1>1, <1>2, <1>3

\* A command that goes on calmly when no server of ours is lost to the state file.
LEMMA CalmMove ==
    ASSUME LifecycleInv, NEW o \in Operator, commands[o] # NoCommand, CalmlyGoes(o),
           ProcessTypes', UnitTypes', UNCHANGED <<excused, issued, events>>,
           state_file' \in Pid \union {NoPid}, tunnel_file' \in Pid \union {NoPid},
           ~excused => Managed(procs', state_file')
    PROVE  LifecycleInv'
<1>1. PICK command \in {NoCommand} \union Commanded :
         CommandGoes(o, command) /\ (command # NoCommand => command.step \in Calm)
  BY DEF CalmlyGoes
<1>2. ~excused' /\ command # NoCommand => Accounted(command, procs', state_file')
  BY <1>1, CalmIsManaged
<1>3. excused' \in BOOLEAN
  BY DEF LifecycleInv, LifecycleTypes
<1> QED BY <1>1, <1>2, <1>3, CommandMoves

\* Such a step of a command that touches neither process nor state file.
LEMMA QuietMove ==
    ASSUME LifecycleInv, NEW o \in Operator, commands[o] # NoCommand, commands[o].step \in Calm,
           CalmlyGoes(o), UnitTypes',
           UNCHANGED <<procs, state_file, tunnel_file, excused, issued, events>>
    PROVE  LifecycleInv'
<1>1. ProcessTypes' /\ state_file' \in Pid \union {NoPid} /\ tunnel_file' \in Pid \union {NoPid}
  BY DEF LifecycleInv, LifecycleTypes, ProcessTypes
<1>2. ~excused => Managed(procs', state_file')
  BY CalmIsManaged DEF LifecycleInv
<1> QED BY <1>1, <1>2, CalmMove

LEMMA AtAStep ==
    ASSUME LifecycleInv, NEW o \in Operator, NEW step, AtStep(o, step), step # "idle"
    PROVE  commands[o] \in Commanded /\ commands[o] # NoCommand /\ commands[o].step = step
BY IdleCommand DEF AtStep, LifecycleInv, LifecycleTypes

-----------------------------------------------------------------------------
(* The processes                                                           *)

LEMMA HappensTypes ==
    ASSUME LifecycleInv, NEW cost \in Nat, Happens(cost)
    PROVE  events' \in 0..MaxEvents
BY LifecycleAssumption DEF Happens, LifecycleInv, LifecycleTypes

LEMMA OpenTunnelSafe ==
    ASSUME LifecycleInv, NEW p \in DOMAIN procs, OpenTunnel(p)
    PROVE  LifecycleInv'
<1>1. LifecycleTypes /\ UNCHANGED <<state_file, commands, excused, issued, events>>
  BY DEF OpenTunnel, LifecycleInv
<1>2. events' \in 0..MaxEvents
  BY <1>1 DEF LifecycleTypes
<1>3. CASE Ended(p, FALSE) /\ tunnel_file' = NoPid
  <2>1. ProcessTypes' /\ UnitTypes' /\ Keeps(procs, procs')
    BY <1>1, <1>3, EndedTypes
  <2> QED BY <1>1, <1>2, <1>3, <2>1, ProcessStep
<1>4. CASE procs' = [procs EXCEPT ![p].endpoint = TRUE] /\ tunnel_file' = p /\ UNCHANGED unit
  <2>1. procs[p] \in Process
    BY <1>1 DEF LifecycleTypes, ProcessTypes
  <2>2. /\ DOMAIN procs' = DOMAIN procs /\ procs'[p] = [procs[p] EXCEPT !.endpoint = TRUE]
        /\ \A q \in DOMAIN procs : q # p => procs'[q] = procs[q]
    BY <1>4
  <2>3. /\ procs'[p] \in Process /\ procs'[p].term = procs[p].term
        /\ procs'[p].by = procs[p].by /\ procs'[p].program = procs[p].program
        /\ procs'[p].phase = procs[p].phase
    BY <2>1, <2>2, EndpointUpdate
  <2>4. ProcessTypes'
    <3>1. /\ DOMAIN procs \subseteq Pid /\ \A q \in DOMAIN procs : procs[q] \in Process
          /\ \A q \in DOMAIN procs : procs[q].by = "start" => procs[q].program = "gateway"
      BY <1>1 DEF LifecycleTypes, ProcessTypes
    <3>2. ASSUME NEW q \in DOMAIN procs
          PROVE  procs'[q] \in Process /\ (procs'[q].by = "start" => procs'[q].program = "gateway")
      BY <2>2, <2>3, <3>1
    <3> QED BY <2>2, <3>1, <3>2 DEF ProcessTypes
  <2>5. Keeps(procs, procs')
    BY <2>2, <2>3 DEF Keeps, Ours
  <2>6. UnitTypes' /\ tunnel_file' \in Pid \union {NoPid}
    BY <1>1, <1>4, <2>2 DEF LifecycleTypes, UnitTypes, ProcessTypes
  <2> QED BY <1>1, <1>2, <2>4, <2>5, <2>6, ProcessStep
<1> QED BY <1>3, <1>4 DEF OpenTunnel

LEMMA BindSafe ==
    ASSUME LifecycleInv, NEW p \in DOMAIN procs, Bind(p)
    PROVE  LifecycleInv'
<1>1. LifecycleTypes /\ UNCHANGED <<state_file, commands, excused, issued, events>>
  BY DEF Bind, LifecycleInv
<1>2. events' \in 0..MaxEvents
  BY <1>1 DEF LifecycleTypes
<1>3. CASE Ended(p, FALSE) /\ ClosedTunnel(p)
  <2>1. ProcessTypes' /\ UnitTypes' /\ Keeps(procs, procs')
    BY <1>1, <1>3, EndedTypes
  <2>2. tunnel_file' \in Pid \union {NoPid}
    BY <1>1, <1>3 DEF ClosedTunnel, LifecycleTypes
  <2> QED BY <1>1, <1>2, <2>1, <2>2, ProcessStep
<1>4. CASE procs' = [procs EXCEPT ![p].phase = "serving"] /\ UNCHANGED <<unit, tunnel_file>>
  <2>1. procs[p] \in Process
    BY <1>1 DEF LifecycleTypes, ProcessTypes
  <2>2. /\ DOMAIN procs' = DOMAIN procs /\ procs'[p] = [procs[p] EXCEPT !.phase = "serving"]
        /\ \A q \in DOMAIN procs : q # p => procs'[q] = procs[q]
    BY <1>4
  <2>3. /\ procs'[p] \in Process /\ procs'[p].term = procs[p].term
        /\ procs'[p].by = procs[p].by /\ procs'[p].program = procs[p].program
        /\ procs'[p].phase = "serving"
    BY <2>1, <2>2, PhaseUpdate
  <2>4. ProcessTypes'
    <3>1. /\ DOMAIN procs \subseteq Pid /\ \A q \in DOMAIN procs : procs[q] \in Process
          /\ \A q \in DOMAIN procs : procs[q].by = "start" => procs[q].program = "gateway"
      BY <1>1 DEF LifecycleTypes, ProcessTypes
    <3>2. ASSUME NEW q \in DOMAIN procs
          PROVE  procs'[q] \in Process /\ (procs'[q].by = "start" => procs'[q].program = "gateway")
      BY <2>2, <2>3, <3>1
    <3> QED BY <2>2, <3>1, <3>2 DEF ProcessTypes
  <2>5. Keeps(procs, procs')
    BY <2>2, <2>3 DEF Keeps, Ours
  <2>6. UnitTypes' /\ tunnel_file' \in Pid \union {NoPid}
    BY <1>1, <1>4, <2>2 DEF LifecycleTypes, UnitTypes, ProcessTypes
  <2> QED BY <1>1, <1>2, <2>4, <2>5, <2>6, ProcessStep
<1> QED BY <1>3, <1>4 DEF Bind

LEMMA EndingSafe ==
    ASSUME LifecycleInv, NEW p \in DOMAIN procs, ShutDown(p) \/ Die(p)
    PROVE  LifecycleInv'
<1>1. LifecycleTypes /\ UNCHANGED <<state_file, commands, excused, issued>>
  BY DEF ShutDown, Die, LifecycleInv
<1>2. events' \in 0..MaxEvents
  BY <1>1, HappensTypes DEF ShutDown, Die, LifecycleTypes
<1>3. ProcessTypes' /\ UnitTypes' /\ Keeps(procs, procs')
  <2>1. PICK well \in BOOLEAN : Ended(p, well)
    BY DEF ShutDown, Die
  <2> QED BY <1>1, <2>1, EndedTypes
<1>4. tunnel_file' \in Pid \union {NoPid}
  BY <1>1 DEF ShutDown, Die, ClosedTunnel, LifecycleTypes
<1> QED BY <1>1, <1>2, <1>3, <1>4, ProcessStep

LEMMA StrangerSafe ==
    ASSUME LifecycleInv, Stranger
    PROVE  LifecycleInv'
<1>1. PICK p \in FreePids, program \in {"gateway", "other"}, tunnel \in BOOLEAN :
         Joins(p, [Spawned("user", tunnel) EXCEPT !.program = program])
  BY DEF Stranger
<1>2. PICK process : process = [Spawned("user", tunnel) EXCEPT !.program = program]
  OBVIOUS
<1>3. process \in Process /\ process.by = "user"
  BY <1>2 DEF Spawned, Process
<1>4. LifecycleTypes /\ UNCHANGED <<state_file, tunnel_file, unit, commands, excused, issued>>
  BY DEF Stranger, LifecycleInv
<1>5. /\ ProcessTypes' /\ DOMAIN procs' = DOMAIN procs \union {p} /\ Keeps(procs, procs')
  BY <1>1, <1>2, <1>3, <1>4, JoinsTypes
<1>6. UnitTypes' /\ tunnel_file' \in Pid \union {NoPid}
  BY <1>4, <1>5 DEF LifecycleTypes, UnitTypes
<1>7. events' \in 0..MaxEvents
  BY HappensTypes DEF Stranger
<1> QED BY <1>4, <1>5, <1>6, <1>7, ProcessStep

LEMMA UnitSpawnSafe ==
    ASSUME LifecycleInv, UnitSpawn
    PROVE  LifecycleInv'
<1>1. PICK p \in FreePids : /\ Joins(p, Spawned("systemd", unit.tunnel))
                            /\ unit' = [unit EXCEPT !.main = p]
  BY DEF UnitSpawn
<1>2. LifecycleTypes /\ unit \in Unit
      /\ UNCHANGED <<state_file, tunnel_file, commands, excused, issued, events>>
  BY DEF UnitSpawn, LifecycleInv, LifecycleTypes, UnitTypes
<1>3. PICK process : process = Spawned("systemd", unit.tunnel)
  OBVIOUS
<1>4. process \in Process /\ process.by = "systemd"
  <2>1. unit.tunnel \in BOOLEAN
    BY <1>2 DEF Unit
  <2> QED BY <1>3, <2>1 DEF Spawned, Process
<1>5. /\ ProcessTypes' /\ DOMAIN procs' = DOMAIN procs \union {p} /\ Keeps(procs, procs')
      /\ p \in Pid
  BY <1>1, <1>2, <1>3, <1>4, JoinsTypes
<1>6. UnitTypes'
  BY <1>1, <1>2, <1>5, UnitUpdates DEF UnitTypes
<1>7. tunnel_file' \in Pid \union {NoPid} /\ events' \in 0..MaxEvents
  BY <1>2 DEF LifecycleTypes
<1> QED BY <1>2, <1>5, <1>6, <1>7, ProcessStep

-----------------------------------------------------------------------------
(* The commands                                                            *)

LEMMA CommandSafe ==
    ASSUME LifecycleInv, NEW o \in Operator, Command(o)
    PROVE  LifecycleInv'
<1>1. PICK name \in {"start", "stop", "restart", "install", "uninstall"},
           tunnel \in TunnelOption \union {"unset"} :
         CommandGoes(o, [name |-> name, tunnel |-> tunnel, pid |-> NoPid, supervised |-> FALSE,
                         step |-> "look"])
  BY DEF Command
<1>2. PICK command : command = [name |-> name, tunnel |-> tunnel, pid |-> NoPid,
                                supervised |-> FALSE, step |-> "look"]
  OBVIOUS
<1>3. command \in Commanded /\ command.step \in Calm
  BY <1>2 DEF Commanded, Step, Calm
<1>4. /\ commands[o] = NoCommand /\ issued < MaxCommands /\ issued' = issued + 1
      /\ UNCHANGED <<procs, state_file, tunnel_file, unit>>
  BY DEF Command
<1>5. commands' \in [Operator -> {NoCommand} \union Commanded] /\ commands'[o] = command
      /\ \A d \in Operator : d # o => commands'[d] = commands[d]
  BY <1>1, <1>2, <1>3 DEF CommandGoes, LifecycleInv, LifecycleTypes
<1>6. excused' \in BOOLEAN /\ events' \in 0..MaxEvents
  BY HappensTypes, LifecycleAssumption DEF Command, LifecycleInv, LifecycleTypes
<1>7. issued' \in 0..MaxCommands
  BY <1>4, LifecycleAssumption DEF LifecycleInv, LifecycleTypes
<1>8. LifecycleTypes'
  BY <1>4, <1>5, <1>6, <1>7 DEF LifecycleInv, LifecycleTypes, ProcessTypes, UnitTypes
<1>9. ASSUME ~excused' PROVE ~excused /\ \A d \in Operator : commands[d] = NoCommand
  BY <1>9 DEF Command
<1>10. ASSUME ~excused' PROVE Accounted(command, procs', state_file')
  BY <1>3, <1>4, <1>9, <1>10, CalmIsManaged DEF LifecycleInv
<1>11. ASSUME ~excused', NEW d \in Operator, d # o PROVE commands'[d] = NoCommand
  BY <1>5, <1>9, <1>11
<1>12. command # NoCommand
  BY <1>3, IdleCommand
<1> QED BY <1>5, <1>8, <1>10, <1>11, <1>12 DEF LifecycleInv

LEMMA LookDetachedSafe ==
    ASSUME LifecycleInv, NEW o \in Operator, LookDetached(o)
    PROVE  LifecycleInv'
<1>1. commands[o] \in Commanded /\ commands[o] # NoCommand /\ commands[o].step = "look"
  BY AtAStep DEF LookDetached
<1>2. UNCHANGED <<procs, state_file, tunnel_file, unit, excused, issued, events>>
  BY DEF LookDetached
<1>3. /\ ProcessTypes' /\ UnitTypes' /\ state_file' \in Pid \union {NoPid}
      /\ tunnel_file' \in Pid \union {NoPid} /\ excused' \in BOOLEAN
  BY <1>2 DEF LifecycleInv, LifecycleTypes, ProcessTypes, UnitTypes
<1>4. ~excused => Managed(procs, state_file)
  BY <1>1, CalmIsManaged DEF LifecycleInv, Calm
<1>5. CASE Classification = "stopped" /\ CommandStep(o, "clear")
  <2>1. PICK command : command = [commands[o] EXCEPT !.step = "clear"]
    OBVIOUS
  <2>2. command \in Commanded /\ command.step = "clear"
    <3>1. "clear" \in Step
      BY DEF Step
    <3> QED BY <1>1, <2>1, <3>1, StepUpdate
  <2>3. Serving = {}
    BY <1>5 DEF Classification, PortInUse
  <2>4. ~excused => Ours(procs) = {}
    BY <1>4, <2>3 DEF Managed, Ours, Serving
  <2>5. ~excused' => Accounted(command, procs', state_file')
    BY <1>2, <2>2, <2>4 DEF Accounted
  <2>6. CommandGoes(o, command) /\ command # NoCommand
    BY <1>5, <2>1, <2>2, IdleCommand DEF CommandStep
  <2> QED BY <1>1, <1>2, <1>3, <2>2, <2>5, <2>6, CommandMoves
<1>6. CASE CommandEnds(o)
  <2>1. CalmlyGoes(o) /\ commands[o].step \in Calm
    BY <1>1, <1>6, EndsCalmly DEF Calm
  <2> QED BY <1>1, <1>2, <1>3, <2>1, QuietMove
<1> QED BY <1>5, <1>6 DEF LookDetached

LEMMA ClearStateSafe ==
    ASSUME LifecycleInv, NEW o \in Operator, ClearState(o)
    PROVE  LifecycleInv'
<1>1. commands[o] \in Commanded /\ commands[o] # NoCommand /\ commands[o].step = "clear"
  BY AtAStep DEF ClearState
<1>2. UNCHANGED <<procs, unit, excused, issued, events>>
      /\ state_file' = NoPid /\ tunnel_file' = NoPid
  BY DEF ClearState
<1>3. /\ ProcessTypes' /\ UnitTypes' /\ state_file' \in Pid \union {NoPid}
      /\ tunnel_file' \in Pid \union {NoPid} /\ excused' \in BOOLEAN
  BY <1>2 DEF LifecycleInv, LifecycleTypes, ProcessTypes, UnitTypes
<1>4. PICK command : command = [commands[o] EXCEPT !.step = "spawn"]
  OBVIOUS
<1>5. command \in Commanded /\ command.step = "spawn"
  <2>1. "spawn" \in Step
    BY DEF Step
  <2> QED BY <1>1, <1>4, <2>1, StepUpdate
<1>6. ~excused => Ours(procs) = {}
  BY <1>1 DEF LifecycleInv, Accounted
<1>7. ~excused' => Accounted(command, procs', state_file')
  BY <1>2, <1>5, <1>6 DEF Accounted
<1>8. CommandGoes(o, command) /\ command # NoCommand
  BY <1>4, <1>5, IdleCommand DEF CommandStep, ClearState
<1> QED BY <1>1, <1>2, <1>3, <1>5, <1>7, <1>8, CommandMoves

LEMMA SpawnSafe ==
    ASSUME LifecycleInv, NEW o \in Operator, Spawn(o)
    PROVE  LifecycleInv'
<1>1. commands[o] \in Commanded /\ commands[o] # NoCommand /\ commands[o].step = "spawn"
  BY AtAStep DEF Spawn
<1>2. UNCHANGED <<state_file, tunnel_file, unit, excused, issued, events>>
  BY DEF Spawn
<1>3. PICK p \in FreePids :
         /\ Joins(p, Spawned("start", commands[o].tunnel = "yes"))
         /\ CommandGoes(o, [commands[o] EXCEPT !.pid = p, !.step = "write"])
  BY DEF Spawn
<1>4. PICK process : process = Spawned("start", commands[o].tunnel = "yes")
  OBVIOUS
<1>5. process \in Process /\ process.by = "start" /\ process.program = "gateway"
      /\ process.term = "no"
  <2>1. PICK tunnel \in BOOLEAN : tunnel = (commands[o].tunnel = "yes")
    OBVIOUS
  <2>2. process = Spawned("start", tunnel)
    BY <1>4, <2>1
  <2> QED BY <2>2 DEF Spawned, Process
<1>6. LifecycleTypes
  BY DEF LifecycleInv
<1>7. /\ ProcessTypes' /\ p \in Pid /\ p \notin DOMAIN procs
      /\ DOMAIN procs' = DOMAIN procs \union {p} /\ procs'[p] = process
      /\ \A q \in DOMAIN procs : procs'[q] = procs[q]
  BY <1>3, <1>4, <1>5, <1>6, JoinsTypes
<1>8. UnitTypes' /\ state_file' \in Pid \union {NoPid}
      /\ tunnel_file' \in Pid \union {NoPid} /\ excused' \in BOOLEAN
  BY <1>2, <1>6, <1>7 DEF LifecycleTypes, UnitTypes
<1>9. PICK command : command = [commands[o] EXCEPT !.pid = p, !.step = "write"]
  OBVIOUS
<1>10. command \in Commanded /\ command.step = "write" /\ command.pid = p
  <2>1. "write" \in Step
    BY DEF Step
  <2>2. PICK base \in Commanded, pid \in Pid \union {NoPid} : base = commands[o] /\ pid = p
    BY <1>1, <1>7
  <2>3. command = [base EXCEPT !.pid = pid, !.step = "write"]
    BY <1>9, <2>2
  <2>4. command \in Commanded /\ command.step = "write" /\ command.pid = pid
    BY <2>1, <2>3, Zenon DEF Commanded
  <2> QED BY <2>2, <2>4
<1>11. ~excused => Ours(procs) = {}
  BY <1>1 DEF LifecycleInv, Accounted
<1>12. ~excused' => Accounted(command, procs', state_file')
  <2>1. ~excused => \A q \in Ours(procs') : q = p /\ procs'[q].term = "no"
    BY <1>5, <1>7, <1>11 DEF Ours
  <2> QED BY <1>2, <1>10, <2>1 DEF Accounted
<1>13. CommandGoes(o, command) /\ command # NoCommand
  BY <1>3, <1>9, <1>10, IdleCommand
<1> QED BY <1>1, <1>2, <1>7, <1>8, <1>10, <1>12, <1>13, CommandMoves

LEMMA WriteStateSafe ==
    ASSUME LifecycleInv, NEW o \in Operator, WriteState(o)
    PROVE  LifecycleInv'
<1>1. commands[o] \in Commanded /\ commands[o] # NoCommand /\ commands[o].step = "write"
  BY AtAStep DEF WriteState
<1>2. UNCHANGED <<procs, tunnel_file, unit, excused, issued, events>>
      /\ state_file' = commands[o].pid
  BY DEF WriteState
<1>3. commands[o].pid \in Pid \union {NoPid}
  BY <1>1 DEF Commanded
<1>4. /\ ProcessTypes' /\ UnitTypes' /\ state_file' \in Pid \union {NoPid}
      /\ tunnel_file' \in Pid \union {NoPid} /\ excused' \in BOOLEAN
  BY <1>2, <1>3 DEF LifecycleInv, LifecycleTypes, ProcessTypes, UnitTypes
<1>5. PICK command : command = [commands[o] EXCEPT !.step = "wait"]
  OBVIOUS
<1>6. command \in Commanded /\ command.step = "wait" /\ command.pid = commands[o].pid
  <2>1. "wait" \in Step
    BY DEF Step
  <2> QED BY <1>1, <1>5, <2>1, StepUpdate
<1>7. ~excused => \A q \in Ours(procs) : q = commands[o].pid /\ procs[q].term = "no"
  BY <1>1 DEF LifecycleInv, Accounted
<1>8. ~excused' => Accounted(command, procs', state_file')
  BY <1>2, <1>6, <1>7 DEF Accounted
<1>9. CommandGoes(o, command) /\ command # NoCommand
  BY <1>5, <1>6, IdleCommand DEF CommandStep, WriteState
<1> QED BY <1>1, <1>2, <1>4, <1>6, <1>8, <1>9, CommandMoves

LEMMA WaitForHealthSafe ==
    ASSUME LifecycleInv, NEW o \in Operator, WaitForHealth(o)
    PROVE  LifecycleInv'
<1>1. commands[o] \in Commanded /\ commands[o] # NoCommand /\ commands[o].step = "wait"
  BY AtAStep DEF WaitForHealth
<1>2. UNCHANGED <<procs, state_file, tunnel_file, unit, issued, events>>
  BY DEF WaitForHealth
<1>3. /\ ProcessTypes' /\ UnitTypes' /\ state_file' \in Pid \union {NoPid}
      /\ tunnel_file' \in Pid \union {NoPid} /\ excused \in BOOLEAN
  BY <1>2 DEF LifecycleInv, LifecycleTypes, ProcessTypes, UnitTypes
<1>4. ~excused => \A q \in Ours(procs) : /\ q = commands[o].pid /\ procs[q].term = "no"
                                         /\ state_file = commands[o].pid
  BY <1>1 DEF LifecycleInv, Accounted
<1>5. CASE CommandEnds(o) /\ excused' = (excused \/ commands[o].pid \notin Serving)
  <2>1. excused' \in BOOLEAN /\ (~excused' => ~excused /\ commands[o].pid \in Serving)
    BY <1>3, <1>5, Zenon
  <2>2. ~excused' => Managed(procs', state_file')
    BY <1>2, <1>4, <2>1 DEF Managed, Serving
  <2> QED BY <1>1, <1>2, <1>3, <1>5, <2>1, <2>2, CommandMoves DEF CommandEnds
<1>6. CASE CommandStep(o, "give_up") /\ UNCHANGED excused
  <2>1. PICK command : command = [commands[o] EXCEPT !.step = "give_up"]
    OBVIOUS
  <2>2. command \in Commanded /\ command.step = "give_up" /\ command.pid = commands[o].pid
    <3>1. "give_up" \in Step
      BY DEF Step
    <3> QED BY <1>1, <2>1, <3>1, StepUpdate
  <2>3. ~excused => Accounted(commands[o], procs, state_file)
    BY <1>1 DEF LifecycleInv
  <2>4. ~excused' => Accounted(command, procs', state_file')
    BY <1>1, <1>2, <1>6, <2>2, <2>3 DEF Accounted
  <2>5. CommandGoes(o, command) /\ command # NoCommand
    BY <1>6, <2>1, <2>2, IdleCommand DEF CommandStep
  <2> QED BY <1>1, <1>2, <1>3, <1>6, <2>2, <2>4, <2>5, CommandMoves
<1> QED BY <1>5, <1>6 DEF WaitForHealth

LEMMA GiveUpSafe ==
    ASSUME LifecycleInv, NEW o \in Operator, GiveUp(o)
    PROVE  LifecycleInv'
<1>1. commands[o] \in Commanded /\ commands[o] # NoCommand /\ commands[o].step = "give_up"
  BY AtAStep DEF GiveUp
<1>2. LifecycleTypes /\ UNCHANGED <<state_file, tunnel_file, unit, excused, issued, events>>
  BY DEF GiveUp, LifecycleInv
<1>3. ~excused => \A q \in Ours(procs) : q = commands[o].pid /\ procs[q].term = "no"
  BY <1>1 DEF LifecycleInv, Accounted
<1>4. ProcessTypes' /\ DOMAIN procs' = DOMAIN procs /\ (~excused => Ours(procs') = {})
  <2>1. CASE ProcessMatches(commands[o].pid) /\ Signal(commands[o].pid, "start")
    <3>1. commands[o].pid \in DOMAIN procs
      BY <2>1 DEF ProcessMatches
    <3>2. /\ ProcessTypes' /\ DOMAIN procs' = DOMAIN procs
          /\ \A q \in DOMAIN procs : procs'[q].by = procs[q].by
          /\ \A q \in DOMAIN procs : q # commands[o].pid => procs'[q] = procs[q]
          /\ procs'[commands[o].pid].term =
                IF procs[commands[o].pid].term = "no" THEN "start" ELSE procs[commands[o].pid].term
      BY <1>2, <2>1, <3>1, SignalTypes
    <3>3. ~excused => Ours(procs') = {}
      BY <1>3, <3>2 DEF Ours
    <3> QED BY <3>2, <3>3
  <2>2. CASE ~ProcessMatches(commands[o].pid) /\ UNCHANGED procs
    <3>1. \A q \in Ours(procs) : ProcessMatches(q)
      BY <1>2 DEF Ours, ProcessMatches, LifecycleTypes, ProcessTypes
    <3>2. ~excused => Ours(procs') = {}
      BY <1>3, <2>2, <3>1
    <3> QED BY <1>2, <2>2, <3>2 DEF LifecycleTypes, ProcessTypes
  <2> QED BY <2>1, <2>2 DEF GiveUp
<1>5. /\ UnitTypes' /\ state_file' \in Pid \union {NoPid}
      /\ tunnel_file' \in Pid \union {NoPid} /\ excused' \in BOOLEAN
  BY <1>2, <1>4 DEF LifecycleTypes, UnitTypes
<1>6. PICK command : command = [commands[o] EXCEPT !.step = "unlink"]
  OBVIOUS
<1>7. command \in Commanded /\ command.step = "unlink"
  <2>1. "unlink" \in Step
    BY DEF Step
  <2> QED BY <1>1, <1>6, <2>1, StepUpdate
<1>8. ~excused' => Accounted(command, procs', state_file')
  BY <1>2, <1>4, <1>7 DEF Accounted
<1>9. CommandGoes(o, command) /\ command # NoCommand
  BY <1>6, <1>7, IdleCommand DEF CommandStep, GiveUp
<1> QED BY <1>1, <1>2, <1>4, <1>5, <1>7, <1>8, <1>9, CommandMoves

LEMMA UnlinkSafe ==
    ASSUME LifecycleInv, NEW o \in Operator, Unlink(o)
    PROVE  LifecycleInv'
<1>1. commands[o] \in Commanded /\ commands[o] # NoCommand /\ commands[o].step = "unlink"
  BY AtAStep DEF Unlink
<1>2. UNCHANGED <<procs, tunnel_file, unit, excused, issued, events>> /\ state_file' = NoPid
  BY DEF Unlink
<1>3. /\ ProcessTypes' /\ UnitTypes' /\ state_file' \in Pid \union {NoPid}
      /\ tunnel_file' \in Pid \union {NoPid}
  BY <1>2 DEF LifecycleInv, LifecycleTypes, ProcessTypes, UnitTypes
<1>4. ~excused => Ours(procs) = {}
  BY <1>1 DEF LifecycleInv, Accounted
<1>5. ~excused => Managed(procs', state_file')
  BY <1>2, <1>4 DEF Managed
<1>6. CalmlyGoes(o)
  BY EndsCalmly DEF Unlink
<1> QED BY <1>1, <1>2, <1>3, <1>5, <1>6, CalmMove

LEMMA StopDetachedSafe ==
    ASSUME LifecycleInv, NEW o \in Operator, StopDetached(o)
    PROVE  LifecycleInv'
<1>1. commands[o] \in Commanded /\ commands[o] # NoCommand /\ commands[o].step \in Calm
  BY AtAStep DEF StopDetached, Calm
<1>2. LifecycleTypes /\ UNCHANGED <<state_file, tunnel_file, unit, excused, issued, events>>
  BY DEF StopDetached, LifecycleInv
<1>3. ~excused => Managed(procs, state_file)
  BY <1>1, CalmIsManaged DEF LifecycleInv
<1>4. CASE ProcessMatches(state_file) /\ Signal(state_file, "stop")
           /\ CommandGoes(o, [commands[o] EXCEPT !.pid = state_file, !.step = "await_end"])
  <2>1. state_file \in DOMAIN procs /\ state_file \in Pid \union {NoPid}
    BY <1>2, <1>4 DEF ProcessMatches, LifecycleTypes
  <2>2. /\ ProcessTypes' /\ DOMAIN procs' = DOMAIN procs
        /\ \A q \in DOMAIN procs : procs'[q].by = procs[q].by
        /\ \A q \in DOMAIN procs : q # state_file => procs'[q] = procs[q]
    BY <1>2, <1>4, <2>1, SignalTypes
  <2>3. PICK command : command = [commands[o] EXCEPT !.pid = state_file, !.step = "await_end"]
    OBVIOUS
  <2>4. command \in Commanded /\ command.step = "await_end" /\ command.pid = state_file
    <3>1. "await_end" \in Step
      BY DEF Step
    <3>2. PICK base \in Commanded, pid \in Pid \union {NoPid} : base = commands[o] /\ pid = state_file
      BY <1>1, <2>1
    <3>3. command = [base EXCEPT !.pid = pid, !.step = "await_end"]
      BY <2>3, <3>2
    <3>4. command \in Commanded /\ command.step = "await_end" /\ command.pid = pid
      BY <3>1, <3>3, Zenon DEF Commanded
    <3> QED BY <3>2, <3>4
  <2>5. ~excused => Ours(procs') \subseteq {state_file}
    BY <1>3, <2>2 DEF Managed, Ours
  <2>6. ~excused' => Accounted(command, procs', state_file')
    BY <1>2, <2>4, <2>5 DEF Accounted
  <2>7. CommandGoes(o, command) /\ command # NoCommand
    BY <1>4, <2>3, <2>4, IdleCommand
  <2>8. /\ UnitTypes' /\ state_file' \in Pid \union {NoPid}
        /\ tunnel_file' \in Pid \union {NoPid} /\ excused' \in BOOLEAN
    BY <1>2, <2>2 DEF LifecycleTypes, UnitTypes
  <2> QED BY <1>1, <1>2, <2>2, <2>4, <2>6, <2>7, <2>8, CommandMoves
<1>5. CASE AfterStop(o) /\ UNCHANGED procs
  <2>1. CalmlyGoes(o) /\ UnitTypes'
    BY <1>1, <1>2, <1>5, AfterStopCalmly DEF LifecycleTypes, UnitTypes
  <2> QED BY <1>1, <1>2, <1>5, <2>1, QuietMove
<1> QED BY <1>4, <1>5 DEF StopDetached

LEMMA AwaitEndSafe ==
    ASSUME LifecycleInv, NEW o \in Operator, AwaitEnd(o)
    PROVE  LifecycleInv'
<1>1. commands[o] \in Commanded /\ commands[o] # NoCommand /\ commands[o].step = "await_end"
  BY AtAStep DEF AwaitEnd
<1>2. LifecycleTypes /\ UNCHANGED <<state_file, tunnel_file, excused, issued, events>>
  BY DEF AwaitEnd, LifecycleInv
<1>3. ~excused => Ours(procs) \subseteq {commands[o].pid}
  BY <1>1 DEF LifecycleInv, Accounted
<1>4. ProcessTypes' /\ UnitTypes' /\ (~excused => Ours(procs') = {})
  <2>1. CASE Ended(commands[o].pid, FALSE)
    <3>1. /\ ProcessTypes' /\ UnitTypes' /\ Keeps(procs, procs')
          /\ \A q \in DOMAIN procs' : q # commands[o].pid
      BY <1>2, <2>1, EndedTypes
    <3>2. ~excused => Ours(procs') = {}
      BY <1>3, <3>1 DEF Keeps, Ours
    <3> QED BY <3>1, <3>2
  <2>2. CASE ~ProcessMatches(commands[o].pid) /\ UNCHANGED <<procs, unit>>
    <3>1. \A q \in Ours(procs) : ProcessMatches(q)
      BY <1>2 DEF Ours, ProcessMatches, LifecycleTypes, ProcessTypes
    <3>2. ~excused => Ours(procs') = {}
      BY <1>3, <2>2, <3>1
    <3> QED BY <1>2, <2>2, <3>2 DEF LifecycleTypes, ProcessTypes, UnitTypes
  <2> QED BY <2>1, <2>2 DEF AwaitEnd, StopsHard
<1>5. /\ state_file' \in Pid \union {NoPid} /\ tunnel_file' \in Pid \union {NoPid}
      /\ excused' \in BOOLEAN
  BY <1>2 DEF LifecycleTypes
<1>6. PICK command : command = [commands[o] EXCEPT !.step = "clear_state"]
  OBVIOUS
<1>7. command \in Commanded /\ command.step = "clear_state"
  <2>1. "clear_state" \in Step
    BY DEF Step
  <2> QED BY <1>1, <1>6, <2>1, StepUpdate
<1>8. ~excused' => Accounted(command, procs', state_file')
  BY <1>2, <1>4, <1>7 DEF Accounted
<1>9. CommandGoes(o, command) /\ command # NoCommand
  BY <1>6, <1>7, IdleCommand DEF CommandStep, AwaitEnd
<1> QED BY <1>1, <1>2, <1>4, <1>5, <1>7, <1>8, <1>9, CommandMoves

LEMMA ClearManagedStateSafe ==
    ASSUME LifecycleInv, NEW o \in Operator, ClearManagedState(o)
    PROVE  LifecycleInv'
<1>1. commands[o] \in Commanded /\ commands[o] # NoCommand /\ commands[o].step = "clear_state"
  BY AtAStep DEF ClearManagedState
<1>2. UNCHANGED <<procs, unit, excused, issued, events>>
      /\ state_file' = NoPid /\ tunnel_file' = NoPid
  BY DEF ClearManagedState
<1>3. /\ ProcessTypes' /\ UnitTypes' /\ state_file' \in Pid \union {NoPid}
      /\ tunnel_file' \in Pid \union {NoPid}
  BY <1>2 DEF LifecycleInv, LifecycleTypes, ProcessTypes, UnitTypes
<1>4. ~excused => Ours(procs) = {}
  BY <1>1 DEF LifecycleInv, Accounted
<1>5. ~excused => Managed(procs', state_file')
  BY <1>2, <1>4 DEF Managed
<1>6. CalmlyGoes(o)
  BY <1>1, AfterStopCalmly DEF ClearManagedState
<1> QED BY <1>1, <1>2, <1>3, <1>5, <1>6, CalmMove

-----------------------------------------------------------------------------
(* The commands under the supervisor                                       *)

LEMMA CalmSteps ==
    /\ "unit_start" \in Calm /\ "unit_restart" \in Calm /\ "unit_wait" \in Calm
    /\ "unit_stop" \in Calm /\ "unit_gone" \in Calm /\ "unit_gone_restart" \in Calm
    /\ "write_unit" \in Calm /\ "remove_unit" \in Calm /\ "stop" \in Calm /\ "configure" \in Calm
    /\ Calm \subseteq Step
BY DEF Calm, Step

LEMMA SupervisedCalmly ==
    ASSUME NEW o, commands[o] \in Commanded, NEW supervised \in BOOLEAN, NEW step \in Calm,
           CommandGoes(o, [commands[o] EXCEPT !.supervised = supervised, !.step = step])
    PROVE  CalmlyGoes(o)
<1>1. step \in Step
  BY CalmSteps
<1>2. PICK command : command = [commands[o] EXCEPT !.supervised = supervised, !.step = step]
  OBVIOUS
<1>3. command \in Commanded /\ command.step = step
  BY <1>1, <1>2, Zenon DEF Commanded
<1> QED BY <1>2, <1>3 DEF CalmlyGoes

LEMMA LookSupervisedSafe ==
    ASSUME LifecycleInv, NEW o \in Operator, LookSupervised(o)
    PROVE  LifecycleInv'
<1>1. commands[o] \in Commanded /\ commands[o] # NoCommand /\ commands[o].step \in Calm
  BY AtAStep DEF LookSupervised, Calm
<1>2. UNCHANGED <<procs, state_file, tunnel_file, excused, issued, events>>
      /\ UnitTypes /\ unit \in Unit
  BY DEF LookSupervised, LifecycleInv, LifecycleTypes, UnitTypes
<1>3. UnitTypes'
  BY <1>2 DEF LookSupervised, UnitTypes
<1>4. CalmlyGoes(o)
  <2>1. CASE CommandEnds(o)
    BY <2>1, EndsCalmly
  <2>2. CASE CommandGoes(o, [commands[o] EXCEPT
                !.supervised = SupervisedClassification = "supervised", !.step = "configure"])
    <3>1. PICK supervised \in BOOLEAN : supervised = (SupervisedClassification = "supervised")
      OBVIOUS
    <3>2. CommandGoes(o, [commands[o] EXCEPT !.supervised = supervised, !.step = "configure"])
      BY <2>2, <3>1
    <3> QED BY <1>1, <3>2, SupervisedCalmly, CalmSteps
  <2> QED BY <2>1, <2>2 DEF LookSupervised
<1> QED BY <1>1, <1>2, <1>3, <1>4, QuietMove

LEMMA ConfigureTunnelSafe ==
    ASSUME LifecycleInv, NEW o \in Operator, ConfigureTunnel(o)
    PROVE  LifecycleInv'
<1>1. commands[o] \in Commanded /\ commands[o] # NoCommand /\ commands[o].step \in Calm
  BY AtAStep DEF ConfigureTunnel, Calm
<1>2. UNCHANGED <<procs, state_file, tunnel_file, excused, issued, events>>
      /\ UnitTypes /\ unit \in Unit
  BY DEF ConfigureTunnel, LifecycleInv, LifecycleTypes, UnitTypes
<1>3. UnitTypes'
  <2>1. CASE UNCHANGED unit
    BY <1>2, <2>1 DEF UnitTypes
  <2>2. ASSUME NEW wanted, unit' = [unit EXCEPT !.tunnel = wanted],
               wanted = CASE commands[o].tunnel = "unset" -> unit.tunnel
                          [] OTHER -> commands[o].tunnel = "yes"
        PROVE  UnitTypes'
    <3>1. unit.tunnel \in BOOLEAN
      BY <1>2 DEF Unit
    <3>2. wanted \in BOOLEAN
      BY <2>2, <3>1
    <3>3. unit' \in Unit /\ unit'.main = unit.main
      BY <1>2, <2>2, <3>2, UnitUpdates
    <3> QED BY <1>2, <3>3 DEF UnitTypes
  <2> QED BY <2>1, <2>2 DEF ConfigureTunnel
<1>4. CalmlyGoes(o)
  <2>1. CommandEnds(o) \/ CommandStep(o, "unit_restart") \/ CommandStep(o, "unit_start")
    BY Zenon DEF ConfigureTunnel
  <2> QED BY <1>1, <2>1, EndsCalmly, StepsCalmly, CalmSteps
<1> QED BY <1>1, <1>2, <1>3, <1>4, QuietMove

LEMMA UnitStartSafe ==
    ASSUME LifecycleInv, NEW o \in Operator, UnitStart(o)
    PROVE  LifecycleInv'
<1>1. commands[o] \in Commanded /\ commands[o] # NoCommand /\ commands[o].step \in Calm
  BY AtAStep DEF UnitStart, Calm
<1>2. UNCHANGED <<procs, state_file, tunnel_file, excused, issued, events>>
      /\ UnitTypes /\ unit \in Unit
  BY DEF UnitStart, LifecycleInv, LifecycleTypes, UnitTypes
<1>3. UnitTypes'
  <2>1. CASE UNCHANGED unit
    BY <1>2, <2>1 DEF UnitTypes
  <2>2. CASE unit' = [unit EXCEPT !.active = TRUE, !.failed = FALSE]
    BY <1>2, <2>2, UnitUpdates DEF UnitTypes
  <2> QED BY <2>1, <2>2 DEF UnitStart
<1>4. CalmlyGoes(o)
  <2>1. CommandEnds(o) \/ CommandStep(o, "unit_wait")
    BY DEF UnitStart
  <2> QED BY <1>1, <2>1, EndsCalmly, StepsCalmly, CalmSteps
<1> QED BY <1>1, <1>2, <1>3, <1>4, QuietMove

LEMMA UnitStopSafe ==
    ASSUME LifecycleInv, NEW o \in Operator, UnitStop(o)
    PROVE  LifecycleInv'
<1>1. commands[o] \in Commanded /\ commands[o] # NoCommand /\ commands[o].step \in Calm
  BY AtAStep DEF UnitStop, Calm
<1>2. UNCHANGED <<state_file, tunnel_file, excused, issued, events>> /\ LifecycleTypes
      /\ UnitTypes /\ unit \in Unit /\ ProcessTypes
  BY DEF UnitStop, LifecycleInv, LifecycleTypes, UnitTypes
<1>3. state_file' \in Pid \union {NoPid} /\ tunnel_file' \in Pid \union {NoPid}
  BY <1>2 DEF LifecycleTypes
<1>4. ~excused => Managed(procs, state_file)
  BY <1>1, CalmIsManaged DEF LifecycleInv
<1>5. CASE CommandEnds(o) /\ UNCHANGED <<procs, unit>>
  <2>1. UnitTypes' /\ CalmlyGoes(o)
    BY <1>2, <1>5, EndsCalmly DEF UnitTypes
  <2> QED BY <1>1, <1>2, <1>5, <2>1, QuietMove
<1>6. CASE /\ unit' = [unit EXCEPT !.active = FALSE]
           /\ IF unit.main # NoPid THEN Signal(unit.main, "stop") ELSE UNCHANGED procs
           /\ CommandStep(o, IF AtStep(o, "unit_restart") THEN "unit_gone_restart"
                                                         ELSE "unit_gone")
  <2>1. unit' \in Unit /\ unit'.main = unit.main
    BY <1>2, <1>6, UnitUpdates
  <2>2. PICK step \in Calm : CommandStep(o, step)
    BY <1>6, CalmSteps
  <2>3. CalmlyGoes(o)
    BY <1>1, <2>2, StepsCalmly
  <2>4. CASE unit.main # NoPid /\ Signal(unit.main, "stop")
    <3>1. unit.main \in DOMAIN procs
      BY <1>2, <2>4 DEF UnitTypes
    <3>2. /\ ProcessTypes' /\ DOMAIN procs' = DOMAIN procs
          /\ \A q \in DOMAIN procs : procs'[q].by = procs[q].by /\ procs'[q].phase = procs[q].phase
          /\ \A q \in DOMAIN procs : q # unit.main => procs'[q] = procs[q]
          /\ procs'[unit.main].term =
                IF procs[unit.main].term = "no" THEN "stop" ELSE procs[unit.main].term
      BY <1>2, <2>4, <3>1, SignalTypes
    <3>3. \A q \in Ours(procs') : q \in Ours(procs) /\ procs'[q].phase = procs[q].phase
      BY <3>2 DEF Ours
    <3>4. ~excused => Managed(procs', state_file')
      BY <1>2, <1>4, <3>3 DEF Managed
    <3>5. UnitTypes'
      BY <1>2, <2>1, <3>2 DEF UnitTypes
    <3> QED BY <1>1, <1>2, <1>3, <2>3, <3>2, <3>4, <3>5, CalmMove
  <2>5. CASE UNCHANGED procs
    <3>1. ProcessTypes' /\ UnitTypes'
      BY <1>2, <2>1, <2>5 DEF ProcessTypes, UnitTypes
    <3> QED BY <1>1, <1>2, <2>3, <2>5, <3>1, QuietMove
  <2> QED BY <1>6, <2>4, <2>5
<1> QED BY <1>5, <1>6 DEF UnitStop

LEMMA UnitGoneSafe ==
    ASSUME LifecycleInv, NEW o \in Operator, UnitGone(o)
    PROVE  LifecycleInv'
<1>1. commands[o] \in Commanded /\ commands[o] # NoCommand /\ commands[o].step \in Calm
  BY AtAStep DEF UnitGone, Calm
<1>2. UNCHANGED <<state_file, tunnel_file, excused, issued, events>> /\ LifecycleTypes
  BY DEF UnitGone, LifecycleInv
<1>3. state_file' \in Pid \union {NoPid} /\ tunnel_file' \in Pid \union {NoPid}
  BY <1>2 DEF LifecycleTypes
<1>4. ~excused => Managed(procs, state_file)
  BY <1>1, CalmIsManaged DEF LifecycleInv
<1>5. CalmlyGoes(o)
  <2>1. CommandEnds(o) \/ CommandStep(o, "unit_start") \/ CommandStep(o, "remove_unit")
    BY Zenon DEF UnitGone
  <2> QED BY <1>1, <2>1, EndsCalmly, StepsCalmly, CalmSteps
<1>6. CASE Ended(unit.main, FALSE)
  <2>1. ProcessTypes' /\ UnitTypes' /\ Keeps(procs, procs')
    BY <1>2, <1>6, EndedTypes
  <2>2. ~excused => Managed(procs', state_file')
    BY <1>2, <1>4, <2>1, ManagedStays DEF Keeps
  <2> QED BY <1>1, <1>2, <1>3, <1>5, <2>1, <2>2, CalmMove
<1>7. CASE UNCHANGED <<procs, unit>>
  <2>1. UnitTypes'
    BY <1>2, <1>7 DEF LifecycleTypes, UnitTypes
  <2> QED BY <1>1, <1>2, <1>5, <1>7, <2>1, QuietMove
<1> QED BY <1>6, <1>7 DEF UnitGone

LEMMA UnitWaitSafe ==
    ASSUME LifecycleInv, NEW o \in Operator, UnitWait(o)
    PROVE  LifecycleInv'
<1>1. commands[o] \in Commanded /\ commands[o] # NoCommand /\ commands[o].step \in Calm
  BY AtAStep DEF UnitWait, Calm
<1>2. UNCHANGED <<procs, state_file, tunnel_file, excused, issued, events>>
      /\ UnitTypes /\ unit \in Unit
  BY DEF UnitWait, LifecycleInv, LifecycleTypes, UnitTypes
<1>3. UnitTypes'
  BY <1>2 DEF UnitWait, UnitTypes
<1>4. CalmlyGoes(o)
  <2>1. CommandEnds(o)
    BY DEF UnitWait
  <2> QED BY <1>1, <2>1, EndsCalmly, StepsCalmly, CalmSteps
<1> QED BY <1>1, <1>2, <1>3, <1>4, QuietMove

LEMMA LookToStopSafe ==
    ASSUME LifecycleInv, NEW o \in Operator, LookToStop(o)
    PROVE  LifecycleInv'
<1>1. commands[o] \in Commanded /\ commands[o] # NoCommand /\ commands[o].step \in Calm
  BY AtAStep DEF LookToStop, Calm
<1>2. UNCHANGED <<procs, state_file, tunnel_file, excused, issued, events>>
      /\ UnitTypes /\ unit \in Unit
  BY DEF LookToStop, LifecycleInv, LifecycleTypes, UnitTypes
<1>3. UnitTypes'
  BY <1>2 DEF LookToStop, UnitTypes
<1>4. CalmlyGoes(o)
  <2>1. CommandStep(o, "unit_stop")
    BY DEF LookToStop
  <2> QED BY <1>1, <2>1, EndsCalmly, StepsCalmly, CalmSteps
<1> QED BY <1>1, <1>2, <1>3, <1>4, QuietMove

LEMMA LookToUninstallSafe ==
    ASSUME LifecycleInv, NEW o \in Operator, LookToUninstall(o)
    PROVE  LifecycleInv'
<1>1. commands[o] \in Commanded /\ commands[o] # NoCommand /\ commands[o].step \in Calm
  BY AtAStep DEF LookToUninstall, Calm
<1>2. UNCHANGED <<procs, state_file, tunnel_file, excused, issued, events>>
      /\ UnitTypes /\ unit \in Unit
  BY DEF LookToUninstall, LifecycleInv, LifecycleTypes, UnitTypes
<1>3. UnitTypes'
  BY <1>2 DEF LookToUninstall, UnitTypes
<1>4. CalmlyGoes(o)
  <2>1. CommandEnds(o) \/ CommandStep(o, "unit_stop")
    BY DEF LookToUninstall
  <2> QED BY <1>1, <2>1, EndsCalmly, StepsCalmly, CalmSteps
<1> QED BY <1>1, <1>2, <1>3, <1>4, QuietMove

LEMMA LookToInstallSafe ==
    ASSUME LifecycleInv, NEW o \in Operator, LookToInstall(o)
    PROVE  LifecycleInv'
<1>1. commands[o] \in Commanded /\ commands[o] # NoCommand /\ commands[o].step \in Calm
  BY AtAStep DEF LookToInstall, Calm
<1>2. UNCHANGED <<procs, state_file, tunnel_file, excused, issued, events>>
      /\ UnitTypes /\ unit \in Unit
  BY DEF LookToInstall, LifecycleInv, LifecycleTypes, UnitTypes
<1>3. UnitTypes'
  BY <1>2 DEF LookToInstall, UnitTypes
<1>4. CalmlyGoes(o)
  <2>1. \/ CommandEnds(o) \/ CommandStep(o, "stop") \/ CommandStep(o, "write_unit")
        \/ CommandGoes(o, [commands[o] EXCEPT !.supervised = TRUE, !.step = "write_unit"])
    BY Zenon DEF LookToInstall
  <2>2. TRUE \in BOOLEAN
    OBVIOUS
  <2> QED BY <1>1, <2>1, <2>2, EndsCalmly, StepsCalmly, SupervisedCalmly, CalmSteps
<1> QED BY <1>1, <1>2, <1>3, <1>4, QuietMove

LEMMA WriteUnitSafe ==
    ASSUME LifecycleInv, NEW o \in Operator, WriteUnit(o)
    PROVE  LifecycleInv'
<1>1. commands[o] \in Commanded /\ commands[o] # NoCommand /\ commands[o].step \in Calm
  BY AtAStep DEF WriteUnit, Calm
<1>2. UNCHANGED <<procs, state_file, tunnel_file, excused, issued, events>>
      /\ UnitTypes /\ unit \in Unit
  BY DEF WriteUnit, LifecycleInv, LifecycleTypes, UnitTypes
<1>3. UnitTypes'
  <2>1. CASE UNCHANGED unit
    BY <1>2, <2>1 DEF UnitTypes
  <2>2. CASE unit' = [unit EXCEPT !.owner = "own", !.tunnel = commands[o].tunnel # "no"]
    <3>1. PICK tunnel \in BOOLEAN : tunnel = (commands[o].tunnel # "no")
      OBVIOUS
    <3>2. unit' = [unit EXCEPT !.owner = "own", !.tunnel = tunnel]
      BY <2>2, <3>1
    <3>3. unit' \in Unit /\ unit'.main = unit.main
      BY <1>2, <3>2, UnitUpdates
    <3> QED BY <1>2, <3>3 DEF UnitTypes
  <2> QED BY <2>1, <2>2 DEF WriteUnit
<1>4. CalmlyGoes(o)
  <2>1. CommandEnds(o) \/ CommandStep(o, "unit_restart") \/ CommandStep(o, "unit_start")
    BY DEF WriteUnit
  <2> QED BY <1>1, <2>1, EndsCalmly, StepsCalmly, CalmSteps
<1> QED BY <1>1, <1>2, <1>3, <1>4, QuietMove

LEMMA RemoveUnitSafe ==
    ASSUME LifecycleInv, NEW o \in Operator, RemoveUnit(o)
    PROVE  LifecycleInv'
<1>1. commands[o] \in Commanded /\ commands[o] # NoCommand /\ commands[o].step \in Calm
  BY AtAStep DEF RemoveUnit, Calm
<1>2. UNCHANGED <<procs, state_file, tunnel_file, excused, issued, events>>
      /\ UnitTypes /\ unit \in Unit
  BY DEF RemoveUnit, LifecycleInv, LifecycleTypes, UnitTypes
<1>3. UnitTypes'
  BY <1>2, UnitUpdates DEF RemoveUnit, UnitTypes
<1>4. CalmlyGoes(o)
  BY EndsCalmly DEF RemoveUnit
<1> QED BY <1>1, <1>2, <1>3, <1>4, QuietMove

LEMMA InterruptCommandSafe ==
    ASSUME LifecycleInv, NEW o \in Operator, InterruptCommand(o)
    PROVE  LifecycleInv'
<1>1. commands' \in [Operator -> {NoCommand} \union Commanded]
  BY DEF InterruptCommand, CommandEnds, CommandGoes, LifecycleInv, LifecycleTypes
<1>2. events' \in 0..MaxEvents
  BY HappensTypes DEF InterruptCommand
<1>3. LifecycleTypes'
  BY <1>1, <1>2 DEF InterruptCommand, LifecycleInv, LifecycleTypes, ProcessTypes, UnitTypes
<1>4. excused'
  BY DEF InterruptCommand
<1> QED BY <1>3, <1>4 DEF LifecycleInv

-----------------------------------------------------------------------------
(* The theorems about the service commands                                 *)

LEMMA LifecycleInitSafe ==
    ASSUME LifecycleInit
    PROVE  LifecycleInv
<1>1. procs = <<>> /\ DOMAIN procs = {}
  BY DEF LifecycleInit
<1>2. UnitTypes
  <2>1. unit \in Unit /\ unit.main = NoPid
    BY DEF LifecycleInit, Unit
  <2> QED BY <2>1 DEF UnitTypes
<1>3. LifecycleTypes
  <2>1. 0 \in 0..MaxCommands /\ 0 \in 0..MaxEvents
    BY LifecycleAssumption
  <2>2. ProcessTypes
    BY <1>1 DEF ProcessTypes
  <2>3. commands \in [Operator -> {NoCommand} \union Commanded]
    BY DEF LifecycleInit
  <2> QED BY <1>2, <2>1, <2>2, <2>3 DEF LifecycleInit, LifecycleTypes
<1>4. Managed(procs, state_file)
  BY <1>1 DEF Managed, Ours
<1> QED BY <1>3, <1>4 DEF LifecycleInit, LifecycleInv

LEMMA LifecycleNextSafe ==
    ASSUME LifecycleInv, [LifecycleNext]_lifecycleVars
    PROVE  LifecycleInv'
<1>1. ASSUME NEW o \in Operator, Command(o) \/ CommandSteps(o) \/ InterruptCommand(o)
      PROVE  LifecycleInv'
  <2>1. CASE Command(o) \/ InterruptCommand(o)
    BY <2>1, CommandSafe, InterruptCommandSafe
  <2>2. CASE \/ LookDetached(o) \/ ClearState(o) \/ Spawn(o) \/ WriteState(o) \/ WaitForHealth(o)
             \/ GiveUp(o) \/ Unlink(o) \/ StopDetached(o) \/ AwaitEnd(o) \/ ClearManagedState(o)
    BY <2>2, LookDetachedSafe, ClearStateSafe, SpawnSafe, WriteStateSafe, WaitForHealthSafe,
       GiveUpSafe, UnlinkSafe, StopDetachedSafe, AwaitEndSafe, ClearManagedStateSafe
  <2>3. CASE \/ LookSupervised(o) \/ ConfigureTunnel(o) \/ UnitStart(o) \/ UnitStop(o)
             \/ UnitGone(o) \/ UnitWait(o) \/ LookToStop(o) \/ LookToInstall(o) \/ WriteUnit(o)
             \/ LookToUninstall(o) \/ RemoveUnit(o)
    BY <2>3, LookSupervisedSafe, ConfigureTunnelSafe, UnitStartSafe, UnitStopSafe, UnitGoneSafe,
       UnitWaitSafe, LookToStopSafe, LookToInstallSafe, WriteUnitSafe, LookToUninstallSafe,
       RemoveUnitSafe
  <2> QED BY <1>1, <2>1, <2>2, <2>3 DEF CommandSteps
<1>2. ASSUME NEW p \in DOMAIN procs, Runs(p) \/ Die(p)
      PROVE  LifecycleInv'
  BY <1>2, OpenTunnelSafe, BindSafe, EndingSafe DEF Runs
<1>3. CASE Stranger \/ UnitSpawn
  BY <1>3, StrangerSafe, UnitSpawnSafe
<1>4. CASE UNCHANGED lifecycleVars
  BY <1>4 DEF lifecycleVars, LifecycleInv, LifecycleTypes, ProcessTypes, UnitTypes
<1>5. \A p \in Pid : Runs(p) => p \in DOMAIN procs
  BY DEF Runs
<1> QED BY <1>1, <1>2, <1>3, <1>4, <1>5 DEF LifecycleNext

LEMMA LifecycleInvHolds == LifecycleSpec => []LifecycleInv
BY LifecycleInitSafe, LifecycleNextSafe, PTL DEF LifecycleSpec

\* The process table, the state files and the unit keep their types; the unit's main process
\* is always one that lives.
THEOREM LifecycleTypesHold == LifecycleSpec => []LifecycleTypeOK
<1>1. LifecycleInv => LifecycleTypeOK
  <2> SUFFICES ASSUME LifecycleInv PROVE LifecycleTypeOK
    OBVIOUS
  <2>1. \A o \in Operator : commands[o].name \in
            {"none", "start", "stop", "restart", "install", "uninstall"}
    <3>1. \A command \in Commanded : command.name \in
              {"none", "start", "stop", "restart", "install", "uninstall"}
      BY DEF Commanded
    <3>2. NoCommand.name = "none"
      BY DEF NoCommand
    <3> QED BY <3>1, <3>2 DEF LifecycleInv, LifecycleTypes
  <2> QED BY <2>1 DEF LifecycleInv, LifecycleTypes, ProcessTypes, UnitTypes, LifecycleTypeOK
<1> QED BY <1>1, LifecycleInvHolds, PTL

\* A server that `service start` left serving is the one that service.json names, whatever
\* processes, pids, strangers and units there are.
THEOREM StartedServersHold == LifecycleSpec => []StartedServersAreManaged
<1>1. LifecycleInv => StartedServersAreManaged
  BY DEF LifecycleInv, StartedServersAreManaged, Managed, Ours, Serving
<1> QED BY <1>1, LifecycleInvHolds, PTL

-----------------------------------------------------------------------------
(* Backups: the newest snapshot                                            *)
-----------------------------------------------------------------------------
(* The inductive invariant                                                 *)

StoreTypes == saved \in 0..MaxSaves /\ found \in [1..saved -> 1..saved]

\* Snapshots are named by seconds that have begun, and no two share an st_mtime.
FolderTypes ==
    /\ DOMAIN snapshots \subseteq 0..second /\ \A t \in DOMAIN snapshots : snapshots[t] \in File
    /\ writes \in Nat /\ mtime \in [DOMAIN snapshots -> 1..writes]
    /\ \A t, u \in DOMAIN snapshots : mtime[t] = mtime[u] => t = u

BackupTypes ==
    /\ StoreTypes /\ FolderTypes /\ second \in 0..MaxBackups /\ disturbed \in BOOLEAN
    /\ latest \in File /\ completed \in File
    /\ backups \in [Backup -> {NoBackup} \union BackingUp]

Kept(n) == Cardinality(DOMAIN snapshots) <= n
AllIdle == \A b \in Backup : backups[b] = NoBackup

FoundBy(runs) == {found[run] : run \in runs}

\* What a backup that runs alone has done by its next step: its evidence is what its
\* discoveries found and its runs are those of its discoveries, and the snapshot, which is the
\* newest, and then latest.xlsx hold its workbook.
Sound(backup) ==
    /\ backup.file.whole /\ backup.file.evidence \subseteq Evidence
    /\ backup.step # "relations" => backup.file.evidence = FoundBy(backup.file.discoveries)
    /\ backup.step \notin {"relations", "runs"} => backup.file.discoveries \subseteq backup.file.runs
Placed(backup) ==
    /\ backup.step \in {"write", "open_latest", "write_latest", "prune"} =>
          /\ backup.stamp \in DOMAIN snapshots
          /\ \A t \in DOMAIN snapshots : mtime[t] <= mtime[backup.stamp]
    /\ backup.step \in {"open_latest", "write_latest", "prune"} =>
          snapshots[backup.stamp] = backup.file
    /\ backup.step = "prune" => latest = backup.file

BackupsInv ==
    /\ BackupTypes
    /\ ~disturbed =>
          /\ \A b, c \in Backup : backups[b] # NoBackup /\ backups[c] # NoBackup => b = c
          /\ AllIdle => Kept(RetentionCount)
          /\ \A b \in Backup : backups[b] # NoBackup => Sound(backups[b]) /\ Placed(backups[b])
          /\ completed.whole /\ AllIdle =>
                /\ latest = completed
                /\ \E t \in DOMAIN snapshots : snapshots[t] = completed
                /\ latest.discoveries \subseteq latest.runs
                /\ latest.evidence = FoundBy(latest.discoveries)

USE BackupsAssumption

-----------------------------------------------------------------------------
(* What the steps are made of                                              *)

LEMMA IdleIsNotBackingUp == NoBackup.step = "idle" /\ NoBackup \notin BackingUp
<1>1. NoBackup.step = "idle"
  BY DEF NoBackup
<1>2. \A backup \in BackingUp : backup.step # "idle"
  BY DEF BackingUp
<1> QED BY <1>1, <1>2

LEMMA BackupRuns ==
    ASSUME BackupsInv, NEW b \in Backup, backups[b].step # "idle"
    PROVE  backups[b] \in BackingUp /\ backups[b] # NoBackup
BY IdleIsNotBackingUp DEF BackupsInv, BackupTypes

LEMMA SnapshotsAreFinite ==
    ASSUME BackupTypes
    PROVE  IsFiniteSet(DOMAIN snapshots) /\ Cardinality(DOMAIN snapshots) \in Nat
<1>1. second \in Nat
  BY DEF BackupTypes
<1>2. IsFiniteSet(0..second)
  BY <1>1, FS_Interval
<1>3. IsFiniteSet(DOMAIN snapshots)
  BY <1>2, FS_Subset DEF BackupTypes, FolderTypes
<1> QED BY <1>3, FS_CardinalityType

\* A backup that goes on: its record, and the records of the others.
LEMMA BackupGoesOn ==
    ASSUME BackupTypes, NEW b \in Backup, backups[b] \in BackingUp, NEW file \in File,
           NEW step \in {"runs", "open", "write", "open_latest", "write_latest", "prune"},
           BackupGoes(b, step, file), UNCHANGED <<saved, second>>
    PROVE  /\ backups' \in [Backup -> {NoBackup} \union BackingUp']
           /\ backups'[b] # NoBackup
           /\ backups'[b].step = step /\ backups'[b].file = file
           /\ backups'[b].stamp = backups[b].stamp
           /\ \A c \in Backup : c # b => backups'[c] = backups[c]
<1> DEFINE new == [backups[b] EXCEPT !.step = step, !.file = file]
<1>1. new \in BackingUp /\ new.step = step /\ new.file = file /\ new.stamp = backups[b].stamp
  BY DEF BackingUp
<1>2. backups' = [backups EXCEPT ![b] = new]
  BY DEF BackupGoes, BackupTypes
<1>3. BackingUp' = BackingUp
  BY DEF BackingUp, File
<1> HIDE DEF new
<1> QED BY <1>1, <1>2, <1>3, IdleIsNotBackingUp DEF BackupTypes

\* It keeps the invariant when what it has read and written is sound.
LEMMA StepSafe ==
    ASSUME BackupsInv, NEW b \in Backup, backups[b] \in BackingUp, NEW file \in File,
           NEW step \in {"runs", "open", "write", "open_latest", "write_latest", "prune"},
           BackupGoes(b, step, file),
           UNCHANGED <<storeVars, second, completed, disturbed>>, FolderTypes', latest' \in File,
           ~disturbed => Sound(backups'[b]) /\ Placed(backups[b])'
    PROVE  BackupsInv'
<1>1. /\ backups' \in [Backup -> {NoBackup} \union BackingUp']
      /\ backups'[b] # NoBackup
      /\ \A c \in Backup : c # b => backups'[c] = backups[c]
  BY BackupGoesOn DEF BackupsInv, storeVars
<1>2. File' = File
  BY DEF File, storeVars
<1>3. BackupTypes'
  BY <1>1, <1>2 DEF BackupsInv, BackupTypes, StoreTypes, storeVars
<1>4. ASSUME ~disturbed'
      PROVE  \A c \in Backup : c # b => backups'[c] = NoBackup
  <2>1. backups[b] # NoBackup
    BY IdleIsNotBackingUp
  <2> QED BY <1>1, <1>4, <2>1 DEF BackupsInv
<1>5. ~AllIdle'
  BY <1>1 DEF AllIdle
<1>6. ASSUME ~disturbed', NEW c \in Backup, backups'[c] # NoBackup
      PROVE  Sound(backups[c])' /\ Placed(backups[c])'
  <2>1. c = b /\ ~disturbed
    BY <1>4, <1>6
  <2> QED BY <2>1 DEF Sound, FoundBy, Evidence, storeVars
<1> QED BY <1>3, <1>4, <1>5, <1>6 DEF BackupsInv

-----------------------------------------------------------------------------
(* The steps of a backup                                                   *)

\* Its evidence is the evidence of the store, and nobody else runs.
LEMMA StartBackupSafe ==
    ASSUME BackupsInv, NEW b \in Backup, StartBackup(b)
    PROVE  BackupsInv'
<1> DEFINE file == [Partial EXCEPT !.whole = TRUE, !.evidence = Evidence]
           new == [step |-> "relations", stamp |-> second, file |-> file]
<1>1. /\ backups' = [backups EXCEPT ![b] = new]
      /\ disturbed' = (\E c \in Backup : backups[c] # NoBackup)
      /\ UNCHANGED <<saved, found, snapshots, mtime, writes, latest, second, completed>>
  BY DEF StartBackup, storeVars, folderVars
<1>2. file \in File /\ file.whole = TRUE /\ file.evidence = Evidence
  <2>1. Evidence \subseteq 1..saved
    BY DEF Evidence, BackupsInv, BackupTypes, StoreTypes
  <2>2. PICK all \in SUBSET (1..saved) : all = Evidence
    BY <2>1
  <2>3. [Partial EXCEPT !.whole = TRUE, !.evidence = all] \in File
    BY DEF Partial, File
  <2>4. file.whole = TRUE /\ file.evidence = Evidence
    BY DEF Partial
  <2> QED BY <2>2, <2>3, <2>4
<1>3. new \in BackingUp /\ new.step = "relations" /\ new.stamp = second /\ new.file = file
  BY <1>2 DEF BackingUp, BackupsInv, BackupTypes
<1> HIDE DEF new, file
<1>4. /\ \A c \in Backup : backups'[c] = IF c = b THEN new ELSE backups[c]
      /\ backups' \in [Backup -> {NoBackup} \union BackingUp]
  BY <1>1, <1>3 DEF BackupsInv, BackupTypes
<1>5. File' = File /\ BackingUp' = BackingUp
  BY <1>1 DEF File, BackingUp
<1>6. disturbed' \in BOOLEAN
  BY <1>1
<1>7. BackupTypes'
  <2>1. StoreTypes' /\ FolderTypes'
    BY <1>1, <1>5 DEF BackupsInv, BackupTypes, StoreTypes, FolderTypes
  <2> QED BY <1>1, <1>4, <1>5, <1>6, <2>1 DEF BackupsInv, BackupTypes
<1>8. ~AllIdle'
  BY <1>3, <1>4, IdleIsNotBackingUp DEF AllIdle
<1>9. ASSUME ~disturbed'
      PROVE  /\ \A c \in Backup : c # b => backups'[c] = NoBackup
             /\ Sound(backups[b])' /\ Placed(backups[b])'
  <2>1. \A c \in Backup : c # b => backups'[c] = NoBackup
    BY <1>1, <1>4, <1>9
  <2>2. Sound(backups[b])'
    BY <1>1, <1>2, <1>3, <1>4 DEF Sound, Evidence
  <2>3. Placed(backups[b])'
    BY <1>3, <1>4 DEF Placed
  <2> QED BY <2>1, <2>2, <2>3
<1> QED BY <1>7, <1>8, <1>9 DEF BackupsInv

\* The reads touch no file.
LEMMA ReadSafe ==
    ASSUME BackupsInv, NEW b \in Backup, backups[b] \in BackingUp,
           ReadRelations(b) \/ ReadRuns(b)
    PROVE  BackupsInv'
<1> DEFINE old == backups[b].file
<1>1. old \in File /\ old.evidence \subseteq 1..saved /\ backups[b] # NoBackup
  BY IdleIsNotBackingUp DEF BackingUp, File
<1>2. UNCHANGED <<saved, found, storeVars, snapshots, mtime, writes, latest, second, completed,
                  disturbed>>
  BY DEF ReadRelations, ReadRuns, storeVars, folderVars
<1>3. ASSUME NEW file \in File, NEW step \in {"runs", "open"}, BackupGoes(b, step, file),
             backups[b].step \in {"relations", "runs"},
             ~disturbed /\ Sound(backups[b]) =>
                /\ file.whole /\ file.evidence \subseteq Evidence
                /\ file.evidence = FoundBy(file.discoveries)
                /\ step = "open" => file.discoveries \subseteq file.runs
      PROVE  BackupsInv'
  <2>1. /\ backups'[b].step = step /\ backups'[b].file = file
        /\ backups'[b].stamp = backups[b].stamp
    BY <1>2, <1>3, BackupGoesOn DEF BackupsInv
  <2>2. ASSUME ~disturbed PROVE Sound(backups'[b]) /\ Placed(backups[b])'
    <3>1. Sound(backups[b]) /\ Placed(backups[b])
      BY <1>1, <2>2 DEF BackupsInv
    <3>2. Sound(backups'[b])
      BY <1>3, <2>1, <2>2, <3>1 DEF Sound
    <3>3. Placed(backups[b])'
      BY <1>2, <1>3, <2>1, <3>1 DEF Placed
    <3> QED BY <3>2, <3>3
  <2>3. FolderTypes' /\ latest' \in File
    BY <1>2 DEF BackupsInv, BackupTypes, FolderTypes, File
  <2> QED BY <1>2, <1>3, <2>2, <2>3, StepSafe
<1>4. CASE ReadRelations(b)
  <2> DEFINE file == [old EXCEPT !.discoveries = {run \in 1..saved : found[run] \in old.evidence}]
  <2>1. /\ file \in File /\ file.whole = old.whole /\ file.evidence = old.evidence
        /\ file.discoveries = {run \in 1..saved : found[run] \in old.evidence}
    BY <1>1 DEF File
  <2>2. BackupGoes(b, "runs", file) /\ backups[b].step = "relations"
    BY <1>4 DEF ReadRelations, AtBackupStep
  <2>3. ASSUME old.evidence \subseteq Evidence
        PROVE  old.evidence = FoundBy({run \in 1..saved : found[run] \in old.evidence})
    BY <2>3 DEF Evidence, FoundBy
  <2>4. Sound(backups[b]) => old.whole /\ old.evidence \subseteq Evidence
    BY DEF Sound
  <2> HIDE DEF file, old
  <2> QED BY <1>3, <2>1, <2>2, <2>3, <2>4
<1>5. CASE ReadRuns(b)
  <2> DEFINE file == [old EXCEPT !.runs = 1..saved]
  <2>1. /\ file \in File /\ file.whole = old.whole /\ file.discoveries = old.discoveries
        /\ file.evidence = old.evidence /\ file.runs = 1..saved
        /\ file.discoveries \subseteq file.runs
    BY <1>1 DEF File
  <2>2. BackupGoes(b, "open", file) /\ backups[b].step = "runs"
    BY <1>5 DEF ReadRuns, AtBackupStep
  <2>3. Sound(backups[b]) => /\ old.whole /\ old.evidence \subseteq Evidence
                             /\ old.evidence = FoundBy(old.discoveries)
    BY <2>2 DEF Sound
  <2> HIDE DEF file, old
  <2> QED BY <1>3, <2>1, <2>2, <2>3
<1> QED BY <1>4, <1>5

\* The snapshot that is truncated or written becomes the newest.
LEMMA SnapshotSafe ==
    ASSUME BackupsInv, NEW b \in Backup, backups[b] \in BackingUp,
           OpenSnapshot(b) \/ WriteSnapshot(b)
    PROVE  BackupsInv'
<1> DEFINE file == backups[b].file
           stamp == backups[b].stamp
<1>1. file \in File /\ stamp \in 0..second /\ backups[b] # NoBackup
  BY IdleIsNotBackingUp DEF BackingUp
<1>2. Partial \in File
  BY DEF Partial, File
<1>3. PICK content \in File, step \in {"write", "open_latest"} :
          /\ Written(stamp, content) /\ BackupGoes(b, step, file)
          /\ step = "open_latest" => content = file
          /\ step = "write" => backups[b].step = "open"
          /\ step = "open_latest" => backups[b].step = "write"
  BY <1>1, <1>2 DEF OpenSnapshot, WriteSnapshot, AtBackupStep
<1>4. UNCHANGED <<saved, storeVars, latest, second, completed, disturbed>>
  BY DEF OpenSnapshot, WriteSnapshot, storeVars
<1> HIDE DEF file, stamp
<1>5. /\ backups'[b].step = step /\ backups'[b].file = file
      /\ backups'[b].stamp = stamp
  BY <1>1, <1>3, <1>4, BackupGoesOn DEF BackupsInv, stamp
<1>6. /\ DOMAIN snapshots' = DOMAIN snapshots \union {stamp}
      /\ snapshots'[stamp] = content
      /\ \A t \in DOMAIN snapshots : t # stamp => snapshots'[t] = snapshots[t]
  BY <1>3 DEF Written
<1>7. /\ mtime' = [u \in DOMAIN snapshots \union {stamp} |-> IF u = stamp THEN writes + 1
                                                            ELSE mtime[u]]
      /\ writes' = writes + 1
  BY <1>3 DEF Written
<1>8. /\ writes \in Nat /\ DOMAIN snapshots \subseteq 0..second
      /\ \A t \in DOMAIN snapshots : mtime[t] \in 1..writes
      /\ \A t, u \in DOMAIN snapshots : mtime[t] = mtime[u] => t = u
  BY DEF BackupsInv, BackupTypes, FolderTypes
<1>9. /\ mtime'[stamp] = writes + 1
      /\ \A t \in DOMAIN snapshots : t # stamp => mtime'[t] = mtime[t]
  BY <1>7
<1>10. FolderTypes'
  <2>1. \A t \in DOMAIN snapshots' : mtime'[t] \in 1..writes'
    BY <1>6, <1>7, <1>8, <1>9
  <2>2. mtime' \in [DOMAIN snapshots' -> 1..writes']
    BY <1>6, <1>7, <2>1
  <2>3. \A t, u \in DOMAIN snapshots' : mtime'[t] = mtime'[u] => t = u
    <3>1. \A t \in DOMAIN snapshots : t # stamp => mtime'[t] # mtime'[stamp]
      BY <1>8, <1>9
    <3> QED BY <1>6, <1>8, <1>9, <3>1
  <2>4. \A t \in DOMAIN snapshots' : snapshots'[t] \in File'
    BY <1>4, <1>6 DEF BackupsInv, BackupTypes, FolderTypes, File
  <2> QED BY <1>1, <1>4, <1>6, <1>7, <1>8, <2>2, <2>3, <2>4 DEF FolderTypes
<1>11. ASSUME ~disturbed
       PROVE  Sound(backups'[b]) /\ Placed(backups[b])'
  <2>1. Sound(backups[b]) /\ Placed(backups[b])
    BY <1>1, <1>11 DEF BackupsInv
  <2>2. Sound(backups'[b])
    BY <1>3, <1>5, <2>1 DEF Sound, file
  <2>3. \A t \in DOMAIN snapshots' : mtime'[t] <= mtime'[stamp]
    BY <1>6, <1>8, <1>9
  <2>4. Placed(backups[b])'
    BY <1>3, <1>5, <1>6, <2>3 DEF Placed
  <2> QED BY <2>2, <2>4
<1>12. latest' \in File
  BY <1>4 DEF BackupsInv, BackupTypes
<1> QED BY <1>1, <1>3, <1>4, <1>10, <1>11, <1>12, StepSafe

\* latest.xlsx is truncated, and then holds what the snapshot holds.
LEMMA LatestSafe ==
    ASSUME BackupsInv, NEW b \in Backup, backups[b] \in BackingUp,
           OpenLatest(b) \/ WriteLatest(b)
    PROVE  BackupsInv'
<1> DEFINE file == backups[b].file
           stamp == backups[b].stamp
<1>1. file \in File /\ stamp \in 0..second /\ backups[b] # NoBackup
  BY IdleIsNotBackingUp DEF BackingUp
<1>2. Partial \in File
  BY DEF Partial, File
<1>3. PICK step \in {"write_latest", "prune"} :
          /\ BackupGoes(b, step, file)
          /\ backups[b].step \in {"open_latest", "write_latest"}
          /\ latest' \in {Partial} \union {snapshots[t] : t \in DOMAIN snapshots}
          /\ step = "prune" /\ stamp \in DOMAIN snapshots => latest' = snapshots[stamp]
  BY DEF OpenLatest, WriteLatest, AtBackupStep
<1>4. UNCHANGED <<saved, storeVars, snapshots, mtime, writes, second, completed, disturbed>>
  BY DEF OpenLatest, WriteLatest, storeVars, folderVars
<1>5. latest' \in File
  BY <1>2, <1>3 DEF BackupsInv, BackupTypes, FolderTypes
<1> HIDE DEF file, stamp
<1>6. /\ backups'[b].step = step /\ backups'[b].file = file
      /\ backups'[b].stamp = stamp
  BY <1>1, <1>3, <1>4, BackupGoesOn DEF BackupsInv, stamp
<1>7. ASSUME ~disturbed
      PROVE  Sound(backups'[b]) /\ Placed(backups[b])'
  <2>1. Sound(backups[b]) /\ Placed(backups[b])
    BY <1>1, <1>7 DEF BackupsInv
  <2>2. Sound(backups'[b])
    BY <1>3, <1>6, <2>1 DEF Sound, file
  <2>3. stamp \in DOMAIN snapshots /\ snapshots[stamp] = file
    BY <1>3, <2>1 DEF Placed, stamp, file
  <2>4. Placed(backups[b])'
    BY <1>3, <1>4, <1>6, <2>1, <2>3 DEF Placed, stamp
  <2> QED BY <2>2, <2>4
<1>8. FolderTypes'
  BY <1>4 DEF BackupsInv, BackupTypes, FolderTypes, File
<1> QED BY <1>1, <1>3, <1>4, <1>5, <1>7, <1>8, StepSafe

\* Pruning keeps at most RetentionCount snapshots: the oldest that stays has all the others
\* that stay above it, and fewer than RetentionCount are.
LEMMA FewStay ==
    ASSUME BackupTypes
    PROVE  Cardinality(DOMAIN snapshots \ Stale) <= RetentionCount
<1> DEFINE stay == DOMAIN snapshots \ Stale
           times == {mtime[t] : t \in stay}
<1>1. /\ IsFiniteSet(DOMAIN snapshots) /\ \A t \in DOMAIN snapshots : mtime[t] \in Nat
      /\ \A t, u \in DOMAIN snapshots : mtime[t] = mtime[u] => t = u
  BY SnapshotsAreFinite DEF BackupTypes, FolderTypes
<1>2. IsFiniteSet(stay) /\ stay \subseteq DOMAIN snapshots /\ Cardinality(stay) \in Nat
  BY <1>1, FS_Subset, FS_CardinalityType
<1>3. CASE stay = {}
  BY <1>3, FS_EmptySet
<1>4. CASE stay # {}
  <2>1. PICK m \in stay : \A n \in stay : mtime[m] <= mtime[n]
    <3>1. times \subseteq Nat /\ times # {}
      BY <1>1, <1>4
    <3>2. PICK least \in times : \A time \in times : least <= time
      <4> HIDE DEF times
      <4> QED BY <3>1, LeastElement
    <3> QED BY <3>2
  <2>2. IsFiniteSet(Newer(m)) /\ Cardinality(Newer(m)) \in Nat
    BY <1>1, FS_Subset, FS_CardinalityType DEF Newer
  <2>3. Cardinality(Newer(m)) < RetentionCount
    <3>1. ~(Cardinality(Newer(m)) >= RetentionCount)
      BY <2>1 DEF Stale
    <3> QED BY <2>2, <3>1
  <2>4. stay \ {m} \subseteq Newer(m)
    <3>1. \A n \in stay : n # m => mtime[n] > mtime[m]
      <4> HIDE DEF stay
      <4> QED BY <1>1, <1>2, <2>1
    <3> QED BY <1>2, <3>1 DEF Newer
  <2>5. Cardinality(stay \ {m}) = Cardinality(stay) - 1
    <3> HIDE DEF stay
    <3> QED BY <1>2, <2>1, FS_RemoveElement
  <2>6. Cardinality(stay \ {m}) <= Cardinality(Newer(m))
    <3> HIDE DEF stay
    <3> QED BY <2>2, <2>4, FS_Subset
  <2>7. Cardinality(stay) <= RetentionCount
    <3> HIDE DEF stay
    <3> QED BY <1>2, <2>2, <2>3, <2>5, <2>6
  <2> QED BY <1>2, <2>7
<1> QED BY <1>3, <1>4

\* The newest snapshot has none above it, and stays.
LEMMA NewestStays ==
    ASSUME NEW t \in DOMAIN snapshots, FolderTypes,
           \A u \in DOMAIN snapshots : mtime[u] <= mtime[t]
    PROVE  t \in DOMAIN snapshots \ Stale
<1>1. Newer(t) = {}
  BY DEF Newer, FolderTypes
<1>2. Cardinality(Newer(t)) = 0
  BY <1>1, FS_EmptySet
<1> QED BY <1>2 DEF Stale

LEMMA PruneSafe ==
    ASSUME BackupsInv, NEW b \in Backup, backups[b] \in BackingUp, Prune(b)
    PROVE  BackupsInv'
<1> DEFINE file == backups[b].file
           stamp == backups[b].stamp
<1>1. /\ backups[b].step = "prune" /\ backups[b] # NoBackup
      /\ file \in File /\ stamp \in 0..second
  BY IdleIsNotBackingUp DEF BackingUp, Prune, AtBackupStep
<1>2. /\ snapshots' = [t \in DOMAIN snapshots \ Stale |-> snapshots[t]]
      /\ mtime' = [t \in DOMAIN snapshots \ Stale |-> mtime[t]]
      /\ backups' = [backups EXCEPT ![b] = NoBackup]
      /\ completed' = file
      /\ UNCHANGED <<saved, found, writes, latest, second, disturbed>>
  BY DEF Prune, storeVars
<1>3. /\ \A c \in Backup : backups'[c] = IF c = b THEN NoBackup ELSE backups[c]
      /\ backups' \in [Backup -> {NoBackup} \union BackingUp]
  BY <1>2 DEF BackupsInv, BackupTypes
<1>4. File' = File /\ BackingUp' = BackingUp
  BY <1>2 DEF File, BackingUp
<1> HIDE DEF file, stamp
<1>5. BackupTypes'
  <2>1. StoreTypes' /\ FolderTypes'
    BY <1>2, <1>4 DEF BackupsInv, BackupTypes, StoreTypes, FolderTypes
  <2> QED BY <1>1, <1>2, <1>3, <1>4, <2>1 DEF BackupsInv, BackupTypes
<1>6. Kept(RetentionCount)'
  BY <1>2, FewStay DEF Kept, BackupsInv
<1>7. ASSUME ~disturbed'
      PROVE  /\ AllIdle'
             /\ latest' = completed'
             /\ \E t \in DOMAIN snapshots' : snapshots'[t] = completed'
             /\ latest'.discoveries \subseteq latest'.runs
             /\ latest'.evidence = FoundBy(latest'.discoveries)
  <2>1. Sound(backups[b]) /\ Placed(backups[b])
    BY <1>1, <1>2, <1>7 DEF BackupsInv
  <2>2. AllIdle'
    BY <1>1, <1>2, <1>3, <1>7 DEF AllIdle, BackupsInv
  <2>3. /\ latest = file /\ stamp \in DOMAIN snapshots /\ snapshots[stamp] = file
        /\ \A t \in DOMAIN snapshots : mtime[t] <= mtime[stamp]
    BY <1>1, <2>1 DEF Placed, file, stamp
  <2>4. stamp \in DOMAIN snapshots \ Stale
    BY <2>3, NewestStays DEF BackupsInv, BackupTypes
  <2>5. stamp \in DOMAIN snapshots' /\ snapshots'[stamp] = completed'
    BY <1>2, <2>3, <2>4
  <2>6. file.discoveries \subseteq file.runs /\ file.evidence = FoundBy(file.discoveries)
    BY <1>1, <2>1 DEF Sound, file
  <2> QED BY <1>2, <2>2, <2>3, <2>5, <2>6
<1>8. ~disturbed' => \A c \in Backup : backups'[c] = NoBackup
  BY <1>7 DEF AllIdle
<1> QED BY <1>2, <1>5, <1>6, <1>7, <1>8 DEF BackupsInv, FoundBy

-----------------------------------------------------------------------------
(* The other steps                                                         *)

LEMMA InterruptSafe ==
    ASSUME BackupsInv, NEW b \in Backup, InterruptBackup(b)
    PROVE  BackupsInv'
<1>1. /\ backups' \in [Backup -> {NoBackup} \union BackingUp] /\ disturbed' = TRUE
      /\ UNCHANGED <<saved, found, snapshots, mtime, writes, latest, second, completed>>
  BY DEF InterruptBackup, BackupsInv, BackupTypes, storeVars, folderVars
<1>2. File' = File /\ BackingUp' = BackingUp
  BY <1>1 DEF File, BackingUp
<1>3. StoreTypes' /\ FolderTypes'
  BY <1>1, <1>2 DEF BackupsInv, BackupTypes, StoreTypes, FolderTypes
<1> QED BY <1>1, <1>2, <1>3 DEF BackupsInv, BackupTypes

\* Searches and seconds only widen the types; what was found stays found.
LEMMA GrowthSafe ==
    ASSUME BackupsInv, SaveDiscovery \/ NextSecond
    PROVE  BackupsInv'
<1>1. /\ saved \in Nat /\ second \in Nat /\ saved' \in 0..MaxSaves /\ second' \in 0..MaxBackups
      /\ saved <= saved' /\ second <= second'
      /\ UNCHANGED <<snapshots, mtime, writes, latest, backups, completed, disturbed>>
  BY DEF SaveDiscovery, NextSecond, BackupsInv, BackupTypes, StoreTypes, storeVars, folderVars
<1>2. 1..saved \subseteq 1..saved' /\ 0..second \subseteq 0..second'
  BY <1>1
<1>3. StoreTypes' /\ \A run \in 1..saved : found'[run] = found[run]
  <2>1. CASE SaveDiscovery
    <3>1. PICK evidence \in Evidence \union {saved + 1} :
             /\ found' = [run \in 1..saved + 1 |-> IF run <= saved THEN found[run] ELSE evidence]
             /\ saved' = saved + 1
      BY <2>1 DEF SaveDiscovery
    <3>2. found \in [1..saved -> 1..saved] /\ evidence \in 1..saved + 1
      BY <1>1 DEF Evidence, BackupsInv, BackupTypes, StoreTypes
    <3>3. ASSUME NEW run \in 1..saved + 1 PROVE found'[run] \in 1..saved + 1
      <4>1. found'[run] = IF run <= saved THEN found[run] ELSE evidence
        BY <3>1
      <4>2. CASE run <= saved
        <5>1. run \in 1..saved
          BY <1>1, <4>2
        <5>2. found[run] \in 1..saved
          BY <3>2, <5>1
        <5> QED BY <1>1, <4>1, <4>2, <5>2
      <4>3. CASE ~(run <= saved)
        BY <3>2, <4>1, <4>3
      <4> QED BY <4>2, <4>3
    <3> QED BY <1>1, <3>1, <3>2, <3>3 DEF StoreTypes
  <2>2. CASE NextSecond
    BY <2>2 DEF NextSecond, storeVars, BackupsInv, BackupTypes, StoreTypes
  <2> QED BY <2>1, <2>2
<1>4. File \subseteq File'
  BY <1>2 DEF File
<1>5. BackingUp \subseteq BackingUp'
  BY <1>2, <1>4 DEF BackingUp
<1>6. BackupTypes'
  <2>1. FolderTypes'
    BY <1>1, <1>2, <1>4 DEF BackupsInv, BackupTypes, FolderTypes
  <2> QED BY <1>1, <1>3, <1>4, <1>5, <2>1 DEF BackupsInv, BackupTypes
<1>7. /\ AllIdle' = AllIdle /\ \A n : Kept(n)' = Kept(n)
      /\ \A b : Placed(backups[b])' = Placed(backups[b])
  BY <1>1 DEF AllIdle, Kept, Placed
<1>8. /\ Evidence \subseteq Evidence'
      /\ \A runs \in SUBSET (1..saved) : FoundBy(runs)' = FoundBy(runs)
  BY <1>2, <1>3 DEF Evidence, FoundBy
<1>9. ASSUME NEW b \in Backup, backups[b] # NoBackup, Sound(backups[b])
      PROVE  Sound(backups[b])'
  <2>1. backups[b].file.discoveries \in SUBSET (1..saved)
    BY <1>9 DEF BackupsInv, BackupTypes, BackingUp, File
  <2> QED BY <1>1, <1>8, <1>9, <2>1 DEF Sound
<1>10. latest.discoveries \in SUBSET (1..saved)
  BY DEF BackupsInv, BackupTypes, File
<1> QED BY <1>1, <1>6, <1>7, <1>8, <1>9, <1>10 DEF BackupsInv

-----------------------------------------------------------------------------
(* The theorems                                                            *)

LEMMA BackupsInitSafe == BackupsInit => BackupsInv
<1> SUFFICES ASSUME BackupsInit PROVE BackupsInv
  OBVIOUS
<1>1. Partial \in File /\ Partial.whole = FALSE
  BY DEF Partial, File
<1>2. DOMAIN snapshots = {} /\ completed = Partial /\ latest = Partial
  BY DEF BackupsInit
<1>3. BackupTypes
  <2>1. saved = 0 /\ second \in 0..MaxBackups
    BY DEF BackupsInit
  <2>2. backups \in [Backup -> {NoBackup} \union BackingUp]
    BY DEF BackupsInit
  <2>3. disturbed \in BOOLEAN
    BY Zenon DEF BackupsInit
  <2>4. StoreTypes
    <3>1. 1..saved = {} /\ DOMAIN found = {} /\ found = [run \in {} |-> 0]
      BY <2>1 DEF BackupsInit
    <3> QED BY <2>1, <3>1 DEF StoreTypes
  <2>5. FolderTypes
    <3>1. writes = 0 /\ mtime = [t \in {} |-> 0] /\ DOMAIN mtime = {}
      BY DEF BackupsInit
    <3> QED BY <1>2, <3>1 DEF FolderTypes
  <2> QED BY <1>1, <1>2, <2>1, <2>2, <2>3, <2>4, <2>5 DEF BackupTypes
<1>4. Kept(RetentionCount)
  BY <1>2, FS_EmptySet DEF Kept
<1>5. AllIdle
  BY DEF BackupsInit, AllIdle
<1> QED BY <1>1, <1>2, <1>3, <1>4, <1>5 DEF BackupsInv, AllIdle

LEMMA BackupsStepSafe == BackupsInv /\ [BackupsNext]_backupsVars => BackupsInv'
<1> SUFFICES ASSUME BackupsInv, [BackupsNext]_backupsVars PROVE BackupsInv'
  OBVIOUS
<1>1. ASSUME NEW b \in Backup,
             ReadRelations(b) \/ ReadRuns(b) \/ OpenSnapshot(b) \/ WriteSnapshot(b)
             \/ OpenLatest(b) \/ WriteLatest(b) \/ Prune(b)
      PROVE  BackupsInv'
  <2>1. backups[b].step # "idle"
    BY <1>1 DEF ReadRelations, ReadRuns, OpenSnapshot, WriteSnapshot, OpenLatest, WriteLatest,
                Prune, AtBackupStep
  <2>2. backups[b] \in BackingUp
    BY <2>1, BackupRuns
  <2> QED BY <1>1, <2>2, ReadSafe, SnapshotSafe, LatestSafe, PruneSafe
<1>2. ASSUME NEW b \in Backup, StartBackup(b) \/ InterruptBackup(b) PROVE BackupsInv'
  BY <1>2, StartBackupSafe, InterruptSafe
<1>3. CASE SaveDiscovery \/ NextSecond
  BY <1>3, GrowthSafe
<1>4. CASE UNCHANGED backupsVars
  <2>1. File' = File /\ BackingUp' = BackingUp
    BY <1>4 DEF backupsVars, storeVars, File, BackingUp
  <2>2. UNCHANGED <<saved, found, snapshots, mtime, writes, latest, backups, second, completed,
                    disturbed>>
    BY <1>4 DEF backupsVars, storeVars, folderVars
  <2>3. /\ AllIdle' = AllIdle /\ \A n : Kept(n)' = Kept(n)
        /\ \A b : Placed(backups[b])' = Placed(backups[b]) /\ Sound(backups[b])' = Sound(backups[b])
        /\ \A runs : FoundBy(runs)' = FoundBy(runs)
    BY <2>2 DEF AllIdle, Kept, Placed, Sound, FoundBy, Evidence
  <2>4. BackupTypes'
    BY <2>1, <2>2 DEF BackupsInv, BackupTypes, StoreTypes, FolderTypes
  <2> QED BY <2>2, <2>3, <2>4 DEF BackupsInv
<1> QED BY <1>1, <1>2, <1>3, <1>4 DEF BackupsNext

\* Every state of the backups is one that the invariant describes.
THEOREM BackupsInvHolds == BackupsSpec => []BackupsInv
BY BackupsInitSafe, BackupsStepSafe, PTL DEF BackupsSpec

\* The types, and the bound of retention: at most RetentionCount snapshots once a backup has run
\* alone to its end.
THEOREM BackupsTypesHold == BackupsSpec => []BackupsTypeOK
<1>1. BackupsInv => BackupsTypeOK
  <2> SUFFICES ASSUME BackupsInv PROVE BackupsTypeOK
    OBVIOUS
  <2>1. ~disturbed /\ AllIdle => Cardinality(DOMAIN snapshots) <= RetentionCount
    BY DEF BackupsInv, Kept
  <2> QED BY <2>1 DEF BackupsInv, BackupTypes, StoreTypes, FolderTypes, BackupsTypeOK, AllIdle
<1> QED BY <1>1, BackupsInvHolds, PTL

\* After a backup that ran alone to its end, latest.xlsx is the newest completed snapshot, which
\* survived the pruning; its discoveries name runs that are in it, and found its evidence.
THEOREM LatestHolds == BackupsSpec => []LatestIsNewestSnapshot
<1>1. BackupsInv => LatestIsNewestSnapshot
  BY DEF BackupsInv, LatestIsNewestSnapshot, NoBackupRuns, AllIdle, FoundBy
<1> QED BY <1>1, BackupsInvHolds, PTL

-----------------------------------------------------------------------------
(* Storage: the configured database                                        *)

\* What each step of a command relies on until it puts the configuration in place: its source
\* holds every search, so does the target that it is done with, and the root of the text that
\* it is about to rewrite.
Complete(r) == SearchesAt(r) = 1..searches
RewriteIsSafe(rw) ==
    /\ Complete(rw.source)
    /\ rw.step \in {"read", "replace"} => Complete(rw.target)
    /\ rw.step = "replace" => Complete(rw.text.root)

StorageInv ==
    /\ StorageTypeOK
    /\ gateway # NoGateway => gateway[1] \in DOMAIN stores
    /\ ~apart /\ ~adopted =>
          /\ Complete(config.root)
          /\ \A w \in Rewriter : rewrites[w] # NotRunning => RewriteIsSafe(rewrites[w])

USE StorageAssumption

\* An idle command is none of the running ones, and the steps are told apart by their names.
LEMMA RunningRewrite ==
    ASSUME StorageTypeOK, NEW w \in Rewriter, rewrites[w] # NotRunning
    PROVE  rewrites[w] \in Rewriting
BY DEF StorageTypeOK

LEMMA IdleIsNoStep ==
    /\ NotRunning.step = "idle"
    /\ NotRunning \notin Rewriting
<1>1. NotRunning.step = "idle"
  BY DEF NotRunning
<1>2. \A rw \in Rewriting : rw.step # "idle"
  BY DEF Rewriting
<1> QED BY <1>1, <1>2

\* What a step of one command leaves: the others, and itself idle or at its next step.
LEMMA RewriteGoesOn ==
    ASSUME StorageTypeOK, NEW w \in Rewriter, rewrites[w] \in Rewriting,
           NEW step \in {"idle", "copy", "read", "replace"}, RewriteGoes(w, step)
    PROVE  /\ rewrites' \in [Rewriter -> {NotRunning} \union Rewriting]
           /\ \A v \in Rewriter : v # w => rewrites'[v] = rewrites[v]
           /\ step = "idle" => rewrites'[w] = NotRunning
           /\ step # "idle" => /\ rewrites'[w].step = step
                               /\ rewrites'[w].source = rewrites[w].source
                               /\ rewrites'[w].target = rewrites[w].target
                               /\ rewrites'[w].text = rewrites[w].text
<1>1. [rewrites[w] EXCEPT !.step = step] \in Rewriting \/ step = "idle"
  BY DEF Rewriting
<1>2. rewrites \in [Rewriter -> {NotRunning} \union Rewriting]
  BY DEF StorageTypeOK
<1>3. rewrites' = [rewrites EXCEPT ![w] = IF step = "idle" THEN NotRunning
                                          ELSE [rewrites[w] EXCEPT !.step = step]]
  BY <1>2 DEF RewriteGoes
<1>4. /\ rewrites' \in [Rewriter -> {NotRunning} \union Rewriting]
      /\ \A v \in Rewriter : v # w => rewrites'[v] = rewrites[v]
      /\ step = "idle" => rewrites'[w] = NotRunning
      /\ step # "idle" => rewrites'[w] = [rewrites[w] EXCEPT !.step = step]
  BY <1>1, <1>2, <1>3
<1>5. /\ [rewrites[w] EXCEPT !.step = step].step = step
      /\ [rewrites[w] EXCEPT !.step = step].source = rewrites[w].source
      /\ [rewrites[w] EXCEPT !.step = step].target = rewrites[w].target
      /\ [rewrites[w] EXCEPT !.step = step].text = rewrites[w].text
  BY DEF Rewriting
<1> QED BY <1>4, <1>5

\* Connecting to a database that is not there creates an empty one: what is read there by then
\* is what was read there before.
LEMMA CreatedEmpty ==
    ASSUME StorageTypeOK, NEW r \in Root, r \notin DOMAIN stores, StoreAt(r, {})
    PROVE  /\ \A q \in Root : SearchesAt(q)' = SearchesAt(q)
           /\ DOMAIN stores' = DOMAIN stores \union {r}
           /\ \A q \in DOMAIN stores' : stores'[q] \subseteq 1..searches
BY DEF StoreAt, SearchesAt, StorageTypeOK

-----------------------------------------------------------------------------
(* The invariant                                                           *)

LEMMA StorageInitially == StorageInit => StorageInv
<1> SUFFICES ASSUME StorageInit PROVE StorageInv
  OBVIOUS
<1>1. StorageTypeOK
  <2>1. config \in Config /\ rewrites \in [Rewriter -> {NotRunning} \union Rewriting]
    BY DEF StorageInit, Config
  <2>2. DOMAIN stores = {}
    BY DEF StorageInit
  <2>3. searches \in 0..MaxSearches /\ rewrites_made \in 0..MaxRewrites
    BY DEF StorageInit
  <2>4. apart \in BOOLEAN /\ adopted \in BOOLEAN /\ gateway \in {NoGateway}
    BY DEF StorageInit
  <2> QED BY <2>1, <2>2, <2>3, <2>4 DEF StorageTypeOK
<1>2. Complete(config.root)
  BY DEF StorageInit, Complete, SearchesAt
<1> QED BY <1>1, <1>2 DEF StorageInit, StorageInv

\* A command that starts relies on the configuration that it has read.
LEMMA StartRewriteSafe ==
    ASSUME StorageInv, NEW w \in Rewriter, StartRewrite(w)
    PROVE  StorageInv'
<1> USE DEF StorageInv
<1>1. /\ UNCHANGED <<config, stores, gateway, searches, apart, adopted>>
      /\ rewrites_made' \in 0..MaxRewrites
  BY DEF StartRewrite, StorageTypeOK
<1>2. \A r \in Root : Complete(r)' <=> Complete(r)
  BY <1>1 DEF Complete, SearchesAt
<1>3. PICK rw \in Rewriting : /\ rewrites' = [rewrites EXCEPT ![w] = rw]
                              /\ rw.source = config.root
                              /\ rw.step \in {"look", "read"}
                              /\ rw.step = "read" => rw.target = config.root
  BY DEF StartRewrite, StorageTypeOK, Config, Rewriting
<1>4. StorageTypeOK'
  BY <1>1, <1>3 DEF StorageTypeOK
<1>5. ASSUME ~apart', ~adopted', NEW v \in Rewriter, rewrites'[v] # NotRunning
      PROVE  RewriteIsSafe(rewrites[v])'
  <2>1. CASE v = w
    <3>1. rewrites'[v] = rw
      BY <2>1, <1>3 DEF StorageTypeOK
    <3>2. Complete(config.root)' /\ rw.source \in Root /\ rw.target \in Root
      BY <1>1, <1>2, <1>5 DEF StorageTypeOK, Config, Rewriting
    <3>3. Complete(rw.source)' /\ (rw.step = "read" => Complete(rw.target)')
      BY <1>1, <1>3, <3>2
    <3> QED BY <1>3, <3>1, <3>3 DEF RewriteIsSafe
  <2>2. CASE v # w
    <3>1. rewrites'[v] = rewrites[v]
      BY <2>2, <1>3 DEF StorageTypeOK
    <3>2. RewriteIsSafe(rewrites[v]) /\ rewrites[v] \in Rewriting
      BY <1>1, <1>5, <3>1, RunningRewrite
    <3> QED BY <3>1, <3>2, <1>2 DEF RewriteIsSafe, Rewriting, Config
  <2> QED BY <2>1, <2>2
<1>6. ~apart' /\ ~adopted' => Complete(config.root)'
  BY <1>1, <1>2 DEF StorageTypeOK, Config
<1> QED BY <1>1, <1>4, <1>5, <1>6

\* A step of one command that touches no database but one that it does not yet rely on.
LEMMA RewriteStepSafe ==
    ASSUME StorageInv, NEW w \in Rewriter, rewrites[w] \in Rewriting, StorageTypeOK',
           UNCHANGED <<gateway, searches, apart>>,
           DOMAIN stores \subseteq DOMAIN stores',
           adopted => adopted',
           \A v \in Rewriter : v # w => rewrites'[v] = rewrites[v],
           ~apart' /\ ~adopted' =>
               /\ \A r \in Root : Complete(r) => Complete(r)'
               /\ Complete(config.root)'
               /\ rewrites'[w] # NotRunning => RewriteIsSafe(rewrites[w])'
    PROVE  StorageInv'
<1> USE DEF StorageInv
<1>1. gateway' # NoGateway => gateway'[1] \in DOMAIN stores'
  OBVIOUS
<1>2. ASSUME ~apart', ~adopted', NEW v \in Rewriter, rewrites'[v] # NotRunning
      PROVE  RewriteIsSafe(rewrites[v])'
  <2>1. CASE v = w
    BY <1>2, <2>1
  <2>2. CASE v # w
    <3>1. rewrites'[v] = rewrites[v] /\ ~apart /\ ~adopted
      BY <1>2, <2>2
    <3>2. RewriteIsSafe(rewrites[v]) /\ rewrites[v] \in Rewriting
      BY <1>2, <3>1, RunningRewrite
    <3> QED BY <1>2, <3>1, <3>2 DEF RewriteIsSafe, Rewriting, Config
  <2> QED BY <2>1, <2>2
<1> QED BY <1>1, <1>2

\* A target that is created is empty, as its source is when no copy is made.
LEMMA LookAtTargetSafe ==
    ASSUME StorageInv, NEW w \in Rewriter, rewrites[w] # NotRunning, LookAtTarget(w)
    PROVE  StorageInv'
<1> USE DEF StorageInv
<1> DEFINE target == rewrites[w].target
           source == rewrites[w].source
           there == target \in DOMAIN stores
           next == IF source # target /\ source \in DOMAIN stores /\ ~there THEN "copy" ELSE "read"
<1>1. rewrites[w] \in Rewriting /\ target \in Root /\ source \in Root
  BY RunningRewrite DEF Rewriting
<1>2. /\ IF there THEN UNCHANGED stores ELSE StoreAt(target, {})
      /\ adopted' = (adopted \/ (there /\ target # source))
      /\ RewriteGoes(w, next)
      /\ UNCHANGED <<config, gateway, searches, apart, rewrites_made>>
  BY DEF LookAtTarget, Following
<1>3. /\ \A q \in Root : SearchesAt(q)' = SearchesAt(q)
      /\ DOMAIN stores \subseteq DOMAIN stores' /\ DOMAIN stores' \subseteq Root
      /\ \A q \in DOMAIN stores' : stores'[q] \subseteq 1..searches
  BY <1>1, <1>2, CreatedEmpty DEF SearchesAt, StorageTypeOK
<1>4. /\ rewrites' \in [Rewriter -> {NotRunning} \union Rewriting]
      /\ \A v \in Rewriter : v # w => rewrites'[v] = rewrites[v]
      /\ rewrites'[w].step = next
      /\ rewrites'[w].source = source
      /\ rewrites'[w].target = target
  <2>1. next \in {"idle", "copy", "read", "replace"} /\ next # "idle"
    OBVIOUS
  <2> HIDE DEF next
  <2> QED BY <1>1, <1>2, <2>1, RewriteGoesOn
<1>5. StorageTypeOK'
  BY <1>2, <1>3, <1>4 DEF StorageTypeOK
<1>6. \A q \in Root : Complete(q)' <=> Complete(q)
  BY <1>2, <1>3 DEF Complete
<1>7. ASSUME ~apart', ~adopted' PROVE RewriteIsSafe(rewrites[w])'
  <2>1. Complete(source)
    BY <1>2, <1>7 DEF RewriteIsSafe
  <2>2. next = "read" => Complete(target)
    <3>1. CASE source = target
      BY <2>1, <3>1
    <3>2. CASE source # target /\ there
      BY <3>2, <1>2, <1>7
    <3>3. CASE source \notin DOMAIN stores /\ ~there
      BY <2>1, <3>3 DEF Complete, SearchesAt
    <3>4. CASE source # target /\ source \in DOMAIN stores /\ ~there
      BY <3>4
    <3> QED BY <3>1, <3>2, <3>3, <3>4
  <2>3. next # "replace"
    OBVIOUS
  <2> HIDE DEF next
  <2> QED BY <1>1, <1>4, <1>6, <2>1, <2>2, <2>3 DEF RewriteIsSafe
<1>8. ~apart' /\ ~adopted' => Complete(config.root)'
  BY <1>2, <1>6 DEF StorageTypeOK, Config
<1>9. UNCHANGED <<gateway, searches, apart>> /\ (adopted => adopted')
  BY <1>2
<1> HIDE DEF StorageInv
<1> QED BY <1>1, <1>3, <1>4, <1>5, <1>6, <1>7, <1>8, <1>9, RewriteStepSafe

\* The copy is one snapshot of a complete source.
LEMMA CopyStoreSafe ==
    ASSUME StorageInv, NEW w \in Rewriter, rewrites[w] # NotRunning, CopyStore(w)
    PROVE  StorageInv'
<1> USE DEF StorageInv
<1> DEFINE target == rewrites[w].target
           source == rewrites[w].source
<1>1. rewrites[w] \in Rewriting /\ target \in Root /\ source \in Root
  BY RunningRewrite DEF Rewriting
<1>2. /\ StoreAt(target, SearchesAt(source)) /\ RewriteGoes(w, "read")
      /\ UNCHANGED <<config, gateway, searches, apart, adopted, rewrites_made>>
  BY DEF CopyStore, Following
<1>3. SearchesAt(source) \subseteq 1..searches
  BY <1>1 DEF SearchesAt, StorageTypeOK
<1>4. /\ DOMAIN stores' = DOMAIN stores \union {target}
      /\ \A q \in DOMAIN stores' : stores'[q] \subseteq 1..searches
      /\ \A q \in Root : SearchesAt(q)' = IF q = target THEN SearchesAt(source) ELSE SearchesAt(q)
  <2> DEFINE copied == SearchesAt(source)
  <2>1. stores' = [q \in DOMAIN stores \union {target} |-> IF q = target THEN copied ELSE stores[q]]
    BY <1>2 DEF StoreAt
  <2> HIDE DEF copied
  <2>2. /\ DOMAIN stores' = DOMAIN stores \union {target}
        /\ \A q \in Root : SearchesAt(q)' = IF q = target THEN copied ELSE SearchesAt(q)
    BY <2>1 DEF SearchesAt
  <2>3. \A q \in DOMAIN stores' : stores'[q] \subseteq 1..searches
    BY <2>1, <1>3 DEF StorageTypeOK, copied
  <2> QED BY <2>2, <2>3 DEF copied
<1>5. /\ rewrites' \in [Rewriter -> {NotRunning} \union Rewriting]
      /\ \A v \in Rewriter : v # w => rewrites'[v] = rewrites[v]
      /\ rewrites'[w].step = "read"
      /\ rewrites'[w].source = source
      /\ rewrites'[w].target = target
  BY <1>1, <1>2, RewriteGoesOn
<1>6. StorageTypeOK'
  BY <1>1, <1>2, <1>4, <1>5 DEF StorageTypeOK
<1>7. ASSUME ~apart', ~adopted'
      PROVE  /\ \A r \in Root : Complete(r) => Complete(r)'
             /\ Complete(config.root)'
             /\ RewriteIsSafe(rewrites[w])'
  <2>1. Complete(source) /\ Complete(config.root)
    BY <1>2, <1>7 DEF RewriteIsSafe
  <2>2. \A r \in Root : Complete(r) \/ r = target => Complete(r)'
    BY <1>1, <1>2, <1>4, <2>1 DEF Complete
  <2>3. config.root \in Root /\ config' = config
    BY <1>2 DEF StorageTypeOK, Config
  <2> QED BY <1>1, <1>5, <2>1, <2>2, <2>3 DEF RewriteIsSafe
<1>8. UNCHANGED <<gateway, searches, apart>> /\ (adopted => adopted')
      /\ DOMAIN stores \subseteq DOMAIN stores'
  BY <1>2, <1>4
<1> HIDE DEF StorageInv
<1> QED BY <1>1, <1>5, <1>6, <1>7, <1>8, RewriteStepSafe

\* The configuration that is read names a complete database.
LEMMA ReadTextSafe ==
    ASSUME StorageInv, NEW w \in Rewriter, rewrites[w] # NotRunning, ReadText(w)
    PROVE  StorageInv'
<1> USE DEF StorageInv
<1> DEFINE rw == [rewrites[w] EXCEPT !.step = "replace", !.text = config]
<1>1. rewrites[w] \in Rewriting
  BY RunningRewrite
<1>2. /\ rewrites[w].step = "read"
      /\ rewrites' = [rewrites EXCEPT ![w] = rw]
      /\ UNCHANGED <<config, stores, gateway, searches, apart, adopted, rewrites_made>>
  BY DEF ReadText, Following, StorageTypeOK
<1>3. /\ rw \in Rewriting /\ rw.source = rewrites[w].source /\ rw.target = rewrites[w].target
      /\ rw.step = "replace" /\ rw.text = config
  BY <1>1 DEF Rewriting, StorageTypeOK
<1>4. rewrites'[w] = rw /\ \A v \in Rewriter : v # w => rewrites'[v] = rewrites[v]
  BY <1>2 DEF StorageTypeOK
<1> HIDE DEF rw
<1>5. StorageTypeOK'
  BY <1>2, <1>3 DEF StorageTypeOK
<1>6. \A r : Complete(r)' <=> Complete(r)
  BY <1>2 DEF Complete, SearchesAt
<1>7. ASSUME ~apart', ~adopted' PROVE Complete(config.root)' /\ RewriteIsSafe(rewrites[w])'
  <2>1. /\ Complete(config.root) /\ Complete(rewrites[w].source)
        /\ Complete(rewrites[w].target)
    BY <1>2, <1>7 DEF RewriteIsSafe
  <2>2. config' = config
    BY <1>2
  <2> QED BY <1>3, <1>4, <1>6, <2>1, <2>2 DEF RewriteIsSafe
<1> QED BY <1>1, <1>2, <1>4, <1>5, <1>6, <1>7, RewriteStepSafe

\* The root that is written is the target of the copy or the one that was read.
LEMMA ReplaceConfigSafe ==
    ASSUME StorageInv, NEW w \in Rewriter, rewrites[w] # NotRunning, ReplaceConfig(w)
    PROVE  StorageInv'
<1> USE DEF StorageInv
<1>1. rewrites[w] \in Rewriting
  BY RunningRewrite
<1>2. /\ rewrites[w].step = "replace"
      /\ config' = IF rewrites[w].name = "relocate"
                   THEN [rewrites[w].text EXCEPT !.root = rewrites[w].target]
                   ELSE [rewrites[w].text EXCEPT !.oauth = TRUE]
      /\ RewriteGoes(w, "idle")
      /\ UNCHANGED <<stores, gateway, searches, apart, adopted, rewrites_made>>
  BY DEF ReplaceConfig, Following
<1>3. config' \in Config /\ config'.root \in {rewrites[w].target, rewrites[w].text.root}
  BY <1>1, <1>2 DEF Rewriting, Config
<1>4. /\ rewrites' \in [Rewriter -> {NotRunning} \union Rewriting]
      /\ \A v \in Rewriter : v # w => rewrites'[v] = rewrites[v]
      /\ rewrites'[w] = NotRunning
  BY <1>1, <1>2, RewriteGoesOn
<1>5. StorageTypeOK'
  BY <1>2, <1>3, <1>4 DEF StorageTypeOK
<1>6. \A r : Complete(r)' <=> Complete(r)
  BY <1>2 DEF Complete, SearchesAt
<1>7. ASSUME ~apart', ~adopted' PROVE Complete(config.root)'
  <2>1. Complete(rewrites[w].target) /\ Complete(rewrites[w].text.root)
    BY <1>2, <1>7 DEF RewriteIsSafe
  <2>2. Complete(config'.root)
    BY <1>3, <2>1
  <2> QED BY <1>2, <2>2 DEF Complete, SearchesAt
<1> QED BY <1>1, <1>2, <1>4, <1>5, <1>6, <1>7, RewriteStepSafe

LEMMA RewriteStopsSafe ==
    ASSUME StorageInv, NEW w \in Rewriter, RewriteStops(w)
    PROVE  StorageInv'
<1> USE DEF StorageInv
<1>1. rewrites[w] \in Rewriting
  BY RunningRewrite DEF RewriteStops
<1>2. /\ rewrites' = [rewrites EXCEPT ![w] = NotRunning]
      /\ UNCHANGED <<config, stores, gateway, searches, apart, adopted, rewrites_made>>
  BY DEF RewriteStops
<1>3. StorageTypeOK' /\ rewrites'[w] = NotRunning
      /\ \A v \in Rewriter : v # w => rewrites'[v] = rewrites[v]
  BY <1>2 DEF StorageTypeOK
<1>4. \A r : Complete(r)' <=> Complete(r)
  BY <1>2 DEF Complete, SearchesAt
<1>5. ~apart' /\ ~adopted' => Complete(config.root)'
  BY <1>2, <1>4
<1> QED BY <1>1, <1>2, <1>3, <1>4, <1>5, RewriteStepSafe

\* A gateway that starts creates an empty database at most, one that stops none.
LEMMA GatewaySafe ==
    ASSUME StorageInv, StartGateway \/ StopGateway
    PROVE  StorageInv'
<1> USE DEF StorageInv
<1>1. UNCHANGED <<config, rewrites, searches, apart, adopted, rewrites_made>>
  BY DEF StartGateway, StopGateway
<1>2. config.root \in Root
  BY DEF StorageTypeOK, Config
<1>3. /\ \A q \in Root : SearchesAt(q)' = SearchesAt(q)
      /\ DOMAIN stores' \subseteq Root
      /\ \A q \in DOMAIN stores' : stores'[q] \subseteq 1..searches
      /\ gateway' \in {NoGateway} \union {<<r>> : r \in Root}
      /\ gateway' # NoGateway => gateway'[1] \in DOMAIN stores'
  <2>1. CASE StopGateway
    BY <2>1 DEF StopGateway, SearchesAt, StorageTypeOK
  <2>2. CASE StartGateway /\ config.root \in DOMAIN stores
    BY <1>2, <2>2 DEF StartGateway, SearchesAt, StorageTypeOK
  <2>3. CASE StartGateway /\ config.root \notin DOMAIN stores
    <3>1. StoreAt(config.root, {}) /\ gateway' = <<config.root>>
      BY <2>3 DEF StartGateway
    <3>2. /\ \A q \in Root : SearchesAt(q)' = SearchesAt(q)
          /\ DOMAIN stores' = DOMAIN stores \union {config.root}
          /\ \A q \in DOMAIN stores' : stores'[q] \subseteq 1..searches
      BY <1>2, <2>3, <3>1, CreatedEmpty
    <3> QED BY <1>2, <3>1, <3>2 DEF StorageTypeOK
  <2> QED BY <2>1, <2>2, <2>3
<1>4. StorageTypeOK'
  BY <1>1, <1>3 DEF StorageTypeOK
<1>5. \A q \in Root : Complete(q)' <=> Complete(q)
  BY <1>1, <1>3 DEF Complete
<1>6. ASSUME ~apart', ~adopted', NEW v \in Rewriter, rewrites'[v] # NotRunning
      PROVE  RewriteIsSafe(rewrites[v])'
  <2>1. rewrites[v] \in Rewriting /\ RewriteIsSafe(rewrites[v]) /\ rewrites' = rewrites
    BY <1>1, <1>6, RunningRewrite
  <2> QED BY <1>5, <2>1 DEF RewriteIsSafe, Rewriting, Config
<1>7. ~apart' /\ ~adopted' => Complete(config.root)'
  BY <1>1, <1>2, <1>5
<1> QED BY <1>3, <1>4, <1>6, <1>7

\* A search that is saved while nothing is rewritten goes into the configured database, or
\* it is apart.
LEMMA SaveSearchSafe ==
    ASSUME StorageInv, SaveSearch
    PROVE  StorageInv'
<1> USE DEF StorageInv
<1> DEFINE g == gateway[1]
<1>1. /\ gateway # NoGateway /\ searches < MaxSearches
      /\ searches' = searches + 1
      /\ stores' = [q \in DOMAIN stores \union {g} |->
                       IF q = g THEN stores[g] \union {searches + 1} ELSE stores[q]]
      /\ apart' = (apart \/ g # config.root \/ \E w \in Rewriter : rewrites[w] # NotRunning)
      /\ UNCHANGED <<config, gateway, rewrites, adopted, rewrites_made>>
  BY DEF SaveSearch, StoreAt
<1>2. g \in DOMAIN stores /\ DOMAIN stores \subseteq Root /\ searches \in Nat
  BY <1>1 DEF StorageTypeOK
<1>3. /\ stores[g] \subseteq 1..searches
      /\ \A q \in DOMAIN stores : stores[q] \subseteq 1..searches
      /\ 1..(searches + 1) = (1..searches) \union {searches + 1}
  BY <1>2 DEF StorageTypeOK
<1>4. DOMAIN stores' = DOMAIN stores /\ \A q \in DOMAIN stores' : stores'[q] \subseteq 1..searches'
  BY <1>1, <1>2, <1>3
<1>5. StorageTypeOK'
  <2>1. searches' \in 0..MaxSearches /\ apart' \in BOOLEAN
    BY <1>1, <1>2 DEF StorageTypeOK
  <2> QED BY <1>1, <1>4, <2>1 DEF StorageTypeOK
<1>6. ASSUME ~apart', ~adopted'
      PROVE  Complete(config.root)' /\ \A w \in Rewriter : rewrites'[w] = NotRunning
  <2>1. ~apart /\ ~adopted /\ g = config.root /\ \A w \in Rewriter : rewrites[w] = NotRunning
    BY <1>1, <1>6
  <2>2. stores[g] = 1..searches
    BY <1>2, <2>1 DEF Complete, SearchesAt
  <2>3. stores'[g] = 1..searches'
    BY <1>1, <1>2, <1>3, <2>2
  <2> QED BY <1>1, <1>2, <1>4, <2>1, <2>3 DEF Complete, SearchesAt
<1> QED BY <1>1, <1>2, <1>4, <1>5, <1>6

-----------------------------------------------------------------------------
(* The theorems                                                            *)

LEMMA StorageStep == StorageInv /\ [StorageNext]_storageVars => StorageInv'
<1> SUFFICES ASSUME StorageInv, [StorageNext]_storageVars PROVE StorageInv'
  OBVIOUS
<1>1. ASSUME NEW w \in Rewriter,
             LookAtTarget(w) \/ CopyStore(w) \/ ReadText(w) \/ ReplaceConfig(w)
      PROVE  rewrites[w] # NotRunning
  BY <1>1, IdleIsNoStep DEF LookAtTarget, CopyStore, ReadText, ReplaceConfig
<1>2. CASE \E w \in Rewriter : StartRewrite(w) \/ LookAtTarget(w) \/ CopyStore(w) \/ ReadText(w)
                               \/ ReplaceConfig(w) \/ RewriteStops(w)
  BY <1>1, <1>2, StartRewriteSafe, LookAtTargetSafe, CopyStoreSafe, ReadTextSafe,
     ReplaceConfigSafe, RewriteStopsSafe
<1>3. CASE StartGateway \/ StopGateway
  BY <1>3, GatewaySafe
<1>4. CASE SaveSearch
  BY <1>4, SaveSearchSafe
<1>5. CASE UNCHANGED storageVars
  BY <1>5 DEF storageVars, StorageInv, StorageTypeOK, Complete, SearchesAt, RewriteIsSafe
<1> QED BY <1>2, <1>3, <1>4, <1>5 DEF StorageNext

LEMMA StorageInvariant == StorageSpec => []StorageInv
BY StorageInitially, StorageStep, PTL DEF StorageSpec

\* The configuration, the databases and the commands keep their types.
THEOREM StorageTypesHold == StorageSpec => []StorageTypeOK
BY StorageInvariant, PTL DEF StorageInv

\* Relocations, in any number and stopped or overlapping anywhere, lose no search, but for the
\* exceptions that the property names.
THEOREM ConfiguredStoreHolds == StorageSpec => []ConfiguredStoreHoldsAll
<1>1. StorageInv => ConfiguredStoreHoldsAll
  BY DEF StorageInv, ConfiguredStoreHoldsAll, Complete
<1> QED BY <1>1, StorageInvariant, PTL

HIDE StorageAssumption

-----------------------------------------------------------------------------
(* The components together                                                 *)

LEMMA OperationsSteps ==
    ASSUME [OperationsNext]_<<component, lifecycleVars, githubVars, storageVars, backupsVars>>
    PROVE  /\ [LifecycleNext]_lifecycleVars
           /\ [GithubNext]_githubVars /\ [StorageNext]_storageVars /\ [BackupsNext]_backupsVars
BY Zenon DEF OperationsNext

\* The composition does what its components do: each of them, seen alone, follows its own
\* specification.
THEOREM OperationsCompose ==
    OperationsSpec => LifecycleSpec /\ GithubSpec /\ StorageSpec /\ BackupsSpec
<1>1. OperationsInit => LifecycleInit /\ GithubInit /\ StorageInit /\ BackupsInit
  BY DEF OperationsInit
<1> QED BY <1>1, OperationsSteps, PTL
        DEF OperationsSpec, LifecycleSpec, GithubSpec, StorageSpec, BackupsSpec

\* Every component keeps its types wherever the others are.
THEOREM OperationsTypesHold == OperationsSpec => []OperationsTypeOK
BY OperationsCompose, LifecycleTypesHold, GithubTypesHold, StorageTypesHold, BackupsTypesHold, PTL DEF OperationsTypeOK
=============================================================================
