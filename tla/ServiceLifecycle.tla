-------------------------- MODULE ServiceLifecycle --------------------------
(***************************************************************************)
(* `service start|stop|restart|install|uninstall` and `serve` of cli.py     *)
(* with ServiceManager (operations/service.py), SystemdUserSupervisor      *)
(* (operations/supervisor.py) and NgrokTunnel (tunnel.py): commands that     *)
(* look at a process table, a port, two state files and a unit, and then    *)
(* change them, while servers start, hang and die and others take the port. *)
(*                                                                         *)
(* systemd and ngrok are external: a unit with Restart=always starts its     *)
(* process again whenever it ended, and one endpoint has one owner.  What     *)
(* the unit runs before the server listens, ExecStartPre's config-check and   *)
(* the startup backup, is taken to succeed: with a configuration that never   *)
(* passes, systemd would try for ever and no server would come.              *)
(***************************************************************************)
EXTENDS Integers

CONSTANTS
    Operator,       \* command lines that may run at once
    Pid, NoPid,
    TunnelOption,   \* bound: the options given, of --tunnel ("yes"), --no-tunnel, neither
    MaxCommands,    \* bound: commands
    MaxEvents,      \* bound: crashes, interrupted and overlapping commands, and
                    \* strangers (`serve` by hand, other programs) together
    OverlapCost     \* bound: how many events an overlap counts for

ASSUME LifecycleAssumption ==
    /\ NoPid \notin Pid /\ TunnelOption \subseteq {"yes", "no"}
    /\ MaxCommands \in Nat /\ MaxEvents \in Nat /\ OverlapCost \in Nat

VARIABLES
    procs,        \* live processes; a pid that is free may be given again
    state_file,   \* service.json: the pid it names
    tunnel_file,  \* tunnel.json: the pid it names
    unit,         \* the systemd user unit
    commands,     \* the command each operator runs, and its next step
    excused,      \* observation: commands overlapped, one was interrupted, or a start
                  \* took another gateway's health for its own
    issued, events

lifecycleVars == <<procs, state_file, tunnel_file, unit, commands,
                   excused, issued, events>>

Process == [program: {"gateway", "other"}, by: {"start", "systemd", "user"},
            phase: {"starting", "serving"}, tunnel: BOOLEAN, endpoint: BOOLEAN,
            term: {"no", "start", "stop"}]
Unit == [owner: {"none", "own", "other_config", "foreign"}, tunnel: BOOLEAN,
         active: BOOLEAN, failed: BOOLEAN, main: Pid \union {NoPid}]
NoCommand == [name |-> "none", step |-> "idle"]

LifecycleTypeOK ==
    /\ DOMAIN procs \subseteq Pid /\ \A p \in DOMAIN procs : procs[p] \in Process
    /\ state_file \in Pid \union {NoPid} /\ tunnel_file \in Pid \union {NoPid}
    /\ unit \in Unit /\ (unit.main # NoPid => unit.main \in DOMAIN procs)
    /\ \A o \in Operator : commands[o].name \in
          {"none", "start", "stop", "restart", "install", "uninstall"}
    /\ excused \in BOOLEAN
    /\ issued \in 0..MaxCommands /\ events \in 0..MaxEvents

\* The host may have a unit already, also one of this configuration that was stopped before.
LifecycleInit ==
    /\ procs = <<>> /\ state_file = NoPid /\ tunnel_file = NoPid
    /\ unit \in [owner: {"none", "own", "other_config", "foreign"}, tunnel: {FALSE},
                 active: {FALSE}, failed: BOOLEAN, main: {NoPid}]
    /\ unit.failed => unit.owner = "own"
    /\ commands = [o \in Operator |-> NoCommand]
    /\ excused = FALSE /\ issued = 0 /\ events = 0

-----------------------------------------------------------------------------
(* What a command sees                                                     *)

\* _is_gateway_command on /proc/<pid>/cmdline: any gateway, whoever started it.
ProcessMatches(p) == p \in DOMAIN procs /\ procs[p].program = "gateway"

Serving == {p \in DOMAIN procs : procs[p].phase = "serving"}
HealthOk == \E p \in Serving : procs[p].program = "gateway"
PortInUse == Serving # {}

\* ServiceManager.status
Classification ==
    IF HealthOk THEN IF ProcessMatches(state_file) THEN "managed" ELSE "unmanaged"
    ELSE IF PortInUse THEN "port_conflict" ELSE "stopped"

ManagesConfig == unit.owner = "own"

\* ActiveState, as systemctl shows it: between two processes the unit is activating.
ActiveState ==
    CASE unit.active -> IF unit.main # NoPid THEN "active" ELSE "activating"
      [] OTHER -> IF unit.failed THEN "failed" ELSE "inactive"

\* SystemdUserSupervisor.status, for the unit that manages the configuration.
SupervisedClassification ==
    CASE ActiveState = "active" /\ HealthOk -> "supervised"
      [] ActiveState = "activating" \/ (ActiveState = "active" /\ ~HealthOk) ->
           "supervisor_starting"
      [] ActiveState = "failed" -> "supervisor_failed"
      [] OTHER -> Classification

\* _reject_unowned_port: what is running and not supervised is left intact.
Unowned(classification) == classification \in {"port_conflict", "managed", "unmanaged"}

-----------------------------------------------------------------------------
(* Processes                                                               *)

Happens(cost) == events + cost <= MaxEvents /\ events' = events + cost

Spawned(by, tunnel) ==
    [program |-> "gateway", by |-> by, phase |-> "starting", tunnel |-> tunnel,
     endpoint |-> FALSE, term |-> "no"]

Joins(p, process) ==
    procs' = [q \in DOMAIN procs \union {p} |-> IF q = p THEN process ELSE procs[q]]

\* A process that ends leaves the table; systemd notices when it was the unit's, and a unit
\* that was stopping has failed when the process did not end well.
Ended(p, well) ==
    /\ procs' = [q \in DOMAIN procs \ {p} |-> procs[q]]
    /\ unit' = IF unit.main = p
                 THEN [unit EXCEPT !.main = NoPid, !.failed = ~well /\ ~unit.active]
                 ELSE unit

\* A new pid is one that a file or a command still names, or any other.
FreePids ==
    LET free == Pid \ DOMAIN procs
        named == free \intersect ({state_file, tunnel_file} \union {commands[o].pid : o \in
                     {d \in Operator : commands[d] # NoCommand}})
    IN  named \union IF free = named THEN {} ELSE {CHOOSE p \in free \ named : TRUE}

\* `serve` opens its tunnel first.  A second owner of the endpoint is refused, and the
\* finally clause of serve clears tunnel.json whoever wrote it.
OpenTunnel(p) ==
    /\ procs[p].program = "gateway" /\ procs[p].phase = "starting"
    /\ procs[p].tunnel /\ ~procs[p].endpoint
    /\ IF \E q \in DOMAIN procs : procs[q].endpoint
         THEN Ended(p, FALSE) /\ tunnel_file' = NoPid
         ELSE /\ procs' = [procs EXCEPT ![p].endpoint = TRUE]
              /\ tunnel_file' = p
              /\ UNCHANGED unit
    /\ UNCHANGED <<state_file, commands, excused, issued, events>>

ClosedTunnel(p) == tunnel_file' = IF procs[p].tunnel THEN NoPid ELSE tunnel_file

\* uvicorn binds the port, or the process ends.
Bind(p) ==
    /\ procs[p].phase = "starting" /\ (procs[p].tunnel => procs[p].endpoint)
    /\ IF PortInUse
         THEN Ended(p, FALSE) /\ ClosedTunnel(p)
         ELSE /\ procs' = [procs EXCEPT ![p].phase = "serving"]
              /\ UNCHANGED <<unit, tunnel_file>>
    /\ UNCHANGED <<state_file, commands, excused, issued, events>>

\* SIGTERM: a process that serves shuts down, in its own time, and closes its tunnel.
ShutDown(p) ==
    /\ procs[p].term # "no"
    /\ Ended(p, TRUE)
    /\ IF procs[p].phase = "serving" THEN ClosedTunnel(p) ELSE UNCHANGED tunnel_file
    /\ UNCHANGED <<state_file, commands, excused, issued, events>>

Die(p) ==
    /\ Happens(1)
    /\ Ended(p, FALSE)
    /\ UNCHANGED <<state_file, tunnel_file, commands, excused, issued>>

\* Somebody runs `serve` by hand, or another program that wants the port.
Stranger ==
    /\ Happens(1)
    /\ \E p \in FreePids, program \in {"gateway", "other"}, tunnel \in BOOLEAN :
          /\ program = "other" => ~tunnel
          /\ Joins(p, [Spawned("user", tunnel) EXCEPT !.program = program])
    /\ UNCHANGED <<state_file, tunnel_file, unit, commands, excused, issued>>

\* Mutant: Restart=no, and a process that crashed is left.
RestartsNever == unit.active /\ unit.main = NoPid /\ events = 0

\* Restart=always of _render_unit.
Restarts == unit.active /\ unit.main = NoPid

UnitSpawn ==
    /\ Restarts
    /\ \E p \in FreePids :
          /\ Joins(p, Spawned("systemd", unit.tunnel))
          /\ unit' = [unit EXCEPT !.main = p]
    /\ UNCHANGED <<state_file, tunnel_file, commands, excused, issued, events>>

-----------------------------------------------------------------------------
(* Steps of commands                                                       *)

CommandGoes(o, command) == commands' = [commands EXCEPT ![o] = command]
CommandStep(o, step) == CommandGoes(o, [commands[o] EXCEPT !.step = step])
CommandEnds(o) == CommandGoes(o, NoCommand)
AtStep(o, step) == commands[o].step = step

Command(o) ==
    /\ commands[o] = NoCommand /\ issued < MaxCommands /\ issued' = issued + 1
    /\ \E name \in {"start", "stop", "restart", "install", "uninstall"},
          tunnel \in TunnelOption \union {"unset"} :
          /\ (tunnel = "unset") = (name \in {"stop", "uninstall"} \/ TunnelOption = {})
          /\ CommandGoes(o, [name |-> name, tunnel |-> tunnel, pid |-> NoPid,
                             supervised |-> FALSE, step |-> "look"])
    /\ IF \E d \in Operator : commands[d] # NoCommand
         THEN excused' = TRUE /\ Happens(OverlapCost)
         ELSE UNCHANGED <<excused, events>>
    /\ UNCHANGED <<procs, state_file, tunnel_file, unit>>

\* ServiceManager.start and restart: look first.
LookDetached(o) ==
    /\ AtStep(o, "look") /\ commands[o].name = "start" /\ ~ManagesConfig
    /\ IF Classification = "stopped" THEN CommandStep(o, "clear") ELSE CommandEnds(o)
    /\ UNCHANGED <<procs, state_file, tunnel_file, unit, excused, issued, events>>

ClearState(o) ==
    /\ AtStep(o, "clear")
    /\ state_file' = NoPid /\ tunnel_file' = NoPid
    /\ CommandStep(o, "spawn")
    /\ UNCHANGED <<procs, unit, excused, issued, events>>

Spawn(o) ==
    /\ AtStep(o, "spawn")
    /\ \E p \in FreePids :
          /\ Joins(p, Spawned("start", commands[o].tunnel = "yes"))
          /\ CommandGoes(o, [commands[o] EXCEPT !.pid = p, !.step = "write"])
    /\ UNCHANGED <<state_file, tunnel_file, unit, excused, issued, events>>

WriteState(o) ==
    /\ AtStep(o, "write")
    /\ state_file' = commands[o].pid
    /\ CommandStep(o, "wait")
    /\ UNCHANGED <<procs, tunnel_file, unit, excused, issued, events>>

\* _wait_for_health: any healthy gateway ends the wait; the process may end, the time run out.
WaitForHealth(o) ==
    /\ AtStep(o, "wait")
    /\ IF ProcessMatches(commands[o].pid) /\ HealthOk
         THEN /\ CommandEnds(o)
              /\ excused' = (excused \/ commands[o].pid \notin Serving)
         ELSE CommandStep(o, "give_up") /\ UNCHANGED excused
    /\ UNCHANGED <<procs, state_file, tunnel_file, unit, issued, events>>

Signal(p, why) == procs' = [procs EXCEPT ![p].term = IF @ = "no" THEN why ELSE @]

GiveUp(o) ==
    /\ AtStep(o, "give_up")
    /\ IF ProcessMatches(commands[o].pid) THEN Signal(commands[o].pid, "start")
                                          ELSE UNCHANGED procs
    /\ CommandStep(o, "unlink")
    /\ UNCHANGED <<state_file, tunnel_file, unit, excused, issued, events>>

Unlink(o) ==
    /\ AtStep(o, "unlink")
    /\ state_file' = NoPid
    /\ CommandEnds(o)
    /\ UNCHANGED <<procs, tunnel_file, unit, excused, issued, events>>

\* Where a command goes when ServiceManager.stop has ended.
AfterStop(o) ==
    CASE commands[o].name = "restart" -> CommandGoes(o, [commands[o] EXCEPT !.name = "start",
                                                                          !.step = "look"])
      [] commands[o].name = "install" -> CommandStep(o, "write_unit")
      [] OTHER -> CommandEnds(o)

\* ServiceManager.stop: the process that the state file names, if it is a gateway.
StopDetached(o) ==
    /\ \/ AtStep(o, "look") /\ commands[o].name \in {"stop", "restart"} /\ ~ManagesConfig
       \/ AtStep(o, "stop")
    /\ IF ProcessMatches(state_file)
         THEN /\ Signal(state_file, "stop")
              /\ CommandGoes(o, [commands[o] EXCEPT !.pid = state_file, !.step = "await_end"])
         ELSE AfterStop(o) /\ UNCHANGED procs
    /\ UNCHANGED <<state_file, tunnel_file, unit, excused, issued, events>>

\* Mutant: a process that does not end in time is left.
StopsHardNever(p) == FALSE

\* After 20 seconds SIGKILL ends what still matches.
StopsHard(p) == ProcessMatches(p)

AwaitEnd(o) ==
    /\ AtStep(o, "await_end")
    /\ IF StopsHard(commands[o].pid) THEN Ended(commands[o].pid, FALSE) ELSE UNCHANGED <<procs, unit>>
    /\ CommandStep(o, "clear_state")
    /\ UNCHANGED <<state_file, tunnel_file, excused, issued, events>>

ClearManagedState(o) ==
    /\ AtStep(o, "clear_state")
    /\ state_file' = NoPid /\ tunnel_file' = NoPid
    /\ AfterStop(o)
    /\ UNCHANGED <<procs, unit, excused, issued, events>>

-----------------------------------------------------------------------------
(* Commands under the supervisor                                           *)

\* start and restart: an unowned port refuses; the tunnel flag is rewritten when it differs.
LookSupervised(o) ==
    /\ AtStep(o, "look") /\ commands[o].name \in {"start", "restart"} /\ ManagesConfig
    /\ IF Unowned(SupervisedClassification) THEN CommandEnds(o) ELSE
         CommandGoes(o, [commands[o] EXCEPT
             !.supervised = SupervisedClassification = "supervised", !.step = "configure"])
    /\ UNCHANGED <<procs, state_file, tunnel_file, unit, excused, issued, events>>

ConfigureTunnel(o) ==
    /\ AtStep(o, "configure")
    /\ LET wanted == CASE commands[o].tunnel = "unset" -> unit.tunnel
                       [] OTHER -> commands[o].tunnel = "yes"
           changed == wanted # unit.tunnel
       IN  IF ~ManagesConfig THEN CommandEnds(o) /\ UNCHANGED unit
           ELSE /\ unit' = [unit EXCEPT !.tunnel = wanted]
                /\ CASE commands[o].name = "restart" -> CommandStep(o, "unit_restart")
                     [] commands[o].name = "start" /\ ~commands[o].supervised ->
                          CommandStep(o, "unit_start")
                     [] OTHER -> IF changed THEN CommandStep(o, "unit_restart")
                                            ELSE CommandEnds(o)
    /\ UNCHANGED <<procs, state_file, tunnel_file, excused, issued, events>>

\* systemctl start (after reset-failed).
UnitStart(o) ==
    /\ AtStep(o, "unit_start")
    /\ IF ManagesConfig
         THEN /\ unit' = [unit EXCEPT !.active = TRUE, !.failed = FALSE]
              /\ CommandStep(o, "unit_wait")
         ELSE CommandEnds(o) /\ UNCHANGED unit
    /\ UNCHANGED <<procs, state_file, tunnel_file, excused, issued, events>>

\* systemctl stop, also the first half of a restart: SIGTERM to the main process.
UnitStop(o) ==
    /\ AtStep(o, "unit_stop") \/ AtStep(o, "unit_restart")
    /\ IF ~ManagesConfig THEN CommandEnds(o) /\ UNCHANGED <<procs, unit>>
       ELSE /\ unit' = [unit EXCEPT !.active = FALSE]
            /\ IF unit.main # NoPid THEN Signal(unit.main, "stop") ELSE UNCHANGED procs
            /\ CommandStep(o, IF AtStep(o, "unit_restart") THEN "unit_gone_restart"
                                                          ELSE "unit_gone")
    /\ UNCHANGED <<state_file, tunnel_file, excused, issued, events>>

\* TimeoutStopSec: what has not ended by then is killed.
UnitGone(o) ==
    /\ AtStep(o, "unit_gone") \/ AtStep(o, "unit_gone_restart")
    /\ IF unit.main # NoPid /\ ~unit.active THEN Ended(unit.main, FALSE)
       ELSE UNCHANGED <<procs, unit>>
    /\ CASE AtStep(o, "unit_gone_restart") -> CommandStep(o, "unit_start")
         [] commands[o].name = "uninstall" -> CommandStep(o, "remove_unit")
         [] OTHER -> CommandEnds(o)
    /\ UNCHANGED <<state_file, tunnel_file, excused, issued, events>>

\* Local health, or 60 seconds without it.
UnitWait(o) ==
    /\ AtStep(o, "unit_wait")
    /\ CommandEnds(o)
    /\ UNCHANGED <<procs, state_file, tunnel_file, unit, excused, issued, events>>

LookToStop(o) ==
    /\ AtStep(o, "look") /\ commands[o].name = "stop" /\ ManagesConfig
    /\ CommandStep(o, "unit_stop")
    /\ UNCHANGED <<procs, state_file, tunnel_file, unit, excused, issued, events>>

\* install stops a managed process, leaves alone what it does not own, and only then
\* meets a unit of another configuration.
LookToInstall(o) ==
    /\ AtStep(o, "look") /\ commands[o].name = "install"
    /\ LET seen == IF ManagesConfig THEN SupervisedClassification ELSE Classification IN
       CASE unit.owner = "foreign" -> CommandEnds(o)
         [] unit.owner # "foreign" /\ seen = "supervised" ->
              CommandGoes(o, [commands[o] EXCEPT !.supervised = TRUE, !.step = "write_unit"])
         [] unit.owner # "foreign" /\ seen = "managed" -> CommandStep(o, "stop")
         [] unit.owner # "foreign" /\ seen \in {"unmanaged", "port_conflict"} -> CommandEnds(o)
         [] OTHER -> CommandStep(o, "write_unit")
    /\ UNCHANGED <<procs, state_file, tunnel_file, unit, excused, issued, events>>

WriteUnit(o) ==
    /\ AtStep(o, "write_unit")
    /\ IF unit.owner \in {"foreign", "other_config"} THEN CommandEnds(o) /\ UNCHANGED unit
       ELSE /\ unit' = [unit EXCEPT !.owner = "own", !.tunnel = commands[o].tunnel # "no"]
            /\ CommandStep(o, IF commands[o].supervised THEN "unit_restart" ELSE "unit_start")
    /\ UNCHANGED <<procs, state_file, tunnel_file, excused, issued, events>>

LookToUninstall(o) ==
    /\ AtStep(o, "look") /\ commands[o].name = "uninstall"
    /\ IF ManagesConfig THEN CommandStep(o, "unit_stop") ELSE CommandEnds(o)
    /\ UNCHANGED <<procs, state_file, tunnel_file, unit, excused, issued, events>>

RemoveUnit(o) ==
    /\ AtStep(o, "remove_unit")
    /\ unit' = [unit EXCEPT !.owner = "none", !.active = FALSE]
    /\ CommandEnds(o)
    /\ UNCHANGED <<procs, state_file, tunnel_file, excused, issued, events>>

\* Ctrl-C is no Exception: the command ends where it stands.
InterruptCommand(o) ==
    /\ commands[o] # NoCommand /\ Happens(1)
    /\ CommandEnds(o) /\ excused' = TRUE
    /\ UNCHANGED <<procs, state_file, tunnel_file, unit, issued>>

-----------------------------------------------------------------------------
CommandSteps(o) ==
    \/ LookDetached(o) \/ ClearState(o) \/ Spawn(o) \/ WriteState(o) \/ WaitForHealth(o)
    \/ GiveUp(o) \/ Unlink(o) \/ StopDetached(o) \/ AwaitEnd(o) \/ ClearManagedState(o)
    \/ LookSupervised(o) \/ ConfigureTunnel(o) \/ UnitStart(o) \/ UnitStop(o) \/ UnitGone(o)
    \/ UnitWait(o) \/ LookToStop(o) \/ LookToInstall(o) \/ WriteUnit(o) \/ LookToUninstall(o)
    \/ RemoveUnit(o)

\* A process goes on starting, or shuts down when it was told to.
Runs(p) == p \in DOMAIN procs /\ (OpenTunnel(p) \/ Bind(p) \/ ShutDown(p))

LifecycleNext ==
    \/ \E o \in Operator : Command(o) \/ CommandSteps(o) \/ InterruptCommand(o)
    \/ \E p \in Pid : Runs(p)
    \/ \E p \in DOMAIN procs : Die(p)
    \/ Stranger \/ UnitSpawn

LifecycleSpec == LifecycleInit /\ [][LifecycleNext]_lifecycleVars

\* Processes run, systemd restarts, commands go on until they end.
LifecycleFairness ==
    /\ \A p \in Pid : WF_lifecycleVars(Runs(p))
    /\ \A o \in Operator : WF_lifecycleVars(CommandSteps(o))
    /\ WF_lifecycleVars(UnitSpawn)

-----------------------------------------------------------------------------
(* Properties                                                              *)

\* When no command runs, a server that `service start` left serving is the one service.json
\* names, so that `service stop` can end it, unless commands overlapped, one was interrupted
\* or a start took another gateway's health for its own: failed starts, reused pids, a hanging
\* shutdown, strangers on the port and a unit that comes and goes never orphan one.
StartedServersAreManaged ==
    ~excused /\ (\A o \in Operator : commands[o] = NoCommand) =>
        \A p \in Serving : procs[p].by = "start" /\ procs[p].term # "start" => state_file = p

\* While the unit is active something comes to serve the port again after every crash, be it
\* a stranger that took it: automatic recovery (docs/operations.md) never gives up.
ActiveUnitRecovers == unit.active ~> (PortInUse \/ ~unit.active)
=============================================================================
