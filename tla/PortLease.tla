------------------------------ MODULE PortLease ------------------------------
(***************************************************************************)
(* UDP port leases: scripts/reserve-udp-ports.py, one reserver per run, as *)
(* the launcher's shell (brfid_reserve_udp_ports and its hand-over in      *)
(* scripts/lib/runtime.sh) starts, asks and stops it.                      *)
(*                                                                         *)
(* A reserver binds whatever port the kernel has free, and holds           *)
(* udp-<port>.lock/owner beside it for the time after it has given the     *)
(* socket up to a simulator.  Lock directories of dead runs are reclaimed, *)
(* without any lock around the reclaim but the bound socket itself.        *)
(*                                                                         *)
(* Both address families of a port are one socket here; a bind of the      *)
(* second that fails is a failure of Own.  Process identifiers are not     *)
(* reused.                                                                 *)
(***************************************************************************)
EXTENDS Naturals, FiniteSets

CONSTANTS Reservers,  \* runs, each a launcher with its reserver
          Ports,
          Count,      \* --count
          Attempts,   \* --attempts-per-port
          NoOne, NoPort

ASSUME RangeAssumption == Count \in Nat \ {0} /\ Attempts \in Nat \ {0}
ASSUME NamesAssumption == NoOne \notin Reservers /\ NoPort \notin Ports

VARIABLES
  pc,        \* where each reserver is
  trying,    \* the port it is claiming, or cleaning up
  claims,    \* the ports of its lists "locks" and "sockets"
  attempts,  \* how many ports it has tried for the present claim
  seen,      \* the owner it read from the lock it inspects
  released,  \* it has announced the hand-over
  stop,      \* its stop_requested
  launcher,  \* its launcher: "waiting" for the ready file, "asked" for the
             \* hand-over, "running" the simulators, "interrupted" while they
             \* run, "ending"; "orphans" when it was killed while they ran;
             \* and "over"
  given,     \* the ports its ready file names
  socket,    \* the reserver that has each port bound
  simulator, \* the run whose simulator has it bound
  lock,      \* the reserver that made udp-<port>.lock
  owner,     \* the reserver whose identifiers are in its owner file
  old        \* the directory was last changed an hour ago or more

mine == <<trying, claims, attempts, seen, released, stop>>
shell == <<launcher, given, simulator>>
locks == <<lock, owner, old>>
vars == <<pc, mine, shell, socket, locks>>

Over == {"done", "dead"}

(* pid_exists of a run's two recorded identifiers. *)
LauncherAlive(r) == launcher[r] \notin {"orphans", "over"}
Alive(r) == pc[r] \notin Over \/ LauncherAlive(r)

Free(p) == socket[p] = NoOne /\ simulator[p] = NoOne

Goto(r, next) == pc' = [pc EXCEPT ![r] = next]

(* What a process exit or close_sockets leaves of r's sockets. *)
Without(r) == [p \in Ports |-> IF socket[p] = r THEN NoOne ELSE socket[p]]

Init ==
  /\ pc = [r \in Reservers |-> "bind"]
  /\ trying = [r \in Reservers |-> NoPort]
  /\ claims = [r \in Reservers |-> {}]
  /\ attempts = [r \in Reservers |-> 0]
  /\ seen = [r \in Reservers |-> NoOne]
  /\ released = [r \in Reservers |-> FALSE]
  /\ stop = [r \in Reservers |-> FALSE]
  /\ launcher = [r \in Reservers |-> "waiting"]
  /\ given = [r \in Reservers |-> {}]
  /\ socket = [p \in Ports |-> NoOne]
  /\ simulator = [p \in Ports |-> NoOne]
  /\ lock = [p \in Ports |-> NoOne]
  /\ owner = [p \in Ports |-> NoOne]
  /\ old = [p \in Ports |-> FALSE]

------------------------------------------------------------------------------
(* claim_one *)

(* Mutant: the attempts are not counted. *)
BindForever(r) ==
  /\ pc[r] = "bind"
  /\ attempts' = [attempts EXCEPT ![r] = @ + 1]
  /\ \E p \in Ports : /\ Free(p)
                      /\ socket' = [socket EXCEPT ![p] = r]
                      /\ trying' = [trying EXCEPT ![r] = p]
  /\ Goto(r, "mkdir")
  /\ UNCHANGED <<claims, seen, released, stop, shell, locks>>

(* The kernel picks any free port. *)
Bind(r) ==
  /\ pc[r] = "bind" /\ attempts[r] < Attempts
  /\ attempts' = [attempts EXCEPT ![r] = @ + 1]
  /\ IF \E p \in Ports : Free(p)
     THEN \E p \in Ports :
            /\ Free(p)
            /\ socket' = [socket EXCEPT ![p] = r]
            /\ trying' = [trying EXCEPT ![r] = p]
            /\ Goto(r, "mkdir")
     ELSE UNCHANGED <<pc, trying, socket>>
  /\ UNCHANGED <<claims, seen, released, stop, shell, locks>>

(* "could not reserve another dual-stack UDP port" *)
RunOut(r) ==
  /\ pc[r] = "bind" /\ attempts[r] = Attempts
  /\ Goto(r, "close")
  /\ UNCHANGED <<mine, shell, socket, locks>>

MakeLock(r) ==
  /\ pc[r] = "mkdir"
  /\ LET p == trying[r]
     IN IF lock[p] = NoOne
        THEN /\ lock' = [lock EXCEPT ![p] = r]
             /\ old' = [old EXCEPT ![p] = FALSE]
             /\ Goto(r, "own")
        ELSE UNCHANGED <<lock, old>> /\ Goto(r, "read")
  /\ UNCHANGED <<mine, shell, socket, owner>>

(* Gives this port up and tries another. *)
Pass(r) == /\ socket' = [socket EXCEPT ![trying[r]] = NoOne]
           /\ trying' = [trying EXCEPT ![r] = NoPort]
           /\ Goto(r, "bind")

(* The second family, the owner file, its mode. *)
Own(r) ==
  /\ pc[r] = "own"
  /\ LET p == trying[r]
     IN \/ /\ lock[p] # NoOne
           /\ owner' = [owner EXCEPT ![p] = r]
           /\ old' = [old EXCEPT ![p] = FALSE]
           /\ claims' = [claims EXCEPT ![r] = @ \cup {p}]
           /\ trying' = [trying EXCEPT ![r] = NoPort]
           /\ attempts' = [attempts EXCEPT ![r] = 0]
           /\ Goto(r, IF Cardinality(claims'[r]) = Count THEN "ready" ELSE "bind")
           /\ UNCHANGED socket
        \/ /\ socket' = [socket EXCEPT ![p] = NoOne]
           /\ Goto(r, "undo")
           /\ UNCHANGED <<trying, claims, attempts, owner, old>>
  /\ UNCHANGED <<seen, released, stop, shell, lock>>

(* The except clause, after it closed the sockets. *)
UndoOwner(r) ==
  /\ pc[r] = "undo"
  /\ owner' = [owner EXCEPT ![trying[r]] = NoOne]
  /\ old' = [old EXCEPT ![trying[r]] = FALSE]
  /\ Goto(r, "undolock")
  /\ UNCHANGED <<mine, shell, socket, lock>>

(* EADDRINUSE and EACCES count as one more attempt; anything else ends it. *)
UndoLock(r) ==
  /\ pc[r] = "undolock"
  /\ LET p == trying[r]
     IN lock' = IF owner[p] = NoOne THEN [lock EXCEPT ![p] = NoOne] ELSE lock
  /\ trying' = [trying EXCEPT ![r] = NoPort]
  /\ \/ Goto(r, "bind")
     \/ Goto(r, "close")
  /\ UNCHANGED <<claims, attempts, seen, released, stop, shell, socket, owner,
                 old>>

------------------------------------------------------------------------------
(* reclaim_if_abandoned *)

ReadOwner(r) ==
  /\ pc[r] = "read"
  /\ seen' = [seen EXCEPT ![r] = owner[trying[r]]]
  /\ Goto(r, "judge")
  /\ UNCHANGED <<trying, claims, attempts, released, stop, shell, socket,
                 locks>>

(* Mutant: a lock without an owner is abandoned, however young. *)
AbandonedYoung(r) == IF seen[r] = NoOne THEN lock[trying[r]] # NoOne
                     ELSE ~Alive(seen[r])

(* Mutant: only the reserver's own identifier is looked at. *)
AbandonedByReserver(r) ==
  IF seen[r] = NoOne THEN lock[trying[r]] # NoOne /\ old[trying[r]]
  ELSE pc[seen[r]] \in Over

Abandoned(r) == IF seen[r] = NoOne THEN lock[trying[r]] # NoOne /\ old[trying[r]]
                ELSE ~Alive(seen[r])

JudgeLock(r) ==
  /\ pc[r] = "judge"
  /\ IF Abandoned(r)
     THEN Goto(r, "unlink") /\ UNCHANGED <<trying, socket>>
     ELSE Pass(r)
  /\ UNCHANGED <<claims, attempts, seen, released, stop, shell, locks>>

ReclaimOwner(r) ==
  /\ pc[r] = "unlink"
  /\ owner' = [owner EXCEPT ![trying[r]] = NoOne]
  /\ old' = [old EXCEPT ![trying[r]] = FALSE]
  /\ Goto(r, "rmdir")
  /\ UNCHANGED <<mine, shell, socket, lock>>

ReclaimLock(r) ==
  /\ pc[r] = "rmdir"
  /\ LET p == trying[r]
     IN IF lock[p] # NoOne /\ owner[p] = NoOne
        THEN /\ lock' = [lock EXCEPT ![p] = NoOne]
             /\ Goto(r, "remake")
             /\ UNCHANGED <<trying, socket>>
        ELSE Pass(r) /\ UNCHANGED lock
  /\ UNCHANGED <<claims, attempts, seen, released, stop, shell, owner, old>>

Remake(r) ==
  /\ pc[r] = "remake"
  /\ LET p == trying[r]
     IN IF lock[p] = NoOne
        THEN /\ lock' = [lock EXCEPT ![p] = r]
             /\ old' = [old EXCEPT ![p] = FALSE]
             /\ Goto(r, "own")
             /\ UNCHANGED socket
        ELSE /\ socket' = [socket EXCEPT ![p] = NoOne]
             /\ Goto(r, "undo")
             /\ UNCHANGED <<lock, old>>
  /\ UNCHANGED <<mine, shell, owner>>

------------------------------------------------------------------------------
(* main *)

WriteReady(r) ==
  /\ pc[r] = "ready"
  /\ \/ given' = [given EXCEPT ![r] = claims[r]] /\ Goto(r, "hold")
     \/ UNCHANGED given /\ Goto(r, "close")
  /\ UNCHANGED <<mine, launcher, simulator, socket, locks>>

(* Mutant: the reserver does not watch its owner. *)
LeaveOnRequest(r) ==
  /\ pc[r] = "hold" /\ stop[r]
  /\ Goto(r, "close")
  /\ UNCHANGED <<mine, shell, socket, locks>>

Leave(r) ==
  /\ pc[r] = "hold" /\ (stop[r] \/ ~LauncherAlive(r))
  /\ Goto(r, "close")
  /\ UNCHANGED <<mine, shell, socket, locks>>

(* Mutant: the locks go with the sockets. *)
HandOverAll(r) ==
  /\ pc[r] = "hold" /\ launcher[r] = "asked" /\ ~released[r]
  /\ socket' = Without(r)
  /\ lock' = [p \in Ports |-> IF lock[p] = r THEN NoOne ELSE lock[p]]
  /\ owner' = [p \in Ports |-> IF owner[p] = r THEN NoOne ELSE owner[p]]
  /\ Goto(r, "announce")
  /\ UNCHANGED <<mine, shell, old>>

(* close_sockets on SIGUSR1; the lock directories stay. *)
HandOver(r) ==
  /\ pc[r] = "hold" /\ launcher[r] = "asked" /\ ~released[r]
  /\ socket' = Without(r)
  /\ Goto(r, "announce")
  /\ UNCHANGED <<mine, shell, locks>>

Announce(r) ==
  /\ pc[r] = "announce"
  /\ \/ released' = [released EXCEPT ![r] = TRUE] /\ Goto(r, "hold")
     \/ UNCHANGED released /\ Goto(r, "close")
  /\ UNCHANGED <<trying, claims, attempts, seen, stop, shell, socket, locks>>

(* The finally clause: close_sockets, then cleanup_locks, lock by lock (in   *)
(* any order).                                                               *)
CloseSockets(r) ==
  /\ pc[r] = "close"
  /\ socket' = Without(r)
  /\ Goto(r, "clean")
  /\ UNCHANGED <<mine, shell, locks>>

CleanOwner(r) ==
  /\ pc[r] = "clean"
  /\ \E p \in claims[r] :
       /\ trying' = [trying EXCEPT ![r] = p]
       /\ claims' = [claims EXCEPT ![r] = @ \ {p}]
       /\ owner' = [owner EXCEPT ![p] = NoOne]
       /\ old' = [old EXCEPT ![p] = FALSE]
  /\ Goto(r, "cleanlock")
  /\ UNCHANGED <<attempts, seen, released, stop, shell, socket, lock>>

Exit(r) ==
  /\ pc[r] = "clean" /\ claims[r] = {}
  /\ Goto(r, "done")
  /\ UNCHANGED <<mine, shell, socket, locks>>

(* A directory that is not empty is an error out of the finally clause. *)
CleanLock(r) ==
  /\ pc[r] = "cleanlock"
  /\ LET p == trying[r]
     IN IF owner[p] = NoOne
        THEN lock' = [lock EXCEPT ![p] = NoOne] /\ Goto(r, "clean")
        ELSE UNCHANGED lock /\ Goto(r, "dead")
  /\ trying' = [trying EXCEPT ![r] = NoPort]
  /\ UNCHANGED <<claims, attempts, seen, released, stop, shell, socket, owner,
                 old>>

(* SIGKILL, a TERM before the handlers are in, or KILL after the shell's     *)
(* three seconds of patience.  The kernel closes the sockets.                *)
Kill(r) ==
  /\ pc[r] \notin Over
  /\ socket' = Without(r)
  /\ Goto(r, "dead")
  /\ UNCHANGED <<mine, shell, locks>>

------------------------------------------------------------------------------
(* The launcher.  It gives up on a timeout or on a reserver that has exited. *)

AskHandOver(r) ==
  /\ launcher[r] = "waiting" /\ given[r] # {}
  /\ launcher' = [launcher EXCEPT ![r] = "asked"]
  /\ UNCHANGED <<pc, mine, given, simulator, socket, locks>>

StartSimulators(r) ==
  /\ launcher[r] = "asked" /\ released[r]
  /\ launcher' = [launcher EXCEPT ![r] = "running"]
  /\ UNCHANGED <<pc, mine, given, simulator, socket, locks>>

(* A simulator binds its port, or fails and takes the run with it.           *)
SimulatorBinds(r) ==
  /\ launcher[r] \in {"running", "interrupted", "orphans"}
  /\ \E p \in given[r] : Free(p) /\ simulator' = [simulator EXCEPT ![p] = r]
  /\ UNCHANGED <<pc, mine, launcher, given, socket, locks>>

SimulatorsGone(r) == [p \in Ports |-> IF simulator[p] = r THEN NoOne
                                      ELSE simulator[p]]

(* A signal from the terminal reaches the whole process group: the reserver  *)
(* stops at once, the shell when the controller in its foreground has ended. *)
Interrupt(r) ==
  /\ launcher[r] = "running"
  /\ launcher' = [launcher EXCEPT ![r] = "interrupted"]
  /\ stop' = [stop EXCEPT ![r] = TRUE]
  /\ UNCHANGED <<pc, trying, claims, attempts, seen, released, given,
                 simulator, socket, locks>>

(* brfid_cleanup: the controller and its simulators first, then TERM for the *)
(* reserver.                                                                 *)
EndRun(r) ==
  /\ launcher[r] \in {"waiting", "asked", "running", "interrupted"}
  /\ launcher' = [launcher EXCEPT ![r] = "ending"]
  /\ simulator' = SimulatorsGone(r)
  /\ stop' = [stop EXCEPT ![r] = TRUE]
  /\ UNCHANGED <<pc, trying, claims, attempts, seen, released, given, socket,
                 locks>>

(* brfid_stop_pid_bounded returns when the reserver is gone. *)
ShellExits(r) ==
  /\ launcher[r] = "ending" /\ pc[r] \in Over
  /\ launcher' = [launcher EXCEPT ![r] = "over"]
  /\ UNCHANGED <<pc, mine, given, simulator, socket, locks>>

(* SIGKILL of the shell: a controller that was running goes on by itself.    *)
ShellKilled(r) ==
  /\ LauncherAlive(r)
  /\ launcher' = [launcher EXCEPT ![r] = IF @ \in {"running", "interrupted"}
                                        THEN "orphans" ELSE "over"]
  /\ UNCHANGED <<pc, mine, given, simulator, socket, locks>>

OrphansExit(r) ==
  /\ launcher[r] = "orphans"
  /\ launcher' = [launcher EXCEPT ![r] = "over"]
  /\ simulator' = SimulatorsGone(r)
  /\ UNCHANGED <<pc, mine, given, socket, locks>>

(* An hour passes for a lock without an owner file.  No reserver takes an    *)
(* hour between two calls, so the one that made the directory is gone.       *)
Age(p) ==
  /\ lock[p] # NoOne /\ pc[lock[p]] \in Over
  /\ owner[p] = NoOne /\ ~old[p]
  /\ old' = [old EXCEPT ![p] = TRUE]
  /\ UNCHANGED <<pc, mine, shell, socket, lock, owner>>

------------------------------------------------------------------------------
ClaimStep(r) == \/ Bind(r) \/ RunOut(r) \/ MakeLock(r) \/ Own(r)
                \/ UndoOwner(r) \/ UndoLock(r)

ReclaimStep(r) == \/ ReadOwner(r) \/ JudgeLock(r) \/ ReclaimOwner(r)
                  \/ ReclaimLock(r) \/ Remake(r)

MainStep(r) == \/ WriteReady(r) \/ Leave(r) \/ HandOver(r) \/ Announce(r)
               \/ CloseSockets(r) \/ CleanOwner(r) \/ CleanLock(r) \/ Exit(r)

ReserverStep(r) == ClaimStep(r) \/ ReclaimStep(r) \/ MainStep(r)

ShellStep(r) == \/ AskHandOver(r) \/ StartSimulators(r) \/ SimulatorBinds(r)
                \/ Interrupt(r) \/ EndRun(r) \/ ShellExits(r)
                \/ ShellKilled(r) \/ OrphansExit(r)

Next == \/ \E r \in Reservers : ReserverStep(r) \/ Kill(r) \/ ShellStep(r)
        \/ \E p \in Ports : Age(p)

Spec == Init /\ [][Next]_vars

(* A reserver that can go on does; nothing is assumed of the rest. *)
FairSpec == Spec /\ \A r \in Reservers : WF_vars(ReserverStep(r))

------------------------------------------------------------------------------
(* Properties. *)

Claiming == {"bind", "mkdir", "own", "undo", "undolock", "read", "judge",
             "unlink", "rmdir", "remake"}
Holding == {"ready", "hold", "announce"}
Leaving == {"close", "clean", "cleanlock"}

ReserversOK ==
  /\ pc \in [Reservers -> Claiming \cup Holding \cup Leaving \cup Over]
  /\ trying \in [Reservers -> Ports \cup {NoPort}]
  /\ claims \in [Reservers -> SUBSET Ports]
  /\ attempts \in [Reservers -> 0..Attempts]
  /\ seen \in [Reservers -> Reservers \cup {NoOne}]
  /\ released \in [Reservers -> BOOLEAN]
  /\ stop \in [Reservers -> BOOLEAN]

ShellsOK ==
  /\ launcher \in [Reservers -> {"waiting", "asked", "running", "interrupted",
                                 "ending", "orphans", "over"}]
  /\ given \in [Reservers -> SUBSET Ports]
  /\ simulator \in [Ports -> Reservers \cup {NoOne}]

LocksOK == /\ socket \in [Ports -> Reservers \cup {NoOne}]
           /\ lock \in [Ports -> Reservers \cup {NoOne}]
           /\ owner \in [Ports -> Reservers \cup {NoOne}]
           /\ old \in [Ports -> BOOLEAN]

(* Every variable keeps its type. *)
TypeOK == ReserversOK /\ ShellsOK /\ LocksOK

(* From its claim to its clean-up, and for a killed reserver as long as its  *)
(* launcher lives, a port in a reserver's list has that reserver's lock and  *)
(* owner file, however many others tried to reclaim it                       *)
(* (reserve-udp-ports.py:61-81, 118-161).                                    *)
ClaimsAreMarked ==
  \A r \in Reservers : Alive(r) =>
    \A p \in claims[r] : lock[p] = r /\ owner[p] = r

(* Two launchers that run their simulators never have a port in common,      *)
(* whatever became of their reservers: every run has its own "leased UDP     *)
(* ports" (docs/architecture.md:95).                                         *)
RunsDoNotShare ==
  \A r, q \in Reservers :
    r # q /\ launcher[r] = "running" /\ launcher[q] = "running"
      => given[r] \cap given[q] = {}

(* A reserver's lock directory goes only by its own hand or after its death, *)
(* and its owner file only by its own hand or after its launcher's death     *)
(* too, although the reclaim of another is three calls long                  *)
(* (reserve-udp-ports.py:61-81).                                             *)
LocksAreNotStolen ==
  [][\A p \in Ports, r \in Reservers :
       /\ lock[p] = r /\ lock'[p] # r => pc[r] \in Over \/ pc'[r] # pc[r]
       /\ owner[p] = r /\ owner'[p] # r => ~Alive(r) \/ pc'[r] # pc[r]]_vars

(* A reserver whose launcher is gone comes to an end, whatever it was doing. *)
ReserversEnd ==
  \A r \in Reservers : ~LauncherAlive(r) ~> pc[r] \in Over

(* "for port in ports: ... ipv4.bind" after the hand-over                     *)
(* (tests/test_tools.py:629-633): a port handed over is free for the run's   *)
(* simulator.  It fails while another reserver looks at the port's lock.     *)
HandedOverIsFree ==
  \A r \in Reservers : launcher[r] = "running" =>
    \A p \in given[r] : socket[p] = NoOne

==============================================================================
