---------------------------- MODULE PortLeaseProofs ----------------------------
(***************************************************************************)
(* LockInv and GivenIsHeld are inductive, for any number of runs and       *)
(* ports: no lock of a live run is ever reclaimed, and no two runs are     *)
(* given one port.                                                         *)
(***************************************************************************)
EXTENDS PortLeaseInvariant, TLAPS

(* Every step of a reserver keeps the types. *)
LEMMA ReserverTypes ==
  ASSUME TypeOK, Occupied, WorksOnItsOwn, NEW r \in Reservers,
         ReserverStep(r) \/ Kill(r)
  PROVE  TypeOK'
<1> USE DEF TypeOK, ReserversOK, ShellsOK, LocksOK, mine, shell, locks,
        Goto, Claiming, Holding, Leaving, Over
<1>1. CASE Bind(r)
  BY <1>1, RangeAssumption, SMTT(30) DEF Bind
<1>2. CASE RunOut(r)
  BY <1>2 DEF RunOut
<1>3. CASE MakeLock(r)
  <2>1. trying[r] \in Ports
    BY <1>3 DEF MakeLock, Occupied, AtPort
  <2>2. ReserversOK'
    BY <1>3, <2>1 DEF MakeLock
  <2>3. ShellsOK'
    BY <1>3 DEF MakeLock
  <2>4. LocksOK'
    BY <1>3, <2>1 DEF MakeLock
  <2> QED BY <2>2, <2>3, <2>4
<1>4. CASE Own(r)
  <2>1. trying[r] \in Ports
    BY <1>4 DEF Own, Occupied, AtPort
  <2>2. ReserversOK'
    BY <1>4, <2>1, RangeAssumption DEF Own
  <2>3. ShellsOK'
    BY <1>4 DEF Own
  <2>4. LocksOK'
    <3>1. \/ /\ owner' = [owner EXCEPT ![trying[r]] = r]
             /\ old' = [old EXCEPT ![trying[r]] = FALSE]
             /\ socket' = socket
          \/ /\ socket' = [socket EXCEPT ![trying[r]] = NoOne]
             /\ owner' = owner /\ old' = old
      BY <1>4 DEF Own
    <3>2. lock' = lock
      BY <1>4 DEF Own
    <3>3. owner' \in [Ports -> Reservers \cup {NoOne}]
      BY <2>1, <3>1
    <3>4. old' \in [Ports -> BOOLEAN]
      <4>1. old' = old \/ old' = [old EXCEPT ![trying[r]] = FALSE]
        BY <3>1
      <4> QED BY <4>1
    <3>5. socket' \in [Ports -> Reservers \cup {NoOne}]
      BY <2>1, <3>1
    <3> QED BY <3>2, <3>3, <3>4, <3>5
  <2> QED BY <2>2, <2>3, <2>4
<1>5. CASE UndoOwner(r)
  BY <1>5 DEF UndoOwner, WorksOnItsOwn, WithLock
<1>6. CASE UndoLock(r)
  BY <1>6 DEF UndoLock, WorksOnItsOwn, WithLock
<1>7. CASE ReadOwner(r)
  BY <1>7 DEF ReadOwner, Occupied, AtPort
<1>8. CASE JudgeLock(r)
  BY <1>8 DEF JudgeLock, Occupied, AtPort, Pass
<1>9. CASE ReclaimOwner(r)
  BY <1>9 DEF ReclaimOwner, Occupied, AtPort
<1>10. CASE ReclaimLock(r)
  BY <1>10 DEF ReclaimLock, Occupied, AtPort, Pass
<1>11. CASE Remake(r)
  <2>1. trying[r] \in Ports
    BY <1>11 DEF Remake, Occupied, AtPort
  <2>2. ReserversOK'
    BY <1>11, <2>1 DEF Remake
  <2>3. ShellsOK'
    BY <1>11 DEF Remake
  <2>4. LocksOK'
    BY <1>11, <2>1 DEF Remake
  <2> QED BY <2>2, <2>3, <2>4
<1>12. CASE WriteReady(r)
  BY <1>12, ZenonT(40) DEF WriteReady
<1>13. CASE Leave(r)
  BY <1>13 DEF Leave
<1>14. CASE HandOver(r)
  BY <1>14 DEF HandOver, Without
<1>15. CASE Announce(r)
  BY <1>15 DEF Announce
<1>16. CASE CloseSockets(r)
  BY <1>16 DEF CloseSockets, Without
<1>17. CASE CleanOwner(r)
  BY <1>17 DEF CleanOwner
<1>18. CASE CleanLock(r)
  BY <1>18 DEF CleanLock, WorksOnItsOwn, WithLock
<1>19. CASE Exit(r)
  BY <1>19 DEF Exit
<1>20. CASE Kill(r)
  BY <1>20 DEF Kill, Without
<1> QED BY <1>1, <1>2, <1>3, <1>4, <1>5, <1>6, <1>7, <1>8, <1>9, <1>10, <1>11, <1>12, <1>13, <1>14, <1>15, <1>16, <1>17, <1>18, <1>19, <1>20
        DEF ReserverStep, ClaimStep, ReclaimStep, MainStep

LEMMA ShellTypes ==
  ASSUME TypeOK,
         \/ \E r \in Reservers : ShellStep(r)
         \/ \E p \in Ports : Age(p)
  PROVE  TypeOK'
<1> USE DEF TypeOK, ReserversOK, ShellsOK, LocksOK, mine, shell, locks
<1>1. CASE \E p \in Ports : Age(p)
  BY <1>1 DEF Age
<1>2. ASSUME NEW r \in Reservers, ShellStep(r)
      PROVE  TypeOK'
  <2>1. CASE AskHandOver(r) \/ StartSimulators(r) \/ ShellExits(r) \/ ShellKilled(r)
    BY <2>1 DEF AskHandOver, StartSimulators, ShellExits, ShellKilled
  <2>2. CASE SimulatorBinds(r)
    BY <2>2 DEF SimulatorBinds
  <2>3. CASE Interrupt(r)
    BY <2>3 DEF Interrupt
  <2>4. CASE EndRun(r) \/ OrphansExit(r)
    BY <2>4 DEF EndRun, OrphansExit, SimulatorsGone
  <2> QED BY <1>2, <2>1, <2>2, <2>3, <2>4 DEF ShellStep
<1> QED BY <1>1, <1>2

------------------------------------------------------------------------------
(* Who has ended does not come back. *)
LEMMA TheDeadStayDead ==
  ASSUME TypeOK, [Next]_vars, NEW q \in Reservers
  PROVE  /\ pc[q] \in Over => pc'[q] \in Over
         /\ ~LauncherAlive(q) => ~LauncherAlive(q)'
         /\ ~Alive(q) => ~Alive(q)'
<1> USE DEF TypeOK, ReserversOK, ShellsOK, mine, shell, Goto, Over, LauncherAlive
<1>1. CASE UNCHANGED vars
  BY <1>1 DEF vars, Alive
<1>2. ASSUME NEW r \in Reservers, ReserverStep(r) \/ Kill(r)
      PROVE  pc'[q] = pc[q] \/ (q = r /\ pc[r] \notin Over)
  BY <1>2 DEF ReserverStep, ClaimStep, ReclaimStep, MainStep, Kill, Bind, RunOut,
     MakeLock, Own, UndoOwner, UndoLock, ReadOwner, JudgeLock, Pass, ReclaimOwner,
     ReclaimLock, Remake, WriteReady, Leave, HandOver, Announce, CloseSockets,
     CleanOwner, CleanLock, Exit
<1>3. ASSUME NEW r \in Reservers, ReserverStep(r) \/ Kill(r)
      PROVE  launcher' = launcher
  BY <1>3 DEF ReserverStep, ClaimStep, ReclaimStep, MainStep, Kill, Bind, RunOut,
     MakeLock, Own, UndoOwner, UndoLock, ReadOwner, JudgeLock, Pass, ReclaimOwner,
     ReclaimLock, Remake, WriteReady, Leave, HandOver, Announce, CloseSockets,
     CleanOwner, CleanLock, Exit
<1>4. ASSUME NEW r \in Reservers, ShellStep(r)
      PROVE  pc' = pc /\ (~LauncherAlive(q) => ~LauncherAlive(q)')
  BY <1>4 DEF ShellStep, AskHandOver, StartSimulators, SimulatorBinds, Interrupt,
     EndRun, ShellExits, ShellKilled, OrphansExit
<1>5. ASSUME NEW p \in Ports, Age(p)
      PROVE  UNCHANGED <<pc, launcher>>
  BY <1>5 DEF Age
<1> QED BY <1>1, <1>2, <1>3, <1>4, <1>5 DEF Next, Alive

------------------------------------------------------------------------------
(* LockInv, by what a step does to the lock directories. *)

Others(r) == \A q \in Reservers \ {r} :
               /\ pc'[q] = pc[q] /\ trying'[q] = trying[q] /\ seen'[q] = seen[q]
               /\ \A p \in Ports : socket[p] = q => socket'[p] = q

NobodyRevives ==
  \A q \in Reservers : /\ pc[q] \in Over => pc'[q] \in Over
                       /\ ~Alive(q) => ~Alive(q)'

(* A step of one reserver that leaves locks, owners and claims as they are. *)
LEMMA LocksUntouched ==
  ASSUME LockInv, TypeOK', NEW r \in Reservers, Others(r), NobodyRevives,
         UNCHANGED <<locks, claims>>,
         pc'[r] \in AtPort => trying'[r] \in Ports /\ socket'[trying'[r]] = r,
         pc'[r] \notin WithLock \cup {"rmdir", "remake"},
         pc'[r] = "judge" => seen'[r] = owner[trying'[r]],
         pc'[r] = "unlink" => Condemned(trying'[r])
  PROVE  LockInv'
<1> USE DEF LockInv, locks, Others, NobodyRevives
<1>0. NoOne \notin Reservers
  BY NamesAssumption
<1>1. Occupied'
  BY DEF Occupied, TypeOK, LocksOK
<1>2. WorksOnItsOwn'
  BY DEF WorksOnItsOwn
<1>3. OwnersMadeLocks'
  BY DEF OwnersMadeLocks
<1>4. OldIsAbandoned'
  BY <1>0 DEF OldIsAbandoned, TypeOK, LocksOK
<1>5. \A p \in Ports : lock[p] # NoOne /\ owner[p] # NoOne =>
        lock[p] \in Reservers /\ owner[p] \in Reservers
  BY DEF TypeOK, LocksOK
<1>6. SeenMayGo'
  BY <1>1, <1>5 DEF SeenMayGo, OwnersMadeLocks, Occupied, AtPort
<1>7. \A p \in Ports : Condemned(p) => Condemned(p)'
  BY <1>5 DEF Condemned, TypeOK, LocksOK
<1>8. ReclaimsAreSafe'
  BY <1>1, <1>7 DEF ReclaimsAreSafe, Occupied, AtPort, WithLock
<1>9. ClaimsAreMarked'
  BY DEF ClaimsAreMarked
<1> QED BY <1>1, <1>2, <1>3, <1>4, <1>6, <1>8, <1>9

(* mkdir of a lock directory that is not there, by whoever has the socket. *)
LEMMA LockMade ==
  ASSUME LockInv, TypeOK', NEW r \in Reservers, NEW p \in Ports,
         trying[r] = p, pc[r] \in AtPort, lock[p] = NoOne,
         lock' = [lock EXCEPT ![p] = r], old' = [old EXCEPT ![p] = FALSE],
         pc' = [pc EXCEPT ![r] = "own"], UNCHANGED <<mine, shell, socket, owner>>
  PROVE  LockInv'
<1> USE DEF LockInv, mine
<1>0. /\ pc \in [Reservers -> Claiming \cup Holding \cup Leaving \cup Over]
      /\ lock \in [Ports -> Reservers \cup {NoOne}] /\ old \in [Ports -> BOOLEAN]
      /\ socket[p] = r
  BY DEF TypeOK, ReserversOK, LocksOK, Occupied
<1>1. owner[p] = NoOne
  BY NamesAssumption DEF OwnersMadeLocks
<1>2. \A q \in Reservers \ {r} : pc[q] \in AtPort => trying[q] # p
  BY <1>0 DEF Occupied
<1>3. Occupied'
  BY <1>0 DEF Occupied, AtPort
<1>4. WorksOnItsOwn'
  BY <1>0, <1>1, NamesAssumption DEF WorksOnItsOwn
<1>5. OwnersMadeLocks'
  BY <1>0, <1>1 DEF OwnersMadeLocks
<1>6. OldIsAbandoned'
  BY <1>0, NamesAssumption DEF OldIsAbandoned, AtPort, Over
<1>7. SeenMayGo'
  BY <1>0, <1>2 DEF SeenMayGo, AtPort
<1>8. ReclaimsAreSafe'
  <2>1. \A q \in Reservers \ {r} : pc[q] \in {"unlink", "rmdir", "remake"} =>
          trying[q] # p /\ trying[q] \in Ports
    BY <1>2 DEF AtPort, Occupied
  <2>2. \A x \in Ports \ {p} : Condemned(x) => Condemned(x)'
    BY <1>0 DEF Condemned, Alive, LauncherAlive, shell, AtPort, Over
  <2> QED BY <1>0, <2>1, <2>2 DEF ReclaimsAreSafe
<1>9. ClaimsAreMarked'
  BY <1>0, NamesAssumption DEF ClaimsAreMarked, Alive, LauncherAlive, shell, AtPort, Over
<1> QED BY <1>3, <1>4, <1>5, <1>6, <1>7, <1>8, <1>9

(* The owner file goes in: the claim stands. *)
LEMMA LockOwned ==
  ASSUME LockInv, TypeOK', NEW r \in Reservers, NEW p \in Ports,
         trying[r] = p, pc[r] = "own", pc' = [pc EXCEPT ![r] = pc'[r]],
         pc'[r] \in {"ready", "bind"},
         owner' = [owner EXCEPT ![p] = r], old' = [old EXCEPT ![p] = FALSE],
         claims' = [claims EXCEPT ![r] = @ \cup {p}],
         trying' = [trying EXCEPT ![r] = NoPort],
         UNCHANGED <<seen, shell, socket, lock>>
  PROVE  LockInv'
<1> USE DEF LockInv
<1>0. /\ pc \in [Reservers -> Claiming \cup Holding \cup Leaving \cup Over]
      /\ trying \in [Reservers -> Ports \cup {NoPort}]
      /\ claims \in [Reservers -> SUBSET Ports]
      /\ owner \in [Ports -> Reservers \cup {NoOne}] /\ old \in [Ports -> BOOLEAN]
      /\ lock \in [Ports -> Reservers \cup {NoOne}]
      /\ socket[p] = r /\ lock[p] = r
  BY DEF TypeOK, ReserversOK, LocksOK, Occupied, AtPort, WorksOnItsOwn, WithLock
<1>2. \A q \in Reservers \ {r} : pc[q] \in AtPort \cup WithLock => trying[q] # p
  BY <1>0 DEF Occupied, WorksOnItsOwn
<1>3. Occupied'
  BY <1>0 DEF Occupied, AtPort
<1>4. WorksOnItsOwn'
  BY <1>0, <1>2 DEF WorksOnItsOwn, WithLock
<1>5. OwnersMadeLocks'
  BY <1>0 DEF OwnersMadeLocks
<1>6. OldIsAbandoned'
  BY <1>0 DEF OldIsAbandoned, Over
<1>7. SeenMayGo'
  BY <1>0, <1>2 DEF SeenMayGo, Occupied, AtPort
<1>8. ReclaimsAreSafe'
  <2>1. \A q \in Reservers \ {r} : pc[q] \in {"unlink", "rmdir", "remake"} =>
          trying[q] # p /\ trying[q] \in Ports
    BY <1>2 DEF AtPort, Occupied
  <2>2. \A x \in Ports \ {p} : Condemned(x) => Condemned(x)'
    BY <1>0 DEF Condemned, Alive, LauncherAlive, shell, Over
  <2> QED BY <1>0, <2>1, <2>2 DEF ReclaimsAreSafe
<1>9. ClaimsAreMarked'
  <2> SUFFICES ASSUME NEW q \in Reservers, Alive(q)', NEW x \in claims'[q]
               PROVE  lock'[x] = q /\ owner'[x] = q
    BY DEF ClaimsAreMarked
  <2>1. Alive(q)
    BY <1>0 DEF Alive, LauncherAlive, shell, Over
  <2>2. CASE x \in claims[q]
    BY <1>0, <2>1, <2>2 DEF ClaimsAreMarked
  <2>3. CASE x \notin claims[q]
    BY <1>0, <2>3
  <2> QED BY <2>2, <2>3
<1> QED BY <1>3, <1>4, <1>5, <1>6, <1>7, <1>8, <1>9

(* The claim fails after its mkdir: the sockets are closed. *)
LEMMA ClaimFails ==
  ASSUME LockInv, TypeOK', NEW r \in Reservers, pc[r] = "own",
         pc' = [pc EXCEPT ![r] = "undo"],
         socket' = [socket EXCEPT ![trying[r]] = NoOne],
         UNCHANGED <<mine, shell, locks>>
  PROVE  LockInv'
<1> USE DEF LockInv, mine, locks
<1>0. /\ pc \in [Reservers -> Claiming \cup Holding \cup Leaving \cup Over]
      /\ socket \in [Ports -> Reservers \cup {NoOne}]
      /\ lock \in [Ports -> Reservers \cup {NoOne}]
      /\ trying[r] \in Ports /\ socket[trying[r]] = r
  BY DEF TypeOK, ReserversOK, LocksOK, Occupied, AtPort
<1>1. Occupied'
  BY <1>0 DEF Occupied, AtPort
<1>2. WorksOnItsOwn'
  BY <1>0 DEF WorksOnItsOwn, WithLock
<1>3. OwnersMadeLocks'
  BY DEF OwnersMadeLocks
<1>4. OldIsAbandoned'
  BY <1>0 DEF OldIsAbandoned, Over
<1>5. SeenMayGo'
  BY <1>0 DEF SeenMayGo
<1>6. ReclaimsAreSafe'
  <2>1. \A x \in Ports : Condemned(x) => Condemned(x)'
    BY <1>0 DEF Condemned, Alive, LauncherAlive, shell, Over
  <2> QED BY <1>0, <2>1 DEF ReclaimsAreSafe, Occupied, AtPort
<1>7. ClaimsAreMarked'
  BY <1>0 DEF ClaimsAreMarked, Alive, LauncherAlive, shell, Over
<1> QED BY <1>1, <1>2, <1>3, <1>4, <1>5, <1>6, <1>7

(* A living reserver takes the owner file out of its own lock. *)
LEMMA OwnerTakenOut ==
  ASSUME LockInv, TypeOK', NEW r \in Reservers, NEW p \in Ports,
         lock[p] = r, pc[r] \in {"undo", "clean"},
         pc' = [pc EXCEPT ![r] = pc'[r]], pc'[r] \in {"undolock", "cleanlock"},
         trying' = [trying EXCEPT ![r] = p],
         claims' = [claims EXCEPT ![r] = @ \ {p}],
         owner' = [owner EXCEPT ![p] = NoOne], old' = [old EXCEPT ![p] = FALSE],
         UNCHANGED <<seen, shell, socket, lock>>
  PROVE  LockInv'
<1> USE DEF LockInv
<1>0. /\ pc \in [Reservers -> Claiming \cup Holding \cup Leaving \cup Over]
      /\ trying \in [Reservers -> Ports \cup {NoPort}]
      /\ claims \in [Reservers -> SUBSET Ports]
      /\ lock \in [Ports -> Reservers \cup {NoOne}]
      /\ owner \in [Ports -> Reservers \cup {NoOne}] /\ old \in [Ports -> BOOLEAN]
  BY DEF TypeOK, ReserversOK, LocksOK
<1>1. Occupied'
  BY <1>0 DEF Occupied, AtPort
<1>2. WorksOnItsOwn'
  BY <1>0 DEF WorksOnItsOwn, WithLock
<1>3. OwnersMadeLocks'
  BY <1>0 DEF OwnersMadeLocks
<1>4. OldIsAbandoned'
  BY <1>0 DEF OldIsAbandoned, Over
<1>5. SeenMayGo'
  BY <1>0 DEF SeenMayGo, Occupied, AtPort
<1>6. ReclaimsAreSafe'
  <2>1. \A x \in Ports : Condemned(x) => Condemned(x)'
    BY <1>0 DEF Condemned, Alive, LauncherAlive, shell, Over
  <2> QED BY <1>0, <2>1 DEF ReclaimsAreSafe, Occupied, AtPort
<1>7. ClaimsAreMarked'
  <2> SUFFICES ASSUME NEW q \in Reservers, Alive(q)', NEW x \in claims'[q]
               PROVE  lock'[x] = q /\ owner'[x] = q
    BY DEF ClaimsAreMarked
  <2>1. Alive(q) /\ x \in claims[q]
    BY <1>0 DEF Alive, LauncherAlive, shell, Over
  <2>2. lock[x] = q /\ owner[x] = q /\ x \in Ports
    BY <1>0, <2>1 DEF ClaimsAreMarked
  <2>3. x # p
    BY <1>0, <2>2
  <2> QED BY <1>0, <2>2, <2>3
<1> QED BY <1>1, <1>2, <1>3, <1>4, <1>5, <1>6, <1>7

(* rmdir of a lock without an owner file, its maker's own or a condemned one. *)
LEMMA LockTakenAway ==
  ASSUME LockInv, TypeOK', NEW r \in Reservers, NEW p \in Ports,
         trying[r] = p, owner[p] = NoOne, pc[r] \notin Over,
         \/ pc'[r] \in {"bind", "close", "clean"}
         \/ pc[r] = "rmdir" /\ pc'[r] = "remake" /\ trying' = trying,
         pc' = [pc EXCEPT ![r] = pc'[r]], lock' = [lock EXCEPT ![p] = NoOne],
         pc[r] \in WithLock \/ Condemned(p),
         Others(r), UNCHANGED <<claims, shell, socket, owner, old>>
  PROVE  LockInv'
<1> USE DEF LockInv
<1>0. /\ pc \in [Reservers -> Claiming \cup Holding \cup Leaving \cup Over]
      /\ lock \in [Ports -> Reservers \cup {NoOne}]
      /\ owner \in [Ports -> Reservers \cup {NoOne}]
      /\ claims \in [Reservers -> SUBSET Ports]
  BY DEF TypeOK, ReserversOK, LocksOK
<1>1. lock[p] = r \/ Condemned(p)
  BY DEF WorksOnItsOwn
<1>2. Occupied'
  BY <1>0 DEF Occupied, AtPort, Others
<1>3. WorksOnItsOwn'
  <2> SUFFICES ASSUME NEW q \in Reservers, pc'[q] \in WithLock
               PROVE  /\ trying'[q] \in Ports
                      /\ lock'[trying'[q]] = q /\ owner'[trying'[q]] = NoOne
    BY DEF WorksOnItsOwn
  <2>1. q # r
    BY DEF WithLock
  <2>2. pc[q] \in WithLock /\ trying'[q] = trying[q]
    BY <2>1 DEF Others
  <2>3. trying[q] \in Ports /\ lock[trying[q]] = q /\ owner[trying[q]] = NoOne
    BY <2>2 DEF WorksOnItsOwn
  <2>4. trying[q] # p
    BY <1>1, <2>1, <2>2, <2>3, NamesAssumption DEF Condemned, WithLock, Over
  <2> QED BY <1>0, <2>2, <2>3, <2>4
<1>4. OwnersMadeLocks'
  BY <1>0 DEF OwnersMadeLocks
<1>5. OldIsAbandoned'
  BY <1>0 DEF OldIsAbandoned, Over
<1>6. SeenMayGo'
  BY <1>0 DEF SeenMayGo, Occupied, AtPort, Others
<1>7. ReclaimsAreSafe'
  <2>1. \A q \in Reservers : /\ pc[q] \in Over => pc'[q] \in Over
                             /\ ~Alive(q) => ~Alive(q)'
    BY <1>0 DEF Alive, LauncherAlive, shell, Over
  <2>2. \A x \in Ports : Condemned(x) => Condemned(x)'
    BY <1>0, <2>1 DEF Condemned
  <2> QED BY <1>0, <2>2 DEF ReclaimsAreSafe, Occupied, AtPort, Others
<1>8. ClaimsAreMarked'
  <2> SUFFICES ASSUME NEW q \in Reservers, Alive(q)', NEW x \in claims[q]
               PROVE  lock'[x] = q /\ owner[x] = q
    BY DEF ClaimsAreMarked
  <2>1. Alive(q)
    BY <1>0 DEF Alive, LauncherAlive, shell, Over
  <2>2. lock[x] = q /\ owner[x] = q /\ x \in Ports
    BY <1>0, <2>1 DEF ClaimsAreMarked
  <2>3. x # p
    BY <2>2, NamesAssumption
  <2> QED BY <1>0, <2>2, <2>3
<1> QED BY <1>2, <1>3, <1>4, <1>5, <1>6, <1>7, <1>8

(* reclaim_if_abandoned unlinks the owner file of a condemned lock. *)
LEMMA OwnerReclaimed ==
  ASSUME LockInv, TypeOK', NEW r \in Reservers, ReclaimOwner(r)
  PROVE  LockInv'
<1> USE DEF LockInv, ReclaimOwner, Goto, mine
<1>0. /\ pc \in [Reservers -> Claiming \cup Holding \cup Leaving \cup Over]
      /\ claims \in [Reservers -> SUBSET Ports]
      /\ lock \in [Ports -> Reservers \cup {NoOne}]
      /\ owner \in [Ports -> Reservers \cup {NoOne}] /\ old \in [Ports -> BOOLEAN]
      /\ trying[r] \in Ports /\ Condemned(trying[r])
  BY DEF TypeOK, ReserversOK, LocksOK, Occupied, AtPort, ReclaimsAreSafe
<1>1. \A q \in Reservers : /\ pc[q] \in Over => pc'[q] \in Over
                           /\ Alive(q)' <=> Alive(q)
  BY <1>0 DEF Alive, LauncherAlive, shell, Over
<1>2. Occupied'
  BY <1>0 DEF Occupied, AtPort
<1>3. WorksOnItsOwn'
  BY <1>0 DEF WorksOnItsOwn, WithLock
<1>4. OwnersMadeLocks'
  BY <1>0 DEF OwnersMadeLocks
<1>5. OldIsAbandoned'
  BY <1>0, <1>1 DEF OldIsAbandoned
<1>6. SeenMayGo'
  BY <1>0 DEF SeenMayGo, Occupied, AtPort
<1>7. ReclaimsAreSafe'
  <2>1. \A x \in Ports : Condemned(x) => Condemned(x)'
    BY <1>0, <1>1 DEF Condemned
  <2> QED BY <1>0, <2>1 DEF ReclaimsAreSafe, Occupied, AtPort
<1>8. ClaimsAreMarked'
  <2> SUFFICES ASSUME NEW q \in Reservers, Alive(q), NEW x \in claims[q]
               PROVE  lock[x] = q /\ owner'[x] = q
    BY <1>1 DEF ClaimsAreMarked
  <2>1. lock[x] = q /\ owner[x] = q /\ x \in Ports
    BY <1>0 DEF ClaimsAreMarked
  <2>2. x # trying[r]
    BY <1>0, <2>1, NamesAssumption DEF Condemned
  <2> QED BY <1>0, <2>1, <2>2
<1> QED BY <1>2, <1>3, <1>4, <1>5, <1>6, <1>7, <1>8

(* A reserver's step, sorted by what it does to the lock directories. *)
LEMMA ReserverLocks ==
  ASSUME LockInv, TypeOK', NEW r \in Reservers, ReserverStep(r) \/ Kill(r),
         NobodyRevives
  PROVE  LockInv'
<1>0. /\ pc \in [Reservers -> Claiming \cup Holding \cup Leaving \cup Over]
      /\ trying \in [Reservers -> Ports \cup {NoPort}]
      /\ claims \in [Reservers -> SUBSET Ports]
      /\ seen \in [Reservers -> Reservers \cup {NoOne}]
      /\ socket \in [Ports -> Reservers \cup {NoOne}]
      /\ lock \in [Ports -> Reservers \cup {NoOne}]
      /\ owner \in [Ports -> Reservers \cup {NoOne}] /\ old \in [Ports -> BOOLEAN]
  BY DEF LockInv, TypeOK, ReserversOK, LocksOK
<1>1. pc[r] \in AtPort => trying[r] \in Ports /\ socket[trying[r]] = r
  BY DEF LockInv, Occupied
<1>2. pc[r] \in WithLock =>
        trying[r] \in Ports /\ lock[trying[r]] = r /\ owner[trying[r]] = NoOne
  BY DEF LockInv, WorksOnItsOwn
<1> USE DEF Goto, mine, locks
<1>3. CASE Bind(r)
  BY <1>0, <1>3, NamesAssumption, LocksUntouched
  DEF Bind, Others, Free, AtPort, WithLock
<1>4. CASE RunOut(r) \/ WriteReady(r) \/ Leave(r) \/ Announce(r) \/ Exit(r)
  BY <1>0, <1>4, LocksUntouched
  DEF RunOut, WriteReady, Leave, Announce, Exit, Others, AtPort, WithLock
<1>5. CASE HandOver(r) \/ CloseSockets(r) \/ Kill(r)
  BY <1>0, <1>5, LocksUntouched
  DEF HandOver, CloseSockets, Kill, Without, Others, AtPort, WithLock
<1>6. CASE MakeLock(r)
  <2>1. CASE lock[trying[r]] = NoOne
    BY <1>1, <1>6, <2>1, LockMade DEF MakeLock, AtPort
  <2>2. CASE lock[trying[r]] # NoOne
    BY <1>0, <1>1, <1>6, <2>2, LocksUntouched DEF MakeLock, Others, AtPort, WithLock
  <2> QED BY <2>1, <2>2
<1>7. CASE Own(r)
  <2>1. pc[r] = "own" /\ trying[r] \in Ports
    BY <1>1, <1>7 DEF Own, AtPort
  <2>2. CASE /\ owner' = [owner EXCEPT ![trying[r]] = r]
             /\ old' = [old EXCEPT ![trying[r]] = FALSE]
             /\ claims' = [claims EXCEPT ![r] = @ \cup {trying[r]}]
             /\ trying' = [trying EXCEPT ![r] = NoPort]
             /\ pc' = [pc EXCEPT ![r] = IF Cardinality(claims'[r]) = Count
                                       THEN "ready" ELSE "bind"]
             /\ UNCHANGED socket
    <3>1. pc'[r] \in {"ready", "bind"} /\ pc' = [pc EXCEPT ![r] = pc'[r]]
      BY <1>0, <2>2
    <3>2. UNCHANGED <<seen, shell, socket, lock>>
      BY <1>7, <2>2 DEF Own
    <3> QED BY <2>1, <2>2, <3>1, <3>2, LockOwned
  <2>3. CASE /\ socket' = [socket EXCEPT ![trying[r]] = NoOne]
             /\ pc' = [pc EXCEPT ![r] = "undo"]
             /\ UNCHANGED <<trying, claims, attempts, owner, old>>
    <3>1. UNCHANGED <<mine, shell, locks>>
      BY <1>7, <2>3 DEF Own
    <3> QED BY <2>1, <2>3, <3>1, ClaimFails
  <2> QED BY <1>7, <2>2, <2>3 DEF Own
<1>8. CASE UndoOwner(r)
  <2>1. lock[trying[r]] = r /\ owner[trying[r]] = NoOne /\ trying[r] \in Ports
    BY <1>2, <1>8 DEF UndoOwner, WithLock
  <2>2. trying[r] \notin claims[r]
    BY <1>8, <2>1, NamesAssumption DEF UndoOwner, LockInv, ClaimsAreMarked, Alive, Over
  <2>3. claims' = [claims EXCEPT ![r] = @ \ {trying[r]}]
        /\ trying' = [trying EXCEPT ![r] = trying[r]]
    BY <1>0, <1>8, <2>2 DEF UndoOwner
  <2> QED BY <1>0, <1>8, <2>1, <2>3, OwnerTakenOut DEF UndoOwner
<1>9. CASE CleanOwner(r)
  <2>1. PICK p \in claims[r] :
          /\ trying' = [trying EXCEPT ![r] = p]
          /\ claims' = [claims EXCEPT ![r] = @ \ {p}]
          /\ owner' = [owner EXCEPT ![p] = NoOne]
          /\ old' = [old EXCEPT ![p] = FALSE]
    BY <1>9 DEF CleanOwner
  <2>2. lock[p] = r /\ p \in Ports
    BY <1>0, <1>9, <2>1 DEF CleanOwner, LockInv, ClaimsAreMarked, Alive, Over
  <2> QED BY <1>0, <1>9, <2>1, <2>2, OwnerTakenOut DEF CleanOwner
<1>10. CASE UndoLock(r) \/ CleanLock(r)
  <2>1. trying[r] \in Ports /\ owner[trying[r]] = NoOne /\ pc[r] \in {"undolock", "cleanlock"}
    BY <1>2, <1>10 DEF UndoLock, CleanLock, WithLock
  <2>2. lock' = [lock EXCEPT ![trying[r]] = NoOne]
    BY <1>10, <2>1 DEF UndoLock, CleanLock
  <2>3. pc'[r] \in {"bind", "close", "clean"} /\ pc' = [pc EXCEPT ![r] = pc'[r]]
    BY <1>0, <1>10, <2>1 DEF UndoLock, CleanLock
  <2>4. Others(r) /\ UNCHANGED <<claims, shell, socket, owner, old>>
    BY <1>0, <1>10 DEF UndoLock, CleanLock, Others
  <2> QED BY <2>1, <2>2, <2>3, <2>4, LockTakenAway DEF WithLock, Over
<1>11. CASE ReadOwner(r)
  BY <1>0, <1>1, <1>11, LocksUntouched DEF ReadOwner, Others, AtPort, WithLock
<1>12. CASE JudgeLock(r)
  <2>1. CASE Abandoned(r) /\ pc' = [pc EXCEPT ![r] = "unlink"]
             /\ UNCHANGED <<trying, socket>>
    <3>1. Condemned(trying[r])
      BY <1>0, <1>1, <1>12, <2>1 DEF JudgeLock, Abandoned, Condemned, AtPort, Alive,
         LockInv, SeenMayGo, OldIsAbandoned
    <3> QED BY <1>0, <1>1, <1>12, <2>1, <3>1, LocksUntouched
            DEF JudgeLock, Others, AtPort, WithLock
  <2>2. CASE Pass(r)
    BY <1>0, <1>1, <1>12, <2>2, LocksUntouched
    DEF JudgeLock, Pass, Others, AtPort, WithLock
  <2> QED BY <1>12, <2>1, <2>2 DEF JudgeLock
<1>13. CASE ReclaimOwner(r)
  BY <1>13, OwnerReclaimed
<1>14. CASE ReclaimLock(r)
  <2>1. trying[r] \in Ports /\ Condemned(trying[r]) /\ pc[r] = "rmdir"
    BY <1>1, <1>14 DEF ReclaimLock, AtPort, LockInv, ReclaimsAreSafe
  <2>2. CASE Pass(r) /\ UNCHANGED lock
    BY <1>0, <1>1, <1>14, <2>1, <2>2, LocksUntouched
    DEF ReclaimLock, Pass, Others, AtPort, WithLock
  <2>3. CASE /\ owner[trying[r]] = NoOne /\ lock' = [lock EXCEPT ![trying[r]] = NoOne]
             /\ pc' = [pc EXCEPT ![r] = "remake"] /\ UNCHANGED <<trying, socket>>
    <3>1. pc'[r] = "remake" /\ pc' = [pc EXCEPT ![r] = pc'[r]]
      BY <1>0, <2>3
    <3>2. Others(r) /\ UNCHANGED <<claims, shell, socket, owner, old>>
      BY <1>0, <1>14, <2>3 DEF ReclaimLock, Others
    <3> QED BY <2>1, <2>3, <3>1, <3>2, LockTakenAway DEF Over
  <2> QED BY <1>14, <2>2, <2>3 DEF ReclaimLock
<1>15. CASE Remake(r)
  <2>1. trying[r] \in Ports /\ lock[trying[r]] = NoOne /\ pc[r] \in AtPort
    BY <1>1, <1>15 DEF Remake, AtPort, LockInv, ReclaimsAreSafe
  <2> QED BY <1>15, <2>1, LockMade DEF Remake
<1> QED BY <1>3, <1>4, <1>5, <1>6, <1>7, <1>8, <1>9, <1>10, <1>11, <1>12, <1>13,
           <1>14, <1>15
        DEF ReserverStep, ClaimStep, ReclaimStep, MainStep

(* No lock directory changes with the launchers or with the time. *)
LEMMA ShellLocks ==
  ASSUME LockInv, TypeOK', NobodyRevives,
         \/ \E r \in Reservers : ShellStep(r)
         \/ \E p \in Ports : Age(p)
  PROVE  LockInv'
<1>1. UNCHANGED <<pc, trying, claims, seen, socket, lock, owner>>
  BY DEF ShellStep, AskHandOver, StartSimulators, SimulatorBinds, Interrupt, EndRun,
     ShellExits, ShellKilled, OrphansExit, Age, mine, locks
<1>2. Occupied' /\ WorksOnItsOwn' /\ OwnersMadeLocks' /\ SeenMayGo'
  BY <1>1 DEF LockInv, Occupied, WorksOnItsOwn, OwnersMadeLocks, SeenMayGo
<1>3. OldIsAbandoned'
  <2>1. CASE old' = old
    BY <1>1, <2>1 DEF LockInv, OldIsAbandoned
  <2>2. CASE \E p \in Ports : Age(p)
    BY <1>1, <2>2 DEF LockInv, TypeOK, LocksOK, OldIsAbandoned, Age
  <2> QED BY <2>1, <2>2 DEF ShellStep, AskHandOver, StartSimulators, SimulatorBinds,
          Interrupt, EndRun, ShellExits, ShellKilled, OrphansExit, locks
<1>4. ReclaimsAreSafe'
  <2>1. \A p \in Ports : Condemned(p) => Condemned(p)'
    BY <1>1 DEF Condemned, LockInv, TypeOK, LocksOK, NobodyRevives
  <2>2. \A r \in Reservers : pc[r] \in {"unlink", "rmdir"} => trying[r] \in Ports
    BY DEF LockInv, Occupied, AtPort
  <2> QED BY <1>1, <2>1, <2>2 DEF LockInv, ReclaimsAreSafe
<1>5. ClaimsAreMarked'
  BY <1>1 DEF LockInv, ClaimsAreMarked, NobodyRevives
<1> QED BY <1>2, <1>3, <1>4, <1>5 DEF LockInv

LEMMA LocksHold == Spec => []LockInv
<1>1. Init => LockInv
  BY RangeAssumption, NamesAssumption
  DEF Init, LockInv, TypeOK, ReserversOK, ShellsOK, LocksOK, Claiming, Occupied, AtPort,
      WorksOnItsOwn, WithLock, OwnersMadeLocks, OldIsAbandoned, SeenMayGo,
      ReclaimsAreSafe, ClaimsAreMarked
<1>2. LockInv /\ [Next]_vars => LockInv'
  <2> SUFFICES ASSUME LockInv, [Next]_vars
               PROVE  LockInv'
    OBVIOUS
  <2>1. TypeOK /\ Occupied /\ WorksOnItsOwn
    BY DEF LockInv
  <2>2. NobodyRevives
    BY <2>1, TheDeadStayDead DEF NobodyRevives
  <2>3. ASSUME NEW r \in Reservers, ReserverStep(r) \/ Kill(r)
        PROVE  LockInv'
    BY <2>1, <2>2, <2>3, ReserverTypes, ReserverLocks
  <2>4. CASE \/ \E r \in Reservers : ShellStep(r)
             \/ \E p \in Ports : Age(p)
    BY <2>1, <2>2, <2>4, ShellTypes, ShellLocks
  <2>5. CASE UNCHANGED vars
    BY <2>5 DEF vars, mine, shell, locks, LockInv, TypeOK, ReserversOK, ShellsOK, LocksOK,
       Occupied, WorksOnItsOwn, OwnersMadeLocks, OldIsAbandoned, SeenMayGo,
       ReclaimsAreSafe, Condemned, ClaimsAreMarked, Alive, LauncherAlive
  <2> QED BY <2>3, <2>4, <2>5 DEF Next
<1> QED BY <1>1, <1>2, PTL DEF Spec

------------------------------------------------------------------------------
(* Every variable of the reservers, the launchers and the lock directories   *)
(* keeps its type, in particular the count of attempts its bound.            *)
THEOREM PortTypesHold == Spec => []TypeOK
<1>1. LockInv => TypeOK
  BY DEF LockInv
<1> QED BY <1>1, LocksHold, PTL

(* A port in the list of a reserver that runs, or whose launcher does, has   *)
(* its lock and its owner file (reserve-udp-ports.py:118-161).               *)
THEOREM ClaimsAreAlwaysMarked == Spec => []ClaimsAreMarked
<1>1. LockInv => ClaimsAreMarked
  BY DEF LockInv
<1> QED BY <1>1, LocksHold, PTL

(* A lock goes only by its maker's hand or after its death, for any number   *)
(* of reservers at the reclaim (reserve-udp-ports.py:61-81).                 *)
THEOREM LocksAreNeverStolen == Spec => LocksAreNotStolen
<1> DEFINE Kept == \A p \in Ports, r \in Reservers :
       /\ lock[p] = r /\ lock'[p] # r => pc[r] \in Over \/ pc'[r] # pc[r]
       /\ owner[p] = r /\ owner'[p] # r => ~Alive(r) \/ pc'[r] # pc[r]
<1>1. LockInv /\ [Next]_vars => [Kept]_vars
  <2> SUFFICES ASSUME LockInv, Next
               PROVE  Kept
    BY DEF vars
  <2>0. /\ pc \in [Reservers -> Claiming \cup Holding \cup Leaving \cup Over]
        /\ lock \in [Ports -> Reservers \cup {NoOne}]
        /\ owner \in [Ports -> Reservers \cup {NoOne}]
    BY DEF LockInv, TypeOK, ReserversOK, LocksOK
  <2> USE DEF Goto, mine, shell, locks
  <2>1. ASSUME NEW r \in Reservers, ReclaimOwner(r) \/ ReclaimLock(r)
        PROVE  Kept
    <3>1. trying[r] \in Ports /\ Condemned(trying[r])
      BY <2>1 DEF LockInv, Occupied, AtPort, ReclaimsAreSafe, ReclaimOwner, ReclaimLock
    <3>2. owner[trying[r]] = NoOne \/ ~Alive(owner[trying[r]])
      BY <2>0, <3>1 DEF Condemned, LockInv, OwnersMadeLocks
    <3> QED BY <2>0, <2>1, <3>1, <3>2, NamesAssumption
            DEF ReclaimOwner, ReclaimLock, Pass, Condemned
  <2>2. ASSUME NEW r \in Reservers,
               UndoOwner(r) \/ UndoLock(r) \/ CleanOwner(r) \/ CleanLock(r)
        PROVE  Kept
    <3>1. pc'[r] # pc[r]
      BY <2>0, <2>2 DEF UndoOwner, UndoLock, CleanOwner, CleanLock
    <3>2. PICK p \in Ports : /\ lock[p] = r
                             /\ owner[p] \in {r, NoOne}
                             /\ \A x \in Ports \ {p} : /\ lock'[x] = lock[x]
                                                       /\ owner'[x] = owner[x]
      <4>1. CASE UndoOwner(r) \/ UndoLock(r) \/ CleanLock(r)
        BY <2>0, <4>1 DEF UndoOwner, UndoLock, CleanLock, LockInv, WorksOnItsOwn, WithLock
      <4>2. CASE CleanOwner(r)
        <5>1. \A p \in claims[r] : p \in Ports /\ lock[p] = r /\ owner[p] = r
          BY <4>2 DEF CleanOwner, LockInv, TypeOK, ReserversOK, ClaimsAreMarked, Alive, Over
        <5> QED BY <2>0, <4>2, <5>1 DEF CleanOwner
      <4> QED BY <2>2, <4>1, <4>2
    <3> QED BY <3>1, <3>2, NamesAssumption
  <2>3. ASSUME NEW r \in Reservers, MakeLock(r) \/ Own(r) \/ Remake(r)
        PROVE  Kept
    <3>1. trying[r] \in Ports
      BY <2>3 DEF MakeLock, Own, Remake, LockInv, Occupied, AtPort
    <3>2. Own(r) => owner[trying[r]] = NoOne
      BY DEF Own, LockInv, WorksOnItsOwn, WithLock
    <3> QED BY <2>0, <2>3, <3>1, <3>2, NamesAssumption DEF MakeLock, Own, Remake
  <2>4. ASSUME NEW r \in Reservers,
               \/ Bind(r) \/ RunOut(r) \/ ReadOwner(r) \/ JudgeLock(r) \/ MainStep(r)
               \/ Kill(r) \/ ShellStep(r),
               ~CleanOwner(r), ~CleanLock(r)
        PROVE  Kept
    BY <2>4 DEF Bind, RunOut, ReadOwner, JudgeLock, Pass, MainStep, WriteReady, Leave,
       HandOver, Announce, CloseSockets, Exit, Kill, ShellStep, AskHandOver,
       StartSimulators, SimulatorBinds, Interrupt, EndRun, ShellExits, ShellKilled,
       OrphansExit
  <2>5. ASSUME NEW p \in Ports, Age(p)
        PROVE  Kept
    BY <2>5 DEF Age
  <2> QED BY <2>1, <2>2, <2>3, <2>4, <2>5 DEF Next, ReserverStep, ClaimStep, ReclaimStep,
          MainStep
<1> QED BY <1>1, LocksHold, PTL DEF Spec, LocksAreNotStolen

------------------------------------------------------------------------------
LEMMA GivenHolds == Spec => []GivenIsHeld
<1>1. Init => GivenIsHeld
  BY DEF Init, GivenIsHeld
<1>2. TypeOK /\ GivenIsHeld /\ [Next]_vars => GivenIsHeld'
  <2> SUFFICES ASSUME TypeOK, GivenIsHeld, [Next]_vars
               PROVE  GivenIsHeld'
    OBVIOUS
  <2>0. /\ pc \in [Reservers -> Claiming \cup Holding \cup Leaving \cup Over]
        /\ claims \in [Reservers -> SUBSET Ports]
        /\ released \in [Reservers -> BOOLEAN] /\ stop \in [Reservers -> BOOLEAN]
        /\ launcher \in [Reservers -> {"waiting", "asked", "running", "interrupted",
                                       "ending", "orphans", "over"}]
        /\ given \in [Reservers -> SUBSET Ports]
    BY DEF TypeOK, ReserversOK, ShellsOK
  <2> USE DEF GivenIsHeld, Goto, mine, shell, Claiming, Holding, Leaving, Over
  <2>1. ASSUME NEW r \in Reservers, ClaimStep(r) \/ ReclaimStep(r)
        PROVE  GivenIsHeld'
    <3>1. /\ UNCHANGED <<given, launcher, released, stop>>
          /\ pc[r] \in Claiming /\ pc'[r] \notin {"hold", "announce"}
      BY <2>0, <2>1 DEF ClaimStep, ReclaimStep, Bind, RunOut, MakeLock, Own, UndoOwner,
         UndoLock, ReadOwner, JudgeLock, Pass, ReclaimOwner, ReclaimLock, Remake
    <3>2. \A q \in Reservers \ {r} : pc'[q] = pc[q] /\ claims'[q] = claims[q]
      BY <2>0, <2>1 DEF ClaimStep, ReclaimStep, Bind, RunOut, MakeLock, Own, UndoOwner,
         UndoLock, ReadOwner, JudgeLock, Pass, ReclaimOwner, ReclaimLock, Remake
    <3> QED BY <2>0, <3>1, <3>2
  <2>2. ASSUME NEW r \in Reservers, WriteReady(r) \/ HandOver(r) \/ Announce(r)
        PROVE  GivenIsHeld'
    BY <2>0, <2>2 DEF WriteReady, HandOver, Announce
  <2>3. ASSUME NEW r \in Reservers, Leave(r)
        PROVE  GivenIsHeld'
    <3>1. launcher[r] \notin {"waiting", "asked", "running"}
      BY <2>3 DEF Leave, LauncherAlive
    <3> QED BY <2>0, <2>3, <3>1 DEF Leave
  <2>4. ASSUME NEW r \in Reservers,
               CloseSockets(r) \/ CleanOwner(r) \/ CleanLock(r) \/ Exit(r)
        PROVE  GivenIsHeld'
    <3>1. /\ UNCHANGED <<given, launcher, released, stop>>
          /\ pc[r] \in Leaving /\ pc'[r] \notin {"hold", "announce"}
      BY <2>0, <2>4 DEF CloseSockets, CleanOwner, CleanLock, Exit
    <3>2. \A q \in Reservers \ {r} : pc'[q] = pc[q] /\ claims'[q] = claims[q]
      BY <2>0, <2>4 DEF CloseSockets, CleanOwner, CleanLock, Exit
    <3> QED BY <2>0, <3>1, <3>2
  <2>5. ASSUME NEW r \in Reservers, Kill(r)
        PROVE  GivenIsHeld'
    BY <2>0, <2>5 DEF Kill
  <2>6. ASSUME NEW r \in Reservers, ShellStep(r)
        PROVE  GivenIsHeld'
    BY <2>0, <2>6 DEF ShellStep, AskHandOver, StartSimulators, SimulatorBinds, Interrupt,
       EndRun, ShellExits, ShellKilled, OrphansExit
  <2>7. CASE UNCHANGED vars \/ \E p \in Ports : Age(p)
    BY <2>7 DEF vars, Age
  <2> QED BY <2>1, <2>2, <2>3, <2>4, <2>5, <2>6, <2>7 DEF Next, ReserverStep, MainStep
<1> QED BY <1>1, <1>2, PortTypesHold, PTL DEF Spec

(* No two launchers run their simulators on one port, for any number of runs *)
(* and ports, whichever reservers were killed (docs/architecture.md:95).     *)
THEOREM RunsNeverShare == Spec => []RunsDoNotShare
<1>1. ClaimsAreMarked /\ GivenIsHeld => RunsDoNotShare
  <2> SUFFICES ASSUME ClaimsAreMarked, GivenIsHeld,
                      NEW r \in Reservers, NEW q \in Reservers, r # q,
                      launcher[r] = "running", launcher[q] = "running",
                      NEW p \in given[r] \cap given[q]
               PROVE  FALSE
    BY DEF RunsDoNotShare
  <2>1. given[r] = claims[r] /\ given[q] = claims[q]
    BY DEF GivenIsHeld
  <2>2. Alive(r) /\ Alive(q)
    BY DEF Alive, LauncherAlive
  <2>3. lock[p] = r /\ lock[p] = q
    BY <2>1, <2>2 DEF ClaimsAreMarked
  <2> QED BY <2>3
<1> QED BY <1>1, ClaimsAreAlwaysMarked, GivenHolds, PTL

==============================================================================
