-------------------------- MODULE PortLeaseInvariant --------------------------
(***************************************************************************)
(* The inductive strengthening of the invariants of PortLease.  What makes *)
(* the reclaim safe is the socket: from the bind to the claim, or to the   *)
(* decision to pass, nobody else can be at work on the same port's lock,   *)
(* except to take its own lock away.                                       *)
(***************************************************************************)
EXTENDS PortLease

AtPort == {"mkdir", "own", "read", "judge", "unlink", "rmdir", "remake"}
WithLock == {"own", "undo", "undolock", "cleanlock"}

(* A reserver between its bind and its claim has the port's socket.          *)
Occupied == \A r \in Reservers : pc[r] \in AtPort =>
              trying[r] \in Ports /\ socket[trying[r]] = r

(* One that makes, undoes or cleans up a lock works on its own, and the      *)
(* owner file is not there.                                                  *)
WorksOnItsOwn == \A r \in Reservers : pc[r] \in WithLock =>
                   /\ trying[r] \in Ports
                   /\ lock[trying[r]] = r /\ owner[trying[r]] = NoOne

(* An owner file is in its owner's own directory.                            *)
OwnersMadeLocks == \A p \in Ports : owner[p] # NoOne => lock[p] = owner[p]

(* Only a lock whose maker is gone ever gets old.                            *)
OldIsAbandoned == \A p \in Ports : old[p] /\ lock[p] # NoOne =>
                    owner[p] = NoOne /\ pc[lock[p]] \in Over

(* While a reserver considers an owner, the lock can only disappear.         *)
SeenMayGo == \A r \in Reservers : pc[r] = "judge" /\ seen[r] # NoOne =>
               /\ lock[trying[r]] \in {seen[r], NoOne}
               /\ owner[trying[r]] \in {seen[r], NoOne}

(* Only the locks of the dead are reclaimed.                                 *)
Condemned(p) == \/ lock[p] = NoOne
                \/ /\ pc[lock[p]] \in Over
                   /\ owner[p] = NoOne \/ ~Alive(owner[p])

ReclaimsAreSafe ==
  \A r \in Reservers :
    /\ pc[r] \in {"unlink", "rmdir"} => Condemned(trying[r])
    /\ pc[r] = "remake" => lock[trying[r]] = NoOne

LockInv == /\ TypeOK /\ Occupied /\ WorksOnItsOwn /\ OwnersMadeLocks
           /\ OldIsAbandoned /\ SeenMayGo /\ ReclaimsAreSafe
           /\ ClaimsAreMarked

------------------------------------------------------------------------------
(* What a ready file names is what the reserver holds, from the file until   *)
(* the launcher has ended its simulators or is dead.                         *)
GivenIsHeld ==
  \A r \in Reservers :
    /\ launcher[r] \in {"waiting", "asked", "running"} => ~stop[r]
    /\ launcher[r] = "waiting" => ~released[r] /\ pc[r] # "announce"
    /\ launcher[r] = "running" => released[r]
    /\ pc[r] \in {"hold", "announce"} => given[r] = claims[r]
    /\ released[r] /\ launcher[r] \in {"asked", "running"} =>
         pc[r] \in {"hold", "dead"} /\ given[r] = claims[r]

==============================================================================
