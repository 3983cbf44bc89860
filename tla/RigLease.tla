------------------------------ MODULE RigLease ------------------------------
(***************************************************************************)
(* The process-local arbitration of the robot cell: RigLease (rig.py), the *)
(* command path of each arm as its driver keeps it, and the fail-closed    *)
(* boundary release_motion_ownership (motion_safety.py) that gives a lease *)
(* back.  A call of either is one critical section, hence one step; the    *)
(* control modes that make the calls are in ArmControl.                    *)
(***************************************************************************)

CONSTANT Arms

VARIABLES
    leases,    \* RigLease._active: the tokens handed out and not yet returned
    stream,    \* the control mode whose position stream each arm follows
    latched    \* arms whose command path the driver has fault-latched

rigVars == <<leases, stream, latched>>

Wildcard == "*"

(* A token is a record, unique by its nonce, of an owner and its resources.*)
LeaseToken(owner, id, nonce, resources) ==
    [owner |-> owner, id |-> id, nonce |-> nonce, resources |-> resources]

(* Mutant: the wildcard is a resource like any other. *)
DisjointOnly(left, right) == left \cap right # {}

(* _resources_conflict and _resources_cover *)
ResourcesConflict(left, right) ==
    Wildcard \in left \/ Wildcard \in right \/ left \cap right # {}
ResourcesCover(has, requested) ==
    Wildcard \in has \/ (Wildcard \notin requested /\ requested \subseteq has)

Controls(t) == IF Wildcard \in t.resources THEN Arms ELSE t.resources

(* acquire: the whole set of resources or, by RigLeaseConflictError, none. *)
Free(resources) == \A t \in leases : ~ResourcesConflict(t.resources, resources)
Acquire(t) == Free(t.resources) /\ leases' = leases \cup {t}

(* release does nothing but raise for a token that is not active. *)
Release(t) == leases' = leases \ {t}

Owns(t, resources) == t \in leases /\ ResourcesCover(t.resources, resources)

-----------------------------------------------------------------------------
(* The driver.  apply_action opens the stream of a follower that is not    *)
(* latched, and leaves it open; safe_idle and latch_fault revoke it.       *)

Streams(a, who) ==
    /\ a \notin latched
    /\ stream' = [stream EXCEPT ![a] = {who}]
    /\ UNCHANGED latched

Revoke(S) == stream' = [a \in Arms |-> IF a \in S THEN {} ELSE stream[a]]
SafeIdle(S) == Revoke(S) /\ UNCHANGED latched
LatchFault(S) == Revoke(S) /\ latched' = latched \cup S

(* Neither safe idle nor the latch is confirmed: any part of S may have    *)
(* been latched.                                                           *)
Unconfirmed(S) == \E done \in SUBSET S : LatchFault(done)

(* Mutant: the lease is returned whether or not the path is blocked. *)
ReleaseMotionAnyway(S, t) == (SafeIdle(S) \/ LatchFault(S) \/ Unconfirmed(S)) /\ Release(t)

(* release_motion_ownership, when it gets as far as the release, ...       *)
ReleaseMotion(S, t) == (SafeIdle(S) \/ LatchFault(S)) /\ Release(t)

(* ... and when it keeps the lease because nothing could be confirmed.     *)
KeepMotion(S) == Unconfirmed(S) /\ UNCHANGED leases
=============================================================================
