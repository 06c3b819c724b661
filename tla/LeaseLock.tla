------------------------------ MODULE LeaseLock ------------------------------
(***************************************************************************)
(* What the refresh lock promises its callers, with no file, inode or      *)
(* clock in it: a mutual-exclusion lock whose holder may lose its lease.    *)
(*                                                                         *)
(* holders is the set of processes that believe they hold the lock and     *)
(* lapsed is the set of those whose lease is gone.  A process can become a *)
(* holder only when every earlier holder has lapsed, so two holders with a *)
(* live lease never coexist.  RefreshLock implements this specification    *)
(* and TokenRefresh is built on it.                                        *)
(***************************************************************************)
CONSTANT Proc

VARIABLES holders, lapsed

leaseVars == <<holders, lapsed>>

LeaseInit ==
    /\ holders = {}
    /\ lapsed = {}

Acquire(p) ==
    /\ p \notin holders
    /\ holders \subseteq lapsed
    /\ holders' = holders \cup {p}
    /\ UNCHANGED lapsed

\* A release, a crash and an acquisition that fails half way all end a hold.
Release(p) ==
    /\ p \in holders
    /\ holders' = holders \ {p}
    /\ lapsed' = lapsed \ {p}

\* The lease of q ends while q still believes it holds the lock.
Lapse(q) ==
    /\ q \in holders \ lapsed
    /\ lapsed' = lapsed \cup {q}
    /\ UNCHANGED holders

\* The release of p takes the lease of another holder q with it.
ReleaseAndLapse(p, q) ==
    /\ p \in holders
    /\ q \in holders \ lapsed
    /\ p # q
    /\ holders' = holders \ {p}
    /\ lapsed' = (lapsed \cup {q}) \ {p}

\* The holder dies but its lease lives on until it lapses: nobody may acquire.
LeaseNext ==
    \/ \E p \in Proc : Acquire(p) \/ Release(p) \/ Lapse(p)
    \/ \E p, q \in Proc : ReleaseAndLapse(p, q)

LeaseSpec == LeaseInit /\ [][LeaseNext]_leaseVars

(***************************************************************************)
(* At most one holder has a live lease.                                    *)
(***************************************************************************)
OneLiveLease == \A p, q \in holders \ lapsed : p = q

==============================================================================
