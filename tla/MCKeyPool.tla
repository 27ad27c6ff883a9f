------------------------------ MODULE MCKeyPool ------------------------------
(***************************************************************************)
(* Two accounts of two keys, one or the other: a sequential one under      *)
(* "any_error" (the constants of the configuration), and one of an OAuth   *)
(* service in smooth weighted round-robin under "standard", its secrets    *)
(* rotated and its keys probed by the healer.  One tick stands for the     *)
(* shortest window.                                                        *)
(***************************************************************************)
EXTENDS KeyPool

CONSTANTS a, b, r1, r2

PoolAB == <<a, b>>

Weighted == INSTANCE KeyPool WITH
  RoundRobin <- TRUE, AnyError <- FALSE, OAuthAccount <- TRUE, HealerOn <- TRUE,
  AdminEdits <- {"enable"}, Requests <- {r1}, Weights <- {1, 2},
  MaxFails <- 2, DefaultMaxFails <- 2, ErrBound <- 1,
  CoolCap <- 1, Retire <- 1, RetireAuth <- 1, RetryAfters <- {1}

VARIABLE account

MCInit ==
  \/ account = "sequential" /\ Init
  \/ account = "weighted" /\ Weighted!Init

MCNext ==
  \/ account = "sequential" /\ Next /\ UNCHANGED account
  \/ account = "weighted" /\ Weighted!Next /\ UNCHANGED account

(* The monotonic clock advances.  Nothing else is owed to the pool: a key
   whose window ran out needs no request to be available again. *)
MCSpec == MCInit /\ [][MCNext]_<<vars, account>> /\ WF_vars(Tick)
=============================================================================
