------------------------------- MODULE MCTenant -----------------------------
(***************************************************************************)
(* The server's tenants: the database and its first administrator, roles,  *)
(* users and API keys, groups, sites and tags, the creation of jobs, and   *)
(* the limiters in front of the handlers.  They share no state, and every  *)
(* property is about one of them, so a behaviour explores one of them and  *)
(* leaves the others as they start.                                        *)
(***************************************************************************)
EXTENDS Bootstrap, Accounts, Memberships, JobCreation, RateLimiter, TLC

CONSTANT Parts      \* the components to explore

\* those that may come to an end, where a clock or a count is at its bound or
\* every request has been made
Ending == {"bootstrap", "memberships", "creation", "limiter"}

ASSUME PartsAssumption == Parts \subseteq Ending \cup {"accounts"}

\* two limiters in a chain: two addresses with a burst of two, whose buckets refill
\* before they are evicted, and two tenants with a burst of one, whose buckets do not
MCKeys == <<Keys, Keys>>
MCBurst == <<2, 1>>
MCTTL == <<5, 1>>

VARIABLE part       \* the one this behaviour explores

allVars == <<part, vars, accountVars, memVars, jcVars, rlVars>>

MCInit ==
    /\ part \in Parts
    /\ Init /\ AccountInit /\ MemInit /\ JcInit /\ RlInit
    \* one initial state is enough for a component that is left alone
    /\ part # "memberships" => present = Containers
    /\ part # "creation" => member = {} /\ override = -1

MCNext ==
    \/ /\ part = "bootstrap" /\ Next
       /\ UNCHANGED <<part, accountVars, memVars, jcVars, rlVars>>
    \/ /\ part = "accounts" /\ AccountNext
       /\ UNCHANGED <<part, vars, memVars, jcVars, rlVars>>
    \/ /\ part = "memberships" /\ MemNext
       /\ UNCHANGED <<part, vars, accountVars, jcVars, rlVars>>
    \/ /\ part = "creation" /\ JcNext
       /\ UNCHANGED <<part, vars, accountVars, memVars, rlVars>>
    \/ /\ part = "limiter" /\ RlNext
       /\ UNCHANGED <<part, vars, accountVars, memVars, jcVars>>
    \/ part \in Ending /\ UNCHANGED allVars

MCSpec == MCInit /\ [][MCNext]_allVars

\* processes, requests and users are alike, and so are keys, devices and groups
Symmetry ==
    UNION {Permutations(s) : s \in {Migrators, Admins, Users, Requests, MemRequests,
                                    RlRequests, Keys, Devices, JcDevices}}

-----------------------------------------------------------------------------
\* The rows, requests and buckets of the component that takes steps have their
\* types.
Types ==
    CASE part = "bootstrap" -> TypeOK
      [] part = "accounts" -> AccountTypeOK
      [] part = "memberships" -> MemTypeOK
      [] part = "creation" -> JcTypeOK
      [] part = "limiter" -> RlTypeOK
=============================================================================
