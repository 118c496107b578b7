------------------------------ MODULE MCParts ------------------------------
(***************************************************************************)
(* One instance of three parts that share no state: a task of the Task/KPI *)
(* plugin with the roles of the RBAC plugin, the accounts with their       *)
(* devices, and the key material registry of one app.  A behaviour         *)
(* exercises one of them, chosen at the start, and the others stay as they *)
(* are.                                                                    *)
(***************************************************************************)
EXTENDS TaskWorkflow, Accounts, KeyRegistry, TLC

CONSTANTS boss, lead, ann

Post(rank, sees, use) == [rank |-> rank, visibility |-> sees, active |-> use]

\* A patch may make a role one of these.
MCRoleRow == {Post(1, "lower", TRUE), Post(2, "self", TRUE), Post(1, "all", FALSE)}
MCFirstRole == [r \in JobRole |-> IF r = "head" THEN Post(1, "lower", TRUE) ELSE Post(2, "self", TRUE)]
MCFirstJob == (lead :> "head") @@ (ann :> "staff") @@ (boss :> NoRole)

\* The devices report the same name and platform: nothing tells them, or the
\* Google identities, apart.
MCDeviceName == [d \in Device |-> "pixel"]
Symmetry == Permutations(Device) \union Permutations(Subject)

VARIABLE part

partVars == <<part, taskVars, accountVars, vars>>

MCInit ==
    /\ part \in {"tasks", "accounts", "registry"}
    /\ TaskInit /\ AccountInit /\ Init
    /\ part # "registry" => registry = {}

TasksNext == part = "tasks" /\ TaskNext /\ UNCHANGED <<part, accountVars, vars>>

AccountsNext == part = "accounts" /\ AccountNext /\ UNCHANGED <<part, taskVars, vars>>

RegistryNext == part = "registry" /\ Next /\ UNCHANGED <<part, taskVars, accountVars>>

MCNext == TasksNext \/ AccountsNext \/ RegistryNext

MCSpec == MCInit /\ [][MCNext]_partVars
=============================================================================
