---------------------------- MODULE KeyRegistry ----------------------------
(***************************************************************************)
(* KeyMaterialRegistry: the keysets a device can decrypt its history with. *)
(* The secret store holds one entry per keyset, the list of the keysets    *)
(* and the id of a keyset that is just being added; it has no operation    *)
(* that writes two of them at once.  Sends, decryptions, restores and the  *)
(* recovery snapshot call the registry concurrently.                       *)
(***************************************************************************)
EXTENDS Naturals, FiniteSets

CONSTANTS
    Keyset,         \* keysets, of this device and of restored ones
    First,          \* the keyset of the device when it is installed
    Writer,         \* concurrent callers of the registry
    NoKeyset,       \* no pending id
    MaxCrash        \* bound on the ends of the process

ASSUME RegistryAssumption ==
    /\ First \in Keyset /\ NoKeyset \notin Keyset
    /\ MaxCrash \in Nat

VARIABLES
    current,        \* the keyset that the present device keys derive to
    entry,          \* stored: crypto_keyset_entry_v1, the status of a keyset
    registry,       \* stored: crypto_keyset_registry_v1
    pending,        \* stored: crypto_keyset_registry_pending_v1
    sealed,         \* the entries that hold an integrity hash
    writer,         \* the running _writeKeyset of each caller
    crashes,
    disturbed       \* history: keysets whose write was cut off by the end of
                    \* the process, or ran while another caller was writing

stored == <<entry, registry, pending, sealed>>
vars == <<current, stored, writer, crashes, disturbed>>

Status == {"none", "active", "restored"}
Write == [pc : {"idle", "pending", "entry", "read", "list", "clear"},
          keyset : Keyset, status : Status, ids : SUBSET Keyset]
NoWrite == [pc |-> "idle", keyset |-> First, status |-> "none", ids |-> {}]

TypeOK ==
    /\ current \in Keyset
    /\ entry \in [Keyset -> Status]
    /\ registry \subseteq Keyset
    /\ pending \in Keyset \union {NoKeyset}
    /\ sealed \subseteq Keyset
    /\ writer \in [Writer -> Write]
    /\ crashes \in 0..MaxCrash
    /\ disturbed \subseteq Keyset

\* A new installation, or one whose keyset an earlier version of the app has
\* stored without an integrity hash.
Init ==
    /\ current = First
    /\ registry \in {{}, {First}}
    /\ \E s \in {"active", "restored"} :
          entry = [k \in Keyset |-> IF k \in registry THEN s ELSE "none"]
    /\ pending = NoKeyset /\ sealed = {}
    /\ writer = [w \in Writer |-> NoWrite]
    /\ crashes = 0 /\ disturbed = {}

-----------------------------------------------------------------------------
(* The callers look at the entry first and write afterwards.               *)

Running == {w \in Writer : writer[w].pc # "idle"}
Writing == {writer[w].keyset : w \in Running}

Begin(w, k, s) ==
    /\ writer[w].pc = "idle"
    /\ writer' = [writer EXCEPT ![w] =
          [pc |-> "pending", keyset |-> k, status |-> s, ids |-> {}]]
    /\ disturbed' = IF Running = {} THEN disturbed ELSE disturbed \union Writing \union {k}
    /\ UNCHANGED <<current, stored, crashes>>

\* ensureCurrentKeysetRegistered: a missing entry is added, one without a hash
\* is sealed as it is, and one that is not active is written again as active.
EnsureCurrent(w) ==
    \/ entry[current] # "none" /\ current \notin sealed /\ Begin(w, current, entry[current])
    \/ entry[current] = "none" /\ Begin(w, current, "active")
    \/ entry[current] = "restored" /\ current \in sealed /\ Begin(w, current, "active")

\* Mutant: a keyset is imported over an entry that exists.
MutImport(w, k) == Begin(w, k, "restored")

\* importKeysets: an existing entry is kept, what was active on the other
\* device becomes restored.
Import(w, k) == entry[k] = "none" /\ Begin(w, k, "restored")

\* The device gets new keys or a new id: its keyset is one never seen.
Rotate(k) ==
    /\ entry[k] = "none" /\ k # current
    /\ k \notin Writing
    /\ current' = k
    /\ UNCHANGED <<stored, writer, crashes, disturbed>>

-----------------------------------------------------------------------------
(* _writeKeyset, one await after the other.                                *)

At(w, pc) == writer[w].pc = pc
Goto(w, pc) == writer' = [writer EXCEPT ![w].pc = pc]

\* Mutant: the entry is written before the pending id.
MutWritePending(w) ==
    /\ At(w, "pending")
    /\ entry' = [entry EXCEPT ![writer[w].keyset] = writer[w].status]
    /\ Goto(w, "entry")
    /\ UNCHANGED <<current, registry, pending, sealed, crashes, disturbed>>

WritePending(w) ==
    /\ At(w, "pending")
    /\ pending' = writer[w].keyset
    /\ Goto(w, "entry")
    /\ UNCHANGED <<current, entry, registry, sealed, crashes, disturbed>>

WriteEntry(w) ==
    /\ At(w, "entry")
    /\ entry' = [entry EXCEPT ![writer[w].keyset] = writer[w].status]
    /\ sealed' = sealed \union {writer[w].keyset}
    /\ Goto(w, "read")
    /\ UNCHANGED <<current, registry, pending, crashes, disturbed>>

\* The list is read without the pending id.
ReadList(w) ==
    /\ At(w, "read")
    /\ writer' = [writer EXCEPT ![w] = [@ EXCEPT
          !.pc = IF writer[w].keyset \in registry THEN "clear" ELSE "list",
          !.ids = registry]]
    /\ UNCHANGED <<current, stored, crashes, disturbed>>

WriteList(w) ==
    /\ At(w, "list")
    /\ registry' = writer[w].ids \union {writer[w].keyset}
    /\ Goto(w, "clear")
    /\ UNCHANGED <<current, entry, pending, sealed, crashes, disturbed>>

ClearPending(w) ==
    /\ At(w, "clear")
    /\ pending' = NoKeyset
    /\ writer' = [writer EXCEPT ![w] = NoWrite]
    /\ UNCHANGED <<current, entry, registry, sealed, crashes, disturbed>>

\* The process ends: what runs is gone, what is stored stays.
Crash ==
    /\ crashes < MaxCrash
    /\ crashes' = crashes + 1
    /\ writer' = [w \in Writer |-> NoWrite]
    /\ disturbed' = disturbed \union Writing
    /\ UNCHANGED <<current, stored>>

WriteKeyset(w) ==
    WritePending(w) \/ WriteEntry(w) \/ ReadList(w) \/ WriteList(w) \/ ClearPending(w)

Next ==
    \/ \E w \in Writer :
          EnsureCurrent(w) \/ WriteKeyset(w) \/ \E k \in Keyset : Import(w, k)
    \/ \E k \in Keyset : Rotate(k)
    \/ Crash

Spec == Init /\ [][Next]_vars

-----------------------------------------------------------------------------
(* readAllKeysets finds the keysets of the list and the pending one; the    *)
(* decryption of the history, the backup and the recovery snapshot see no   *)
(* others.                                                                  *)
Listed == registry \union {pending}

AllFound == \A k \in Keyset : entry[k] # "none" => k \in Listed

\* Only the keysets of interrupted or overlapping writes can get lost: a write
\* that runs alone to its end is found in every step of it and for good, and
\* whatever later callers and crashes do to each other, the keysets that they
\* are not writing stay within reach.
LossExplained == \A k \in Keyset : entry[k] # "none" /\ k \notin Listed => k \in disturbed

\* Documented: "if the process dies between the key write and registry write,
\* the pending id is still discovered on next boot" (key_material_registry.dart:
\* 154), "Existing keysets remain readable" (key_continuity_guard.dart:11).
\* When nobody is writing, no stored keyset has become unreachable.
NothingLost == (\A w \in Writer : At(w, "idle")) => AllFound

\* Documented: "Existing local keysets are never overwritten"
\* (enterprise_recovery_sync_service.dart:34).  The entry is read before it is
\* written (key_material_registry.dart:119), so this holds but for a keyset that
\* another caller stores in between: a keyset the device works with is put back
\* only when two callers were writing it at once.
OverwrittenInOverlap ==
    [][\A k \in Keyset : entry[k] = "active" /\ entry'[k] # "active" => k \in disturbed]_vars

\* The same without the exception; false with two callers.
NeverOverwritten ==
    [][\A k \in Keyset : entry[k] = "active" => entry'[k] = "active"]_vars
=============================================================================
