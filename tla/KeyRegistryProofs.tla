------------------------- MODULE KeyRegistryProofs -------------------------
(***************************************************************************)
(* For any number of callers and crashes the key registry is type correct, *)
(* loses at most keysets whose write was cut off or overlapped another,    *)
(* and puts a working keyset back only in such an overlap.                 *)
(***************************************************************************)
EXTENDS KeyRegistry, TLAPS

USE RegistryAssumption

-----------------------------------------------------------------------------
(* Type correctness.                                                       *)

LEMMA InitType == Init => TypeOK
BY DEF Init, TypeOK, Status, NoWrite, Write

LEMMA WritingType == TypeOK => Writing \subseteq Keyset
BY DEF TypeOK, Writing, Running, Write

LEMMA BeginType ==
    ASSUME TypeOK, NEW w \in Writer, NEW k \in Keyset, NEW s \in Status, Begin(w, k, s)
    PROVE  TypeOK'
<1>1. [pc |-> "pending", keyset |-> k, status |-> s, ids |-> {}] \in Write
  BY DEF Write
<1>2. writer' \in [Writer -> Write]
  BY <1>1 DEF Begin, TypeOK
<1>3. disturbed' \subseteq Keyset
  BY WritingType DEF Begin, TypeOK
<1> QED BY <1>2, <1>3 DEF Begin, TypeOK, stored

\* The three ways to begin, without the reasons.
LEMMA EnsureBegins ==
    ASSUME TypeOK, NEW w \in Writer, EnsureCurrent(w)
    PROVE  \E s \in Status \ {"none"} :
              /\ Begin(w, current, s)
              /\ entry[current] = "active" => s = "active"
BY DEF EnsureCurrent, TypeOK, Status

LEMMA GotoType ==
    ASSUME TypeOK, NEW w \in Writer,
           NEW pc \in {"idle", "pending", "entry", "read", "list", "clear"}, Goto(w, pc)
    PROVE  writer' \in [Writer -> Write]
<1>1. writer[w] \in Write
  BY DEF TypeOK
<1>2. [writer[w] EXCEPT !.pc = pc] \in Write
  BY <1>1 DEF Write
<1> QED BY <1>2 DEF Goto, TypeOK

LEMMA StepType == TypeOK /\ [Next]_vars => TypeOK'
<1> SUFFICES ASSUME TypeOK, [Next]_vars PROVE TypeOK'
  OBVIOUS
<1> USE DEF At
<1>1. ASSUME NEW w \in Writer, EnsureCurrent(w) PROVE TypeOK'
  BY <1>1, EnsureBegins, BeginType DEF TypeOK
<1>2. ASSUME NEW w \in Writer, NEW k \in Keyset, Import(w, k) PROVE TypeOK'
  BY <1>2, BeginType DEF Import, Status
<1>3. ASSUME NEW k \in Keyset, Rotate(k) PROVE TypeOK'
  BY <1>3 DEF Rotate, TypeOK, stored
<1>4. ASSUME NEW w \in Writer, WriteKeyset(w) PROVE TypeOK'
  <2>1. writer[w] \in Write
    BY DEF TypeOK
  <2>2. writer[w].keyset \in Keyset /\ writer[w].status \in Status /\ writer[w].ids \subseteq Keyset
    BY <2>1 DEF Write
  <2>3. CASE WritePending(w)
    BY <2>2, <2>3, GotoType DEF WritePending, TypeOK
  <2>4. CASE WriteEntry(w)
    BY <2>2, <2>4, GotoType DEF WriteEntry, TypeOK
  <2>5. CASE ReadList(w)
    <3>1. \A pc \in {"clear", "list"} : [writer[w] EXCEPT !.pc = pc, !.ids = registry] \in Write
      BY <2>1 DEF Write, TypeOK
    <3> QED BY <2>5, <3>1 DEF ReadList, TypeOK, stored
  <2>6. CASE WriteList(w)
    BY <2>2, <2>6, GotoType DEF WriteList, TypeOK
  <2>7. CASE ClearPending(w)
    <3>1. NoWrite \in Write
      BY DEF NoWrite, Write, Status
    <3> QED BY <2>7, <3>1 DEF ClearPending, TypeOK
  <2> QED BY <1>4, <2>3, <2>4, <2>5, <2>6, <2>7 DEF WriteKeyset
<1>5. ASSUME Crash PROVE TypeOK'
  <2>1. NoWrite \in Write
    BY DEF NoWrite, Write, Status
  <2> QED BY <1>5, <2>1, WritingType DEF Crash, TypeOK, stored
<1>6. ASSUME UNCHANGED vars PROVE TypeOK'
  BY <1>6 DEF vars, stored, TypeOK
<1> QED BY <1>1, <1>2, <1>3, <1>4, <1>5, <1>6 DEF Next

\* The registry is type correct, whatever its callers do at once.
THEOREM TypeCorrect == Spec => []TypeOK
<1>1. Init => TypeOK
  BY InitType
<1>2. TypeOK /\ [Next]_vars => TypeOK'
  BY StepType
<1> QED BY <1>1, <1>2, PTL DEF Spec

-----------------------------------------------------------------------------
(* Where a keyset is found that was never disturbed.                       *)

\* Two calls at once have disturbed both of their keysets.
Overlap ==
    \A v, w \in Writer :
        v # w /\ writer[v].pc # "idle" /\ writer[w].pc # "idle" => writer[v].keyset \in disturbed

\* A list that is about to be written agrees with the stored one on every
\* undisturbed keyset.
ReadFresh ==
    \A w \in Writer : At(w, "list") =>
        \A k \in Keyset \ disturbed : k \in registry <=> k \in writer[w].ids

\* An undisturbed write is found by the pending id until it is in the list.
Named ==
    \A w \in Writer : writer[w].keyset \notin disturbed =>
        /\ writer[w].pc \in {"entry", "read", "list", "clear"} => pending = writer[w].keyset
        /\ At(w, "clear") => writer[w].keyset \in registry

\* A stored keyset that is undisturbed is in the list or still being written.
Found ==
    \A k \in Keyset : entry[k] # "none" /\ k \notin disturbed =>
        \/ k \in registry
        \/ \E w \in Writer : writer[w].pc \in {"read", "list"} /\ writer[w].keyset = k

\* A write that is not disturbed does not put an active keyset back.
Checked ==
    \A w \in Writer : writer[w].pc \in {"pending", "entry"} =>
        /\ writer[w].status # "none"
        /\ entry[writer[w].keyset] = "active" /\ writer[w].keyset \notin disturbed
              => writer[w].status = "active"

FoundInv == Overlap /\ ReadFresh /\ Named /\ Found /\ Checked

\* What a step changes and what it leaves alone, for each caller.
LEMMA BeginKeeps ==
    ASSUME TypeOK, FoundInv, NEW w \in Writer, NEW k \in Keyset, NEW s \in Status \ {"none"},
           Begin(w, k, s), entry[k] = "active" => s = "active"
    PROVE  FoundInv'
<1>1. /\ writer'[w] = [pc |-> "pending", keyset |-> k, status |-> s, ids |-> {}]
      /\ \A v \in Writer : v # w => writer'[v] = writer[v]
      /\ UNCHANGED <<entry, registry, pending>>
      /\ writer[w].pc = "idle" /\ disturbed \subseteq disturbed'
  BY DEF Begin, TypeOK, stored
<1>2. Overlap'
  <2>2. CASE Running = {}
    BY <1>1, <2>2 DEF Overlap, Running
  <2>3. CASE Running # {}
    BY <1>1, <2>3 DEF FoundInv, Overlap, Begin, Writing, Running
  <2> QED BY <2>2, <2>3
<1>3. ReadFresh' /\ Named' /\ Found'
  BY <1>1 DEF FoundInv, ReadFresh, Named, Found, At
<1>4. Checked'
  BY <1>1 DEF FoundInv, Checked
<1> QED BY <1>2, <1>3, <1>4 DEF FoundInv

LEMMA FoundStep == TypeOK /\ FoundInv /\ [Next]_vars => FoundInv'
<1> SUFFICES ASSUME TypeOK, FoundInv, [Next]_vars PROVE FoundInv'
  OBVIOUS
<1> USE DEF At
<1>1. ASSUME NEW w \in Writer, EnsureCurrent(w) PROVE FoundInv'
  BY <1>1, EnsureBegins, BeginKeeps DEF TypeOK
<1>2. ASSUME NEW w \in Writer, NEW k \in Keyset, Import(w, k) PROVE FoundInv'
  BY <1>2, BeginKeeps DEF Import, Status
<1>3. ASSUME NEW k \in Keyset, Rotate(k) PROVE FoundInv'
  BY <1>3 DEF Rotate, FoundInv, Overlap, ReadFresh, Named, Found, Checked, stored, Running
<1>4. ASSUME NEW w \in Writer, WriteKeyset(w) PROVE FoundInv'
  <2> DEFINE K == writer[w].keyset
  <2>1. /\ writer[w] \in Write /\ K \in Keyset /\ w \in Running
        /\ \A v \in Writer : writer[v] \in Write
    BY <1>4 DEF TypeOK, Write, WriteKeyset, WritePending, WriteEntry, ReadList, WriteList,
                ClearPending, Running
  <2>2. ASSUME K \notin disturbed PROVE \A v \in Writer : v # w => writer[v].pc = "idle"
    BY <2>1, <2>2 DEF FoundInv, Overlap, Running
  <2>3. ASSUME K \in disturbed
        PROVE  \A v \in Writer : v # w /\ writer[v].keyset \notin disturbed => writer[v].pc = "idle"
    BY <2>1 DEF FoundInv, Overlap, Running
  <2>4. CASE WritePending(w)
    <3>1. /\ writer'[w] = [writer[w] EXCEPT !.pc = "entry"] /\ writer[w].pc = "pending"
          /\ \A v \in Writer : v # w => writer'[v] = writer[v]
          /\ pending' = K /\ UNCHANGED <<entry, registry, disturbed>>
      BY <2>4 DEF WritePending, Goto, TypeOK
    <3> QED BY <2>1, <2>2, <2>3, <3>1
            DEF FoundInv, Overlap, ReadFresh, Named, Found, Checked, Running, Write
  <2>5. CASE WriteEntry(w)
    <3>1. /\ writer'[w] = [writer[w] EXCEPT !.pc = "read"] /\ writer[w].pc = "entry"
          /\ \A v \in Writer : v # w => writer'[v] = writer[v]
          /\ \A k \in Keyset : k # K => entry'[k] = entry[k]
          /\ UNCHANGED <<pending, registry, disturbed>>
      BY <2>5 DEF WriteEntry, Goto, TypeOK
    <3> QED BY <2>1, <2>2, <2>3, <3>1
            DEF FoundInv, Overlap, ReadFresh, Named, Found, Checked, Running, Write
  <2>6. CASE ReadList(w)
    <3>1. /\ writer'[w] = [writer[w] EXCEPT !.pc = IF K \in registry THEN "clear" ELSE "list",
                                            !.ids = registry]
          /\ \A v \in Writer : v # w => writer'[v] = writer[v]
          /\ UNCHANGED <<entry, pending, registry, disturbed>>
      BY <2>6 DEF ReadList, TypeOK, stored
    <3>2. writer'[w].keyset = K /\ writer'[w].ids = registry /\ writer[w].pc = "read"
      <4>1. writer[w].pc = "read"
        BY <2>6 DEF ReadList
      <4> QED BY <2>1, <3>1, <4>1 DEF Write
    <3>3. writer'[w].pc = IF K \in registry THEN "clear" ELSE "list"
      BY <2>1, <3>1 DEF Write
    <3>4. \A v \in Writer : v # w => writer'[v] = writer[v]
      BY <3>1
    <3>5. UNCHANGED <<entry, pending, registry, disturbed>>
      BY <3>1
    <3>6. Overlap'
      BY <3>2, <3>3, <3>4, <3>5 DEF FoundInv, Overlap
    <3>7. ReadFresh'
      BY <3>2, <3>3, <3>4, <3>5 DEF FoundInv, ReadFresh
    <3>8. Named'
      BY <3>2, <3>3, <3>4, <3>5 DEF FoundInv, Named
    <3>9. Found'
      BY <3>2, <3>3, <3>4, <3>5 DEF FoundInv, Found
    <3>10. Checked'
      BY <3>2, <3>3, <3>4, <3>5 DEF FoundInv, Checked
    <3> QED BY <3>6, <3>7, <3>8, <3>9, <3>10 DEF FoundInv
  <2>7. CASE WriteList(w)
    <3>1. writer'[w] = [writer[w] EXCEPT !.pc = "clear"]
      BY <2>7 DEF WriteList, Goto, TypeOK
    <3>2. /\ writer'[w].pc = "clear" /\ writer'[w].keyset = K /\ writer[w].pc = "list"
          /\ \A v \in Writer : v # w => writer'[v] = writer[v]
          /\ registry' = writer[w].ids \union {K} /\ UNCHANGED <<entry, pending, disturbed>>
      BY <2>1, <2>7, <3>1 DEF Write, WriteList, Goto, TypeOK
    <3>3. \A k \in Keyset \ disturbed : k \in registry' <=> k \in registry \/ k = K
      BY <3>2 DEF FoundInv, ReadFresh
    <3>4. Overlap'
      BY <3>2 DEF FoundInv, Overlap
    <3>5. ReadFresh'
      <4> SUFFICES ASSUME NEW v \in Writer, writer'[v].pc = "list"
                   PROVE  \A k \in Keyset \ disturbed' : k \in registry' <=> k \in writer'[v].ids
        BY DEF ReadFresh
      <4>1. v # w /\ writer'[v] = writer[v] /\ K \in disturbed
        BY <3>2 DEF FoundInv, Overlap
      <4> QED BY <3>2, <3>3, <4>1 DEF FoundInv, ReadFresh
    <3>6. Named'
      BY <2>2, <2>3, <3>2 DEF FoundInv, Named
    <3>7. Found'
      BY <2>1, <3>2, <3>3 DEF FoundInv, Found
    <3>8. Checked'
      BY <3>2 DEF FoundInv, Checked
    <3> QED BY <3>4, <3>5, <3>6, <3>7, <3>8 DEF FoundInv
  <2>8. CASE ClearPending(w)
    <3>1. /\ writer'[w] = NoWrite /\ writer[w].pc = "clear" /\ pending' = NoKeyset
          /\ \A v \in Writer : v # w => writer'[v] = writer[v]
          /\ UNCHANGED <<entry, registry, disturbed>>
      BY <2>8 DEF ClearPending, TypeOK
    <3> QED BY <2>1, <2>2, <2>3, <3>1
            DEF FoundInv, Overlap, ReadFresh, Named, Found, Checked, Running, Write, NoWrite
  <2> QED BY <1>4, <2>4, <2>5, <2>6, <2>7, <2>8 DEF WriteKeyset
<1>5. ASSUME Crash PROVE FoundInv'
  <2>1. /\ \A v \in Writer : writer'[v] = NoWrite
        /\ \A v \in Writer : writer[v].pc # "idle" => writer[v].keyset \in disturbed'
        /\ disturbed \subseteq disturbed' /\ UNCHANGED <<entry, registry, pending>>
    BY <1>5 DEF Crash, Writing, Running, stored
  <2> QED BY <2>1 DEF FoundInv, Overlap, ReadFresh, Named, Found, Checked, Running, NoWrite
<1>6. ASSUME UNCHANGED vars PROVE FoundInv'
  BY <1>6 DEF vars, stored, FoundInv, Overlap, ReadFresh, Named, Found, Checked, Running
<1> QED BY <1>1, <1>2, <1>3, <1>4, <1>5, <1>6 DEF Next

LEMMA FoundHolds == Spec => [](TypeOK /\ FoundInv)
<1>1. Init => TypeOK /\ FoundInv
  <2> SUFFICES ASSUME Init PROVE FoundInv
    BY InitType
  <2>1. \A k \in Keyset : entry[k] # "none" => k \in registry
    BY DEF Init
  <2>2. \A w \in Writer : writer[w].pc = "idle"
    BY DEF Init, NoWrite
  <2> QED BY <2>1, <2>2 DEF FoundInv, Overlap, ReadFresh, Named, Found, Checked, Running, At
<1>2. TypeOK /\ FoundInv /\ [Next]_vars => (TypeOK /\ FoundInv)'
  BY StepType, FoundStep
<1> QED BY <1>1, <1>2, PTL DEF Spec

\* However many callers there are and whenever the process ends, a stored keyset
\* that cannot be found is one whose own write was cut off or overlapped
\* another (key_material_registry.dart:154-169).
THEOREM LossNeedsOverlap == Spec => []LossExplained
<1>1. TypeOK /\ FoundInv => LossExplained
  BY DEF FoundInv, Found, Named, LossExplained, Listed
<1> QED BY <1>1, FoundHolds, PTL

\* A keyset the device works with is put back only when two callers were
\* writing it, or it and another one, at the same time.
THEOREM RestoreKeeps == Spec => OverwrittenInOverlap
<1> DEFINE Kept == \A k \in Keyset : entry[k] = "active" /\ entry'[k] # "active" => k \in disturbed
<1>1. TypeOK /\ FoundInv /\ [Next]_vars => Kept
  <2> SUFFICES ASSUME TypeOK, FoundInv, [Next]_vars, NEW k \in Keyset,
                      entry[k] = "active", entry'[k] # "active"
               PROVE  k \in disturbed
    OBVIOUS
  <2>1. PICK w \in Writer : WriteEntry(w)
    BY DEF Next, vars, stored, EnsureCurrent, Import, Begin, Rotate, WriteKeyset, WritePending,
           ReadList, WriteList, ClearPending, Crash
  <2>2. writer[w].pc = "entry" /\ k = writer[w].keyset /\ writer[w].status # "active"
    BY <2>1 DEF WriteEntry, At, TypeOK
  <2> QED BY <2>2 DEF FoundInv, Checked
<1>2. TypeOK /\ FoundInv /\ [Next]_vars => [Kept]_vars
  BY <1>1
<1> QED BY <1>2, FoundHolds, PTL DEF Spec, OverwrittenInOverlap
=============================================================================
