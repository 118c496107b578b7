------------------------- MODULE MessageSyncProofs -------------------------
(***************************************************************************)
(* Polling leaves no gap below its cursor but for the messages it had      *)
(* passed when their transaction committed, for any number of messages, of *)
(* transactions at a time, any page size, and any events, own sends,       *)
(* failures and restarts in between.                                       *)
(***************************************************************************)
EXTENDS MessageSync, FiniteSetTheorems, TLAPS

USE SyncAssumption

-----------------------------------------------------------------------------
(* Type correctness.                                                       *)

LEMMA NoSyncType == NoSync \in Sync /\ NoSync.pc = "idle"
BY DEF NoSync, Sync, Plain

LEMMA DecryptedType ==
    ASSUME TypeOK, NEW m \in Id
    PROVE  Decrypted(m) \in {"marker", "text"} /\ CachedNow(m) \in [Id -> Plain]
BY DEF TypeOK, Plain, Decrypted, CachedNow

LEMMA InitType == Init => TypeOK
BY NoSyncType DEF Init, TypeOK, Plain

LEMMA FaultType == ASSUME TypeOK, Fault PROVE faults' \in 0..MaxFault
<1>1. faults \in 0..MaxFault
  BY DEF TypeOK
<1>2. MaxFault \in Nat
  BY DEF SyncAssumption
<1> QED BY <1>1, <1>2, SMT DEF Fault

LEMMA ServerType == ASSUME TypeOK, NEW m \in Id, Server(m) PROVE TypeOK'
<1>1. CASE Insert(m)
  BY <1>1 DEF Insert, TypeOK, Plain
<1>2. CASE Commit(m)
  BY <1>2 DEF Commit, TypeOK, local
<1>3. CASE RollBack(m)
  BY <1>3, FaultType DEF RollBack, TypeOK, local
<1> QED BY <1>1, <1>2, <1>3 DEF Server

\* A step of a synchronisation that puts one record in the place of another.
LEMMA SyncSet ==
    ASSUME TypeOK, NEW p \in Syncer, NEW s \in Sync, sync' = [sync EXCEPT ![p] = s]
    PROVE  sync' \in [Syncer -> Sync]
BY DEF TypeOK

LEMMA PageType ==
    ASSUME NEW s \in Sync, NEW page \in SUBSET Id, NEW mine \in SUBSET Id
    PROVE  /\ [s EXCEPT !.pc = "store", !.page = page, !.todo = page] \in Sync
           /\ [s EXCEPT !.pc = "store", !.page = page, !.todo = page, !.mine = mine] \in Sync
           /\ [s EXCEPT !.pc = "repair"] \in Sync
BY DEF Sync

LEMMA StoreType ==
    ASSUME TypeOK, NEW p \in Syncer, NEW m \in Id, Resolve(p, m) \/ Persist(p, m) PROVE TypeOK'
<1>0. sync[p] \in Sync
  BY DEF TypeOK
<1>1. CASE Resolve(p, m)
  <2> DEFINE plain == IF m \in sync[p].mine THEN "text" ELSE Decrypted(m)
  <2>1. plain \in Plain
    BY DecryptedType DEF Plain
  <2>2. [sync[p] EXCEPT !.plain = plain] \in Sync
    <3> HIDE DEF plain
    <3> QED BY <1>0, <2>1 DEF Sync
  <2>3. sync' \in [Syncer -> Sync]
    BY <1>1, <2>2, SyncSet DEF Resolve
  <2> QED BY <1>1, <2>3, DecryptedType DEF Resolve, TypeOK, server
<1>2. CASE Persist(p, m)
  <2>1. [sync[p] EXCEPT !.todo = sync[p].todo \ {m}, !.plain = "none"] \in Sync
    BY <1>0 DEF Sync, Plain
  <2>2. sync' = [sync EXCEPT ![p] = [sync[p] EXCEPT !.todo = sync[p].todo \ {m}, !.plain = "none"]]
    BY <1>2 DEF Persist, TypeOK
  <2>3. sync' \in [Syncer -> Sync]
    BY <2>1, <2>2, SyncSet
  <2>4. rows' \in [Id -> Plain]
    BY <1>0, <1>2 DEF Persist, TypeOK, Sync
  <2> QED BY <1>2, <2>3, <2>4 DEF Persist, TypeOK, server
<1> QED BY <1>1, <1>2

LEMMA PollType == ASSUME TypeOK, Poll PROVE TypeOK'
<1>0. "poll" \in Syncer /\ sync["poll"] \in Sync /\ sync \in [Syncer -> Sync]
  BY DEF TypeOK, Syncer
<1>1. CASE PollStart
  <2>1. PICK window \in SUBSET Stored :
          sync' = [sync EXCEPT !["poll"] =
             [sync["poll"] EXCEPT !.pc = "fetch",
                !.after = IF window = {} THEN 0 ELSE cursor,
                !.mine = {m \in window : rows[m] = "text"} \intersect Mine,
                !.broken = {m \in window : rows[m] = "marker"}]]
    BY <1>0, <1>1 DEF PollStart
  <2> DEFINE after == IF window = {} THEN 0 ELSE cursor
             mine == {m \in window : rows[m] = "text"} \intersect Mine
             broken == {m \in window : rows[m] = "marker"}
  <2>2. after \in Id \union {0} /\ mine \in SUBSET Id /\ broken \in SUBSET Id
    BY DEF TypeOK, Stored
  <2>3. [sync["poll"] EXCEPT !.pc = "fetch", !.after = after, !.mine = mine, !.broken = broken] \in Sync
    <3> HIDE DEF after, mine, broken
    <3> QED BY <1>0, <2>2 DEF Sync
  <2>4. sync' \in [Syncer -> Sync]
    BY <1>0, <2>1, <2>3, SyncSet
  <2> QED BY <1>1, <2>4 DEF PollStart, TypeOK, server, local
<1>2. CASE PollFetch
  <2>1. PICK page \in SUBSET Committed :
          sync' = [sync EXCEPT !["poll"] =
             [sync["poll"] EXCEPT !.pc = "store", !.page = page, !.todo = page]]
    BY <1>0, <1>2 DEF PollFetch
  <2>2. sync' \in [Syncer -> Sync]
    BY <1>0, <2>1, PageType, SyncSet DEF Committed
  <2> QED BY <1>2, <2>2 DEF PollFetch, TypeOK, server, local
<1>3. CASE PollNothing
  <2>1. sync' = [sync EXCEPT !["poll"] = [sync["poll"] EXCEPT !.pc = "repair"]]
    BY <1>0, <1>3 DEF PollNothing
  <2>2. sync' \in [Syncer -> Sync]
    BY <1>0, <2>1, PageType, SyncSet
  <2> QED BY <1>3, <2>2 DEF PollNothing, TypeOK, server, local
<1>4. CASE PollEnd
  BY <1>0, <1>4, NoSyncType, SyncSet DEF PollEnd, TypeOK, server, local
<1>5. ASSUME NEW m \in Id, Resolve("poll", m) \/ Persist("poll", m) PROVE TypeOK'
  BY <1>0, <1>5, StoreType
<1>6. ASSUME NEW m \in Id, PollSave(m) PROVE TypeOK'
  <2>1. sync' = [sync EXCEPT !["poll"] = [sync["poll"] EXCEPT !.pc = "repair"]]
    BY <1>0, <1>6 DEF PollSave
  <2>2. sync' \in [Syncer -> Sync]
    BY <1>0, <2>1, PageType, SyncSet
  <2>3. cursor' \in Id \union {0} /\ start' \in Id \union {0}
    BY <1>0, <1>6 DEF PollSave, TypeOK, Sync
  <2> QED BY <1>6, <2>2, <2>3 DEF PollSave, TypeOK, server, local
<1>7. ASSUME NEW m \in Id, PollRepair(m) PROVE TypeOK'
  <2>1. sync' = [sync EXCEPT !["poll"] = [sync["poll"] EXCEPT !.broken = sync["poll"].broken \ {m}]]
    BY <1>0, <1>7 DEF PollRepair
  <2>2. [sync["poll"] EXCEPT !.broken = sync["poll"].broken \ {m}] \in Sync
    BY <1>0 DEF Sync
  <2>3. sync' \in [Syncer -> Sync]
    BY <1>0, <2>1, <2>2, SyncSet
  <2>4. rows' \in [Id -> Plain]
    BY <1>7 DEF PollRepair, TypeOK, Plain
  <2> QED BY <1>7, <2>3, <2>4, DecryptedType DEF PollRepair, TypeOK, server
<1> QED BY <1>1, <1>2, <1>3, <1>4, <1>5, <1>6, <1>7 DEF Poll

LEMMA OlderType == ASSUME TypeOK, Older PROVE TypeOK'
<1>0. "older" \in Syncer /\ sync["older"] \in Sync /\ sync \in [Syncer -> Sync]
  BY DEF TypeOK, Syncer
<1>1. CASE OlderStart
  <2> DEFINE mine == {m \in Mine : rows[m] = "text"}
  <2>1. PICK page \in SUBSET Committed :
          sync' = [sync EXCEPT !["older"] =
             [sync["older"] EXCEPT !.pc = "store", !.page = page, !.todo = page, !.mine = mine]]
    BY <1>0, <1>1 DEF OlderStart
  <2>2. mine \in SUBSET Id /\ page \in SUBSET Id
    BY DEF Committed
  <2> HIDE DEF mine
  <2>3. sync' \in [Syncer -> Sync]
    BY <1>0, <2>1, <2>2, PageType, SyncSet
  <2> QED BY <1>1, <2>3 DEF OlderStart, TypeOK, server, local
<1>2. CASE OlderEnd
  BY <1>0, <1>2, NoSyncType, SyncSet DEF OlderEnd, TypeOK, server, local
<1>3. ASSUME NEW m \in Id, Resolve("older", m) \/ Persist("older", m) PROVE TypeOK'
  BY <1>0, <1>3, StoreType
<1> QED BY <1>1, <1>2, <1>3 DEF Older

LEMMA StepType == TypeOK /\ [Next]_vars => TypeOK'
<1> SUFFICES ASSUME TypeOK, [Next]_vars PROVE TypeOK'
  OBVIOUS
<1>1. ASSUME NEW m \in Id, KeyArrives(m) PROVE TypeOK'
  BY <1>1 DEF KeyArrives, TypeOK, server, local
<1>2. ASSUME NEW m \in Id, Evict(m) PROVE TypeOK'
  BY <1>2, FaultType DEF Evict, TypeOK, server, Plain
<1>3. ASSUME NEW m \in Id, OwnSent(m) PROVE TypeOK'
  BY <1>3 DEF OwnSent, TypeOK, server, Plain
<1>4. ASSUME NEW m \in Id, EventDecrypt(m) PROVE TypeOK'
  BY <1>4, DecryptedType DEF EventDecrypt, TypeOK, server, Plain
<1>5. ASSUME NEW m \in Id, EventPersist(m) PROVE TypeOK'
  BY <1>5 DEF EventPersist, TypeOK, server, Plain
<1>6. ASSUME NEW p \in Syncer, SyncFail(p) PROVE TypeOK'
  <2>1. sync' \in [Syncer -> Sync]
    BY <1>6, NoSyncType, SyncSet DEF SyncFail
  <2>2. faults' \in 0..MaxFault
    BY <1>6, FaultType DEF SyncFail
  <2> QED BY <1>6, <2>1, <2>2 DEF SyncFail, TypeOK, server, local
<1>7. CASE Restart
  <2>1. faults' \in 0..MaxFault
    BY <1>7, FaultType DEF Restart
  <2> QED BY <1>7, <2>1, NoSyncType DEF Restart, TypeOK, server, local, Plain
<1>8. CASE UNCHANGED vars
  BY <1>8 DEF vars, TypeOK
<1> QED
  BY <1>1, <1>2, <1>3, <1>4, <1>5, <1>6, <1>7, <1>8, ServerType, PollType, OlderType DEF Next, Event

\* Every variable of the server and the client has its type.
THEOREM TypeCorrect == Spec => []TypeOK
BY InitType, StepType, PTL DEF Spec

-----------------------------------------------------------------------------
(* No gap.                                                                 *)

\* Committed before any poll had passed them.
OnTime == Committed \ late

\* The messages a page that was fetched with this cursor accounts for.
Covers(page, after) ==
    \A x \in page, m \in OnTime :
        m <= x /\ (IF after = 0 THEN \E y \in page : y <= m ELSE after < m) => m \in page

\* A poll works with the cursor it read; what it fetched is committed and, but
\* for what is left to store, in the rows.
PollInv ==
    LET s == sync["poll"] IN
    /\ s.pc \in {"fetch", "store"} => s.after = cursor
    /\ s.pc = "store" =>
          /\ s.page \subseteq Committed
          /\ \A m \in s.page \ s.todo : rows[m] # "none"
          /\ Covers(s.page, s.after)
          /\ s.after # 0 => \A m \in s.page : s.after < m

CursorReached == cursor # 0 => cursor \in Committed /\ rows[cursor] # "none"

GapInv == PollInv /\ CursorReached /\ NoGap

\* What is committed stays so; what is committed now is late, or later than
\* what a poll has fetched and than the cursor.
LEMMA CommittedGrows ==
    ASSUME TypeOK, [Next]_vars
    PROVE  /\ Committed \subseteq Committed'
           /\ \A m \in OnTime' : m \in OnTime \/ (~Passed(m) /\ m \notin Committed)
<1>1. ASSUME NEW m \in Id, Commit(m)
      PROVE  /\ Committed' = Committed \union {m} /\ m \notin Committed
             /\ late' = IF Passed(m) THEN late \union {m} ELSE late
    BY <1>1 DEF Commit, TypeOK, Committed
<1>2. ASSUME NEW m \in Id, Insert(m) \/ RollBack(m) PROVE Committed' = Committed /\ late' = late
  BY <1>2 DEF Insert, RollBack, TypeOK, Committed
<1>3. ASSUME UNCHANGED <<status, late>> PROVE Committed' = Committed /\ late' = late
  BY <1>3 DEF Committed
<1>4. \/ UNCHANGED <<status, late>>
      \/ \E m \in Id : Insert(m) \/ RollBack(m) \/ Commit(m)
  BY DEF Next, Server, KeyArrives, Evict, OwnSent, Event, EventDecrypt, EventPersist,
     Poll, PollStart, PollFetch, PollNothing, PollEnd, Resolve, Persist, PollSave, PollRepair,
     Older, OlderStart, OlderEnd, SyncFail, Restart, vars, server
<1>5. ASSUME NEW m \in Id, Commit(m)
      PROVE  /\ Committed \subseteq Committed'
             /\ \A n \in OnTime' : n \in OnTime \/ (~Passed(n) /\ n \notin Committed)
  BY <1>1, <1>5 DEF OnTime
<1>6. CASE Committed' = Committed /\ late' = late
  <2>1. OnTime' = OnTime
    BY <1>6 DEF OnTime
  <2> QED BY <1>6, <2>1
<1> QED BY <1>2, <1>3, <1>4, <1>5, <1>6

\* No step removes a row.
LEMMA RowsStay ==
    ASSUME TypeOK, [Next]_vars, NEW m \in Id, rows[m] # "none" PROVE rows'[m] # "none"
<1>1. CASE UNCHANGED rows
  BY <1>1
<1>2. ASSUME NEW p \in Syncer, NEW n \in Id, Persist(p, n) PROVE rows'[m] # "none"
  BY <1>2 DEF Persist, TypeOK
<1>3. ASSUME NEW n \in Id, PollRepair(n) PROVE rows'[m] # "none"
  BY <1>3 DEF PollRepair, TypeOK
<1>4. ASSUME NEW n \in Id, OwnSent(n) \/ EventPersist(n) PROVE rows'[m] # "none"
  BY <1>4 DEF OwnSent, EventPersist, TypeOK
<1> QED
  BY <1>1, <1>2, <1>3, <1>4 DEF Next, Server, Insert, Commit, RollBack, KeyArrives, Evict, Event, EventDecrypt,
     Poll, PollStart, PollFetch, PollNothing, PollEnd, Resolve, PollSave,
     Older, OlderStart, OlderEnd, SyncFail, Restart, vars, local, Syncer

\* A step that leaves the cursor and, of the poll, all but what is done alone.
LEMMA OtherStep ==
    ASSUME TypeOK, GapInv, [Next]_vars, UNCHANGED <<cursor, start>>,
           \/ sync'["poll"].pc \notin {"fetch", "store"}
           \/ /\ sync'["poll"].pc = sync["poll"].pc /\ sync'["poll"].after = sync["poll"].after
              /\ sync'["poll"].page = sync["poll"].page
              /\ \A m \in sync["poll"].todo \ sync'["poll"].todo : rows'[m] # "none"
    PROVE  GapInv'
<1>0. sync["poll"] \in Sync /\ cursor \in Id \union {0}
  BY DEF TypeOK, Syncer
<1>2. PollInv'
  <2>1. CASE sync'["poll"].pc \notin {"fetch", "store"}
    BY <2>1 DEF PollInv
  <2>2. CASE /\ sync'["poll"].pc = sync["poll"].pc /\ sync'["poll"].after = sync["poll"].after
             /\ sync'["poll"].page = sync["poll"].page
             /\ \A m \in sync["poll"].todo \ sync'["poll"].todo : rows'[m] # "none"
    <3>1. sync'["poll"].pc = "fetch" => sync'["poll"].after = cursor'
      BY <2>2 DEF GapInv, PollInv
    <3>2. ASSUME sync["poll"].pc = "store"
          PROVE  /\ sync["poll"].after = cursor' /\ sync["poll"].page \subseteq Committed'
                 /\ \A m \in sync["poll"].page \ sync'["poll"].todo : rows'[m] # "none"
      <4>1. sync["poll"].page \subseteq Committed /\ sync["poll"].after = cursor
        BY <3>2 DEF GapInv, PollInv
      <4>2. Committed \subseteq Committed'
        BY CommittedGrows
      <4>3. \A m \in sync["poll"].page \ sync["poll"].todo : m \in Id /\ rows[m] # "none"
        BY <1>0, <3>2 DEF GapInv, PollInv, Sync
      <4>4. \A m \in sync["poll"].page \ sync["poll"].todo : rows'[m] # "none"
        BY <4>3, RowsStay
      <4> QED BY <2>2, <4>1, <4>2, <4>4
    <3>3. ASSUME sync["poll"].pc = "store"
          PROVE  Covers(sync["poll"].page, sync["poll"].after)'
      <4> DEFINE page == sync["poll"].page
                 after == sync["poll"].after
      <4>1. page \subseteq Committed /\ Covers(page, after)
        BY <3>3 DEF GapInv, PollInv
      <4>2. ASSUME NEW x \in page, NEW m \in OnTime', m <= x PROVE m \in OnTime
        <5>1. CASE ~Passed(m) /\ m \notin Committed
          <6>1. m # x /\ m \in Id /\ x \in Id
            BY <4>1, <4>2, <5>1 DEF Committed, OnTime
          <6>2. m < x
            BY <4>2, <6>1, SMT DEF Id
          <6> QED BY <3>3, <5>1, <6>2 DEF Passed
        <5> QED BY <4>2, <5>1, CommittedGrows
      <4>3. \A x \in page, m \in OnTime' :
               m <= x /\ (IF after = 0 THEN \E y \in page : y <= m ELSE after < m) => m \in page
        BY <4>1, <4>2 DEF Covers
      <4>4. sync'["poll"].page = page /\ sync'["poll"].after = after
        BY <2>2
      <4> QED BY <4>3, <4>4 DEF Covers
    <3>4. ASSUME sync["poll"].pc = "store", sync["poll"].after # 0
          PROVE  \A m \in sync["poll"].page : sync["poll"].after < m
      BY <3>4 DEF GapInv, PollInv
    <3> QED BY <2>2, <3>1, <3>2, <3>3, <3>4 DEF PollInv
  <2> QED BY <2>1, <2>2
<1>3. CursorReached'
  BY <1>0, CommittedGrows, RowsStay DEF GapInv, CursorReached
<1>4. NoGap'
  <2> SUFFICES ASSUME cursor # 0, NEW m \in OnTime', start <= m, m <= cursor
               PROVE  rows'[m] # "none"
    BY DEF NoGap, OnTime
  <2>1. m \in Id /\ cursor \in Id
    BY <1>0 DEF Committed, OnTime
  <2>2. m \in OnTime
    BY CommittedGrows DEF Passed
  <2> QED BY <2>1, <2>2, RowsStay DEF GapInv, NoGap, OnTime
<1> QED BY <1>2, <1>3, <1>4 DEF GapInv

LEMMA PollStartStep == ASSUME TypeOK, GapInv, PollStart PROVE GapInv'
<1>0. sync \in [Syncer -> Sync] /\ sync["poll"] \in Sync /\ "poll" \in Syncer
  BY DEF TypeOK, Syncer
<1>1. PICK window \in SUBSET Stored :
        /\ IsNewest(window, Stored)
        /\ sync' = [sync EXCEPT !["poll"] =
             [sync["poll"] EXCEPT !.pc = "fetch",
                !.after = IF window = {} THEN 0 ELSE cursor,
                !.mine = {m \in window : rows[m] = "text"} \intersect Mine,
                !.broken = {m \in window : rows[m] = "marker"}]]
  BY <1>0 DEF PollStart
<1>2. window = {} => cursor = 0
  <2>1. ASSUME window = {} PROVE Stored = {}
    <3>1. Cardinality(window) # Page
      BY <2>1, FS_EmptySet, SMT
    <3> QED BY <1>1, <2>1, <3>1 DEF IsNewest
  <2> QED BY <2>1 DEF GapInv, CursorReached, Stored, TypeOK
<1>3. sync'["poll"].pc = "fetch" /\ sync'["poll"].after = cursor
  <2> DEFINE after == IF window = {} THEN 0 ELSE cursor
             mine == {m \in window : rows[m] = "text"} \intersect Mine
             broken == {m \in window : rows[m] = "marker"}
             s == [sync["poll"] EXCEPT !.pc = "fetch", !.after = after, !.mine = mine, !.broken = broken]
  <2>1. s.pc = "fetch" /\ s.after = after
    <3> HIDE DEF after, mine, broken
    <3> QED BY <1>0 DEF Sync
  <2>2. after = cursor
    BY <1>2
  <2>3. sync'["poll"] = s
    BY <1>0, <1>1
  <2> HIDE DEF s, after
  <2> QED BY <2>1, <2>2, <2>3
<1>4. UNCHANGED <<status, late, rows, cursor, start>>
  BY DEF PollStart, server, local
<1> QED BY <1>3, <1>4 DEF GapInv, PollInv, CursorReached, NoGap, Covers, OnTime, Committed

LEMMA PollFetchStep == ASSUME TypeOK, GapInv, PollFetch PROVE GapInv'
<1> DEFINE after == sync["poll"].after
<1>0. /\ sync \in [Syncer -> Sync] /\ sync["poll"] \in Sync /\ "poll" \in Syncer
      /\ after \in Id \union {0} /\ after = cursor
  BY DEF TypeOK, Syncer, Sync, GapInv, PollInv, PollFetch
<1>1. PICK page \in SUBSET Committed :
        /\ IF after = 0 THEN IsNewest(page, Committed)
           ELSE IsOldest(page, {m \in Committed : m > after})
        /\ sync' = [sync EXCEPT !["poll"] =
             [sync["poll"] EXCEPT !.pc = "store", !.page = page, !.todo = page]]
  BY <1>0 DEF PollFetch
<1>2. /\ sync'["poll"].pc = "store" /\ sync'["poll"].after = after
      /\ sync'["poll"].page = page /\ sync'["poll"].todo = page
  <2>1. sync'["poll"] = [sync["poll"] EXCEPT !.pc = "store", !.page = page, !.todo = page]
    BY <1>0, <1>1
  <2> QED BY <1>0, <2>1 DEF Sync
<1>3. \A m, n \in Committed : m \in Nat /\ (m < n => ~(n <= m))
  BY SMT DEF Committed, Id
<1>4. Covers(page, after)
  <2> SUFFICES ASSUME NEW x \in page, NEW m \in OnTime, m <= x, m \notin page,
                      IF after = 0 THEN \E y \in page : y <= m ELSE after < m
               PROVE  FALSE
    BY DEF Covers
  <2>0. m \in Committed
    BY DEF OnTime
  <2>1. CASE after = 0
    BY <1>1, <1>3, <2>0, <2>1 DEF IsNewest
  <2>2. CASE after # 0
    <3>1. m > after
      BY <1>0, <1>3, <2>0, <2>2, SMT DEF Id
    <3> QED BY <1>1, <1>3, <2>0, <2>2, <3>1 DEF IsOldest
  <2> QED BY <2>1, <2>2
<1>5. UNCHANGED <<status, late, rows, cursor, start>>
  BY DEF PollFetch, server, local
<1>6. Committed' = Committed
  BY <1>5 DEF Committed
<1>7. PollInv'
  <2>1. Covers(sync["poll"].page, sync["poll"].after)'
    BY <1>2, <1>4, <1>5, <1>6 DEF Covers, OnTime
  <2>2. sync'["poll"].after = cursor'
    BY <1>0, <1>2, <1>5
  <2>3. after # 0 => \A m \in page : after < m
    <3>1. \A m \in Committed : m > after => after < m
      BY <1>0, <1>3, SMT DEF Id
    <3> QED BY <1>1, <3>1 DEF IsOldest
  <2> HIDE DEF after
  <2> QED BY <1>2, <1>6, <2>1, <2>2, <2>3 DEF PollInv
<1> QED BY <1>5, <1>6, <1>7 DEF GapInv, CursorReached, NoGap

LEMMA PollSaveStep == ASSUME TypeOK, GapInv, NEW x \in Id, PollSave(x) PROVE GapInv'
<1> DEFINE s == sync["poll"]
<1>0. s \in Sync /\ cursor \in Id \union {0} /\ start \in Id \union {0} /\ "poll" \in Syncer
  BY DEF TypeOK, Syncer
<1>1. /\ s.pc = "store" /\ s.todo = {} /\ x \in s.page /\ \A n \in s.page : n <= x
      /\ cursor' = x /\ UNCHANGED <<status, late, rows>>
  BY DEF PollSave, server, local
<1>2. /\ s.after = cursor /\ s.page \subseteq Committed
      /\ \A m \in s.page : rows[m] # "none"
      /\ Covers(s.page, s.after)
  BY <1>1 DEF GapInv, PollInv
<1>3. sync'["poll"].pc = "repair"
  BY <1>0 DEF PollSave, TypeOK, Sync
<1>4. Committed' = Committed
  BY <1>1 DEF Committed
<1>5. NoGap'
  <2> SUFFICES ASSUME NEW m \in OnTime, start' <= m, m <= x
               PROVE  rows[m] # "none"
    BY <1>1, <1>4 DEF NoGap, OnTime
  <2>0. m \in Id
    BY DEF Committed, OnTime
  <2>1. CASE cursor = 0
    <3>1. start' \in s.page
      BY <1>2, <2>1 DEF PollSave
    <3> QED BY <1>1, <1>2, <2>1, <3>1 DEF Covers
  <2>2. CASE cursor # 0 /\ m <= cursor
    <3>1. start' = start
      BY <1>2, <2>2 DEF PollSave
    <3> QED BY <2>2, <3>1 DEF GapInv, NoGap, OnTime
  <2>3. CASE cursor # 0 /\ ~(m <= cursor)
    <3>1. cursor < m
      BY <1>0, <2>0, <2>3, SMT DEF Id
    <3> QED BY <1>1, <1>2, <2>3, <3>1 DEF Covers
  <2> QED BY <2>1, <2>2, <2>3
<1>6. CursorReached'
  BY <1>1, <1>2, <1>4 DEF CursorReached
<1>7. PollInv'
  BY <1>3 DEF PollInv
<1> QED BY <1>5, <1>6, <1>7 DEF GapInv

\* Every other step.
LEMMA FrameStep ==
    ASSUME TypeOK, GapInv, [Next]_vars,
           ~PollStart, ~PollFetch, \A m \in Id : ~PollSave(m)
    PROVE  GapInv'
<1>0. /\ sync \in [Syncer -> Sync] /\ sync["poll"] \in Sync /\ "poll" \in Syncer
      /\ "older" \in Syncer /\ "poll" # "older" /\ rows \in [Id -> Plain]
  BY DEF TypeOK, Syncer
<1>1. CASE UNCHANGED <<cursor, start, sync>>
  BY <1>1, OtherStep
<1>2. CASE PollNothing
  <2>1. sync'["poll"].pc = "repair" /\ UNCHANGED <<cursor, start>>
    BY <1>0, <1>2 DEF PollNothing, Sync
  <2> QED BY <2>1, OtherStep
<1>3. CASE PollEnd
  <2>1. sync'["poll"].pc = "idle" /\ UNCHANGED <<cursor, start>>
    BY <1>0, <1>3, NoSyncType DEF PollEnd
  <2> QED BY <2>1, OtherStep
<1>4. ASSUME NEW m \in Id, Resolve("poll", m) PROVE GapInv'
  <2> DEFINE plain == IF m \in sync["poll"].mine THEN "text" ELSE Decrypted(m)
             s == [sync["poll"] EXCEPT !.plain = plain]
  <2>1. /\ s.pc = sync["poll"].pc /\ s.after = sync["poll"].after
        /\ s.page = sync["poll"].page /\ s.todo = sync["poll"].todo
    <3> HIDE DEF plain
    <3> QED BY <1>0 DEF Sync
  <2>2. sync'["poll"] = s /\ UNCHANGED <<cursor, start>>
    BY <1>0, <1>4 DEF Resolve
  <2> HIDE DEF s
  <2> QED BY <2>1, <2>2, OtherStep
<1>5. ASSUME NEW m \in Id, Persist("poll", m) PROVE GapInv'
  <2> DEFINE s == [sync["poll"] EXCEPT !.todo = sync["poll"].todo \ {m}, !.plain = "none"]
  <2>1. /\ s.pc = sync["poll"].pc /\ s.after = sync["poll"].after
        /\ s.page = sync["poll"].page /\ s.todo = sync["poll"].todo \ {m}
    BY <1>0 DEF Sync
  <2>2. sync' = [sync EXCEPT !["poll"] = s] /\ UNCHANGED <<cursor, start>>
    BY <1>0, <1>5 DEF Persist
  <2>3. rows'[m] # "none"
    BY <1>0, <1>5 DEF Persist
  <2>4. sync'["poll"] = s
    <3> HIDE DEF s
    <3> QED BY <1>0, <2>2
  <2> HIDE DEF s
  <2> QED BY <2>1, <2>2, <2>3, <2>4, OtherStep
<1>6. ASSUME NEW m \in Id, PollRepair(m) PROVE GapInv'
  <2> DEFINE s == [sync["poll"] EXCEPT !.broken = sync["poll"].broken \ {m}]
  <2>1. /\ s.pc = "repair"
    BY <1>0, <1>6 DEF Sync, PollRepair
  <2>2. sync'["poll"] = s /\ UNCHANGED <<cursor, start>>
    BY <1>0, <1>6 DEF PollRepair
  <2> HIDE DEF s
  <2> QED BY <2>1, <2>2, OtherStep
<1>7. CASE sync'["poll"] = sync["poll"] /\ UNCHANGED <<cursor, start>>
  BY <1>7, OtherStep
<1>8. CASE OlderStart \/ OlderEnd
  BY <1>0, <1>7, <1>8 DEF OlderStart, OlderEnd
<1>9. ASSUME NEW m \in Id, Resolve("older", m) \/ Persist("older", m) PROVE GapInv'
  BY <1>0, <1>7, <1>9 DEF Resolve, Persist
<1>10. ASSUME NEW p \in Syncer, SyncFail(p) PROVE GapInv'
  <2>1. UNCHANGED <<cursor, start>>
    BY <1>10 DEF SyncFail
  <2>2. sync'["poll"] = sync["poll"] \/ sync'["poll"].pc = "idle"
    BY <1>0, <1>10, NoSyncType DEF SyncFail
  <2> QED BY <2>1, <2>2, OtherStep
<1>11. CASE Restart
  <2>1. UNCHANGED <<cursor, start>> /\ sync'["poll"].pc = "idle"
    BY <1>0, <1>11, NoSyncType DEF Restart
  <2> QED BY <2>1, OtherStep
<1>12. ASSUME NEW m \in Id, Server(m) \/ KeyArrives(m) \/ Evict(m) \/ OwnSent(m) \/ Event(m)
       PROVE  UNCHANGED <<cursor, start, sync>>
  BY <1>12 DEF Server, Insert, Commit, RollBack, KeyArrives, Evict, OwnSent, Event, EventDecrypt, EventPersist
<1>13. CASE UNCHANGED vars
  BY <1>1, <1>13 DEF vars
<1>14. CASE Poll
  BY <1>2, <1>3, <1>4, <1>5, <1>6, <1>14 DEF Poll
<1>15. CASE Older
  BY <1>8, <1>9, <1>15 DEF Older
<1> QED BY <1>1, <1>10, <1>11, <1>12, <1>13, <1>14, <1>15 DEF Next

LEMMA GapStep == TypeOK /\ GapInv /\ [Next]_vars => GapInv'
BY PollStartStep, PollFetchStep, PollSaveStep, FrameStep

LEMMA GapInvariant == Spec => []GapInv
<1>1. Init => GapInv
  <2> SUFFICES ASSUME Init PROVE GapInv
    OBVIOUS
  <2>1. sync["poll"].pc = "idle"
    BY NoSyncType DEF Init, Syncer
  <2>2. PollInv
    BY <2>1 DEF PollInv
  <2>3. cursor = 0 /\ \A m \in Id : status[m] = "absent"
    BY DEF Init
  <2> QED BY <2>2, <2>3 DEF GapInv, CursorReached, NoGap
<1> QED BY <1>1, GapStep, TypeCorrect, PTL DEF Spec

\* A poll that starts from the cursor of the last one, fetches what follows it
\* and moves the cursor when all of it is stored leaves out what was committed
\* below the page after it was fetched, and nothing else, for any number of
\* transactions at the same time.
THEOREM GapFree == Spec => []NoGap
<1>1. GapInv => NoGap
  BY DEF GapInv
<1> QED BY <1>1, GapInvariant, PTL

-----------------------------------------------------------------------------
(* The position of the client.                                             *)

\* The cursor moves to a message of the page that was fetched with it.
LEMMA CursorStep == ASSUME TypeOK, GapInv, [Next]_vars PROVE cursor <= cursor'
<1>0. cursor \in Nat /\ cursor' \in Nat
  <2>1. cursor \in Id \union {0} /\ cursor' \in Id \union {0}
    BY StepType DEF TypeOK
  <2>2. Id \subseteq Nat
    BY SyncAssumption, SMT DEF Id
  <2> QED BY <2>1, <2>2
<1>1. CASE UNCHANGED cursor
  BY <1>0, <1>1, SMT
<1>2. ASSUME NEW m \in Id, PollSave(m) PROVE cursor <= cursor'
  <2> DEFINE s == sync["poll"]
  <2>1. s.pc = "store" /\ m \in s.page /\ cursor' = m
    BY <1>2 DEF PollSave
  <2>2. s.after = cursor /\ (s.after # 0 => s.after < m)
    BY <2>1 DEF GapInv, PollInv
  <2> HIDE DEF s
  <2>3. cursor = 0 \/ cursor < m
    BY <2>2
  <2> QED BY <1>0, <2>1, <2>3, SMT
<1> QED
  BY <1>1, <1>2 DEF Next, Server, Insert, Commit, RollBack, KeyArrives, Evict, OwnSent, Event,
     EventDecrypt, EventPersist, Poll, PollStart, PollFetch, PollNothing, PollEnd, Resolve, Persist,
     PollRepair, Older, OlderStart, OlderEnd, SyncFail, Restart, vars

\* A poll uses the cursor it read at its start and no other write of the cursor
\* comes between, since polls of a conversation do not overlap; and persistMessage
\* replaces rows.
THEOREM PositionHolds == Spec => PositionKept
<1>1. TypeOK /\ GapInv /\ [Next]_vars => [cursor <= cursor' /\ Stored \subseteq Stored']_vars
  <2> SUFFICES ASSUME TypeOK, GapInv, [Next]_vars PROVE cursor <= cursor' /\ Stored \subseteq Stored'
    OBVIOUS
  <2>1. Stored \subseteq Stored'
    BY RowsStay DEF Stored
  <2> QED BY <2>1, CursorStep
<1> QED BY <1>1, TypeCorrect, GapInvariant, PTL DEF Spec, PositionKept
=============================================================================
