------------------------- MODULE ProviderCallProofs -------------------------
(***************************************************************************)
(* Proofs about ProviderCall for any set of invocations and sessions: the  *)
(* session lock makes every commit start from the latest revision, so the  *)
(* store refines the serial SessionLog, across dropped futures, failed     *)
(* saves and restarts; and a cancellation before the save is final.        *)
(***************************************************************************)
EXTENDS ProviderCall, TLAPS

Results == {"cancelled", "timeout", "error"}

(* How far an invocation has come determines whether it has saved and      *)
(* reported: needed because a restart may strike after the save.           *)
ProgressKnown ==
  \A c \in Calls :
    /\ result[c] # "none" => pc[c] = "ended"
    /\ pc[c] = "caching" => c \in saved
    /\ pc[c] \notin {"caching", "ended"} => c \notin saved

(* A session's lock is only ever held for that session.                    *)
HolderOwns ==
  \A s \in Sessions : holder[s] \in Calls => SessionOf[holder[s]] = s

Safe == SessionExclusive /\ BaseIsCurrent /\ CacheIsCurrent
        /\ ResultMatchesStore /\ ProgressKnown /\ HolderOwns

Inv == TypeOK /\ Safe

(* A snapshot advanced by a commit is a snapshot.                          *)
LEMMA AdvanceType ==
  ASSUME NEW b \in Snapshot, NEW c \in Calls, NEW w \in BOOLEAN
  PROVE  Log!Advance(b, c, w) \in Snapshot
<1>1. Append(b.state, c) \in Seq(Calls) /\ b.state \in Seq(Calls) /\ b.revision + 1 \in Nat
  BY DEF Snapshot
<1> QED
  BY <1>1 DEF Log!Advance, Snapshot

LEMMA FreshType == Log!Fresh \in Snapshot
<1>1. <<>> \in Seq(Calls)
  OBVIOUS
<1> QED
  BY <1>1 DEF Log!Fresh, Snapshot

LEMMA InitInv == Init => Inv
<1> SUFFICES ASSUME Init PROVE Inv
  OBVIOUS
<1>1. TypeOK
  BY FreshType, CallAssumption DEF Init, TypeOK, NotRestoring
<1>2. Safe
  BY CallAssumption
     DEF Init, Safe, SessionExclusive, BaseIsCurrent, CacheIsCurrent,
         ResultMatchesStore, ProgressKnown, HolderOwns, Inside, Based
<1> QED
  BY <1>1, <1>2 DEF Inv

-----------------------------------------------------------------------------
(* Types *)

Labels == Inside \cup {"idle", "waiting", "ended"}
AllResults == {"none", "ok", "cancelled", "timeout", "error", "dropped"}

LEMMA EndType ==
  ASSUME TypeOK, NEW c \in Calls, NEW r \in Results \cup {"ok"}, End(c, r)
  PROVE  /\ pc' \in [Calls -> Labels]
         /\ result' \in [Calls -> AllResults]
         /\ trace' \in [Calls -> {"none", "completed", "cancelled", "error"}]
         /\ holder' \in [Sessions -> Calls \cup {NoCall}]
BY DEF TypeOK, End, Goto, Enqueue, TraceStatus, Labels, AllResults, Results

(* Each action of an invocation keeps the types.                           *)
LEMMA CallType ==
  ASSUME TypeOK, NEW c \in Calls,
         Invoke(c) \/ Reject(c) \/ Cancel(c) \/ CallStep(c) \/ Abandon(c)
  PROVE  TypeOK'
<1>1. SessionOf[c] \in Sessions
  BY CallAssumption
<1>2. CASE Invoke(c)
  BY <1>2 DEF Invoke, TypeOK, Goto, Inside, restoreVars
<1>12. CASE Cancel(c)
  <2>1. (pc[c] = "armed") \in BOOLEAN
    OBVIOUS
  <2>2. token' \in [Calls -> BOOLEAN] /\ woken' \in [Calls -> BOOLEAN]
    BY <1>12, <2>1, Zenon DEF Cancel, TypeOK
  <2> QED
    BY <1>12, <2>2 DEF Cancel, TypeOK, restoreVars
<1>15. CASE Reject(c)
  BY <1>15 DEF Reject, TypeOK, Goto, Enqueue, TraceStatus, Inside, unchangedEnd, restoreVars
<1>13. CASE Acquire(c)
  BY <1>1, <1>13 DEF Acquire, TypeOK, Goto, Inside, restoreVars
<1>3. CASE ResolveFails(c) \/ LoadFails(c) \/ PollError(c) \/ GraceEnds(c) \/ SaveFails(c)
  <2>1. PICK r \in Results : End(c, r)
    BY <1>3 DEF ResolveFails, LoadFails, PollError, GraceEnds, SaveFails, Results
  <2>2. UNCHANGED <<unchangedEnd, cache, store, saved>>
    BY <1>3 DEF ResolveFails, LoadFails, PollError, GraceEnds, SaveFails
  <2> QED
    BY <2>1, <2>2, EndType DEF TypeOK, unchangedEnd, restoreVars, Labels, AllResults
<1>4. CASE Resolve(c) \/ CheckResponse(c)
  <2>1. UNCHANGED <<unchangedEnd, cache, store, saved>>
    BY <1>4 DEF Resolve, CheckResponse
  <2>2. CASE End(c, "cancelled")
    BY <2>1, <2>2, EndType DEF TypeOK, unchangedEnd, restoreVars, Labels, AllResults, Results
  <2>3. CASE (Goto(c, "loading") \/ Goto(c, "saving")) /\ UNCHANGED <<result, trace, holder>>
    BY <2>1, <2>3 DEF TypeOK, unchangedEnd, restoreVars, Goto, Inside
  <2> QED
    BY <1>4, <2>2, <2>3 DEF Resolve, CheckResponse
<1>5. CASE LoadCached(c) \/ LoadStored(c) \/ FillCache(c)
  <2>1. cache[SessionOf[c]] # NoSnapshot => cache[SessionOf[c]] \in Snapshot
    BY <1>1 DEF TypeOK
  <2> QED
    BY <1>1, <1>5, <2>1 DEF LoadCached, LoadStored, FillCache, TypeOK, Goto, Inside, restoreVars
<1>6. CASE CheckFlag(c) \/ Arm(c) \/ PollCancelled(c)
  BY <1>6, ZenonT(40) DEF CheckFlag, Arm, PollCancelled, TypeOK, Goto, Inside, restoreVars
<1>7. CASE PollResponse(c)
  BY <1>7 DEF PollResponse, TypeOK, Goto, Inside, restoreVars
<1>8. CASE PollIdle(c)
  BY <1>8 DEF PollIdle, TypeOK, Goto, Inside, restoreVars
<1>14. CASE PollActivity(c)
  BY <1>14 DEF PollActivity, TypeOK, Goto, Inside, restoreVars
<1>9. CASE Save(c)
  <2>1. Log!Advance(base[c], c, writes[c]) \in Snapshot
    BY AdvanceType DEF TypeOK
  <2> QED
    BY <1>1, <1>9, <2>1 DEF Save, TypeOK, Goto, Inside, restoreVars
<1>10. CASE CacheAndReturn(c)
  <2>1. End(c, "ok") /\ UNCHANGED <<unchangedEnd, store, saved>>
    BY <1>10 DEF CacheAndReturn
  <2>2. cache' \in [Sessions -> Snapshot \cup {NoSnapshot}]
    BY <1>1, <1>10 DEF CacheAndReturn, TypeOK
  <2> QED
    BY <2>1, <2>2, EndType DEF TypeOK, unchangedEnd, restoreVars, Labels, AllResults
<1>11. CASE Abandon(c)
  BY <1>1, <1>11 DEF Abandon, TypeOK, Goto, Inside, unchangedEnd, restoreVars
<1> QED
  BY <1>2, <1>3, <1>4, <1>5, <1>6, <1>7, <1>8, <1>9, <1>10, <1>11, <1>12, <1>13, <1>14, <1>15
     DEF CallStep

LEMMA GlobalType ==
  ASSUME TypeOK, Restart \/ Export
  PROVE  TypeOK'
<1>1. CASE Restart
  BY <1>1 DEF Restart, TypeOK, NotRestoring, Inside
<1>2. CASE Export
  BY <1>2 DEF Export, TypeOK, callVars
<1> QED
  BY <1>1, <1>2

-----------------------------------------------------------------------------
(* Safety *)

(* Steps that stay where the lock and the snapshot are concerned.          *)
LEMMA MoveSafe ==
  ASSUME Inv, NEW c \in Calls, NEW label \in Labels, Goto(c, label),
         UNCHANGED <<base, result, holder, cache, store, saved>>,
         pc[c] \notin {"caching", "ended"}, label \notin {"caching", "ended"},
         pc[c] \in Inside <=> label \in Inside,
         label \in Based => pc[c] \in Based
  PROVE  Safe'
<1>1. \A d \in Calls : pc'[d] = IF d = c THEN label ELSE pc[d]
  BY DEF Goto, Inv, TypeOK
<1>2. SessionExclusive' /\ BaseIsCurrent' /\ HolderOwns'
  BY <1>1 DEF Inv, Safe, SessionExclusive, BaseIsCurrent, HolderOwns
<1>3. CacheIsCurrent'
  BY <1>1 DEF Inv, Safe, CacheIsCurrent
<1>4. ResultMatchesStore' /\ ProgressKnown'
  BY <1>1 DEF Inv, Safe, ResultMatchesStore, ProgressKnown
<1> QED
  BY <1>2, <1>3, <1>4 DEF Safe

(* An invocation that ends without success has saved nothing and gives the *)
(* lock back.                                                              *)
LEMMA EndSafe ==
  ASSUME Inv, NEW c \in Calls, NEW r \in Results, End(c, r),
         UNCHANGED <<base, cache, store, saved>>,
         pc[c] \in Inside \ {"caching"}
  PROVE  Safe'
<1>1. /\ SessionOf[c] \in Sessions
      /\ holder[SessionOf[c]] = c
      /\ c \notin saved
  BY CallAssumption DEF Inv, Safe, SessionExclusive, ProgressKnown, Inside
<1>2. \A d \in Calls : /\ pc'[d] = IF d = c THEN "ended" ELSE pc[d]
                       /\ result'[d] = IF d = c THEN r ELSE result[d]
  BY DEF End, Goto, Inv, TypeOK
<1>3. \A s \in Sessions : holder'[s] = IF s = SessionOf[c] THEN NoCall ELSE holder[s]
  BY DEF End, Inv, TypeOK
<1>4. SessionExclusive'
  BY <1>1, <1>2, <1>3, CallAssumption DEF Inv, Safe, SessionExclusive, Inside
<1>5. BaseIsCurrent' /\ HolderOwns'
  BY <1>2, <1>3, CallAssumption DEF Inv, Safe, BaseIsCurrent, HolderOwns, Based, Inside
<1>6. CacheIsCurrent'
  BY <1>1, <1>2, <1>3 DEF Inv, Safe, CacheIsCurrent
<1>7. ResultMatchesStore' /\ ProgressKnown'
  BY <1>1, <1>2 DEF Inv, Safe, ResultMatchesStore, ProgressKnown, Results
<1> QED
  BY <1>4, <1>5, <1>6, <1>7 DEF Safe

LEMMA AcquireSafe ==
  ASSUME Inv, NEW c \in Calls, Acquire(c)
  PROVE  Safe'
<1>1. /\ SessionOf[c] \in Sessions
      /\ holder[SessionOf[c]] = NoCall
      /\ UNCHANGED <<base, result, cache, store, saved>>
  BY CallAssumption DEF Acquire
<1>2. \A d \in Calls : pc'[d] = IF d = c THEN "resolving" ELSE pc[d]
  BY DEF Acquire, Goto, Inv, TypeOK
<1>3. \A s \in Sessions : holder'[s] = IF s = SessionOf[c] THEN c ELSE holder[s]
  BY DEF Acquire, Inv, TypeOK
<1>4. SessionExclusive' /\ HolderOwns'
  BY <1>1, <1>2, <1>3, CallAssumption
     DEF Inv, Safe, SessionExclusive, HolderOwns, Inside
<1>5. BaseIsCurrent' /\ ResultMatchesStore' /\ ProgressKnown'
  BY <1>1, <1>2
     DEF Inv, Safe, BaseIsCurrent, ResultMatchesStore, ProgressKnown, Based, Inside, Acquire
<1>6. CacheIsCurrent'
  BY <1>1, <1>2, <1>3, CallAssumption DEF Inv, Safe, CacheIsCurrent, Acquire
<1> QED
  BY <1>4, <1>5, <1>6 DEF Safe

(* The lock's holder reads the cache or the store while nobody can change  *)
(* either.                                                                 *)
LEMMA LoadSafe ==
  ASSUME Inv, NEW c \in Calls, LoadCached(c) \/ LoadStored(c)
  PROVE  Safe'
<1>1. /\ SessionOf[c] \in Sessions
      /\ pc[c] = "loading"
      /\ UNCHANGED <<result, holder, cache, store, saved>>
  BY CallAssumption DEF LoadCached, LoadStored
<1>2. holder[SessionOf[c]] = c
  BY <1>1 DEF Inv, Safe, SessionExclusive, Inside
<1>3. PICK label \in {"select", "filling"} : Goto(c, label)
  BY DEF LoadCached, LoadStored
<1>4. \A d \in Calls : pc'[d] = IF d = c THEN label ELSE pc[d]
  BY <1>3 DEF Goto, Inv, TypeOK
<1>5. \A d \in Calls : base'[d] = IF d = c THEN store[SessionOf[c]] ELSE base[d]
  <2>1. cache[SessionOf[c]] \in {NoSnapshot, store[SessionOf[c]]}
    BY <1>1, <1>2 DEF Inv, Safe, CacheIsCurrent
  <2> QED
    BY <2>1 DEF LoadCached, LoadStored, Inv, TypeOK
<1>6. SessionExclusive' /\ HolderOwns'
  BY <1>1, <1>4 DEF Inv, Safe, SessionExclusive, HolderOwns, Inside
<1>7. BaseIsCurrent'
  BY <1>1, <1>4, <1>5 DEF Inv, Safe, BaseIsCurrent
<1>8. CacheIsCurrent'
  BY <1>1, <1>4 DEF Inv, Safe, CacheIsCurrent
<1>9. ResultMatchesStore' /\ ProgressKnown'
  BY <1>1, <1>4 DEF Inv, Safe, ResultMatchesStore, ProgressKnown
<1> QED
  BY <1>6, <1>7, <1>8, <1>9 DEF Safe

LEMMA FillSafe ==
  ASSUME Inv, NEW c \in Calls, FillCache(c)
  PROVE  Safe'
<1>1. /\ SessionOf[c] \in Sessions
      /\ pc[c] = "filling"
      /\ UNCHANGED <<base, result, holder, store, saved>>
  BY CallAssumption DEF FillCache
<1>2. base[c] = store[SessionOf[c]]
  BY <1>1 DEF Inv, Safe, BaseIsCurrent, Based, Inside
<1>3. \A d \in Calls : pc'[d] = IF d = c THEN "select" ELSE pc[d]
  BY DEF FillCache, Goto, Inv, TypeOK
<1>4. \A s \in Sessions : cache'[s] = IF s = SessionOf[c] THEN store[s] ELSE cache[s]
  BY <1>2 DEF FillCache, Inv, TypeOK
<1>5. SessionExclusive' /\ HolderOwns' /\ BaseIsCurrent'
  BY <1>1, <1>3 DEF Inv, Safe, SessionExclusive, HolderOwns, BaseIsCurrent, Inside, Based
<1>6. CacheIsCurrent'
  BY <1>1, <1>3, <1>4 DEF Inv, Safe, CacheIsCurrent
<1>7. ResultMatchesStore' /\ ProgressKnown'
  BY <1>1, <1>3 DEF Inv, Safe, ResultMatchesStore, ProgressKnown
<1> QED
  BY <1>5, <1>6, <1>7 DEF Safe

(* The save is the commit: every other invocation that works from a        *)
(* snapshot holds another session's lock.                                  *)
LEMMA SaveSafe ==
  ASSUME Inv, NEW c \in Calls, Save(c)
  PROVE  Safe'
<1> DEFINE next == Log!Advance(base[c], c, writes[c])
<1>1. /\ SessionOf[c] \in Sessions
      /\ pc[c] = "saving"
      /\ saved' = saved \cup {c}
      /\ UNCHANGED <<result, holder, cache>>
  BY CallAssumption DEF Save
<1>2. holder[SessionOf[c]] = c
  BY <1>1 DEF Inv, Safe, SessionExclusive, Inside
<1>3. \A d \in Calls : /\ pc'[d] = IF d = c THEN "caching" ELSE pc[d]
                       /\ base'[d] = IF d = c THEN next ELSE base[d]
  BY DEF Save, Goto, Inv, TypeOK
<1>4. \A s \in Sessions : store'[s] = IF s = SessionOf[c] THEN next ELSE store[s]
  BY DEF Save, Inv, TypeOK
<1> HIDE DEF next
<1>5. \A d \in Calls : d # c /\ pc[d] \in Inside => SessionOf[d] # SessionOf[c]
  BY <1>2 DEF Inv, Safe, SessionExclusive
<1>6. SessionExclusive' /\ HolderOwns'
  BY <1>1, <1>3 DEF Inv, Safe, SessionExclusive, HolderOwns, Inside
<1>7. BaseIsCurrent'
  BY <1>1, <1>3, <1>4, <1>5, CallAssumption DEF Inv, Safe, BaseIsCurrent, Based
<1>8. CacheIsCurrent'
  BY <1>1, <1>2, <1>3, <1>4 DEF Inv, Safe, CacheIsCurrent
<1>9. ResultMatchesStore' /\ ProgressKnown'
  BY <1>1, <1>3 DEF Inv, Safe, ResultMatchesStore, ProgressKnown
<1> QED
  BY <1>6, <1>7, <1>8, <1>9 DEF Safe

LEMMA ReturnSafe ==
  ASSUME Inv, NEW c \in Calls, CacheAndReturn(c)
  PROVE  Safe'
<1>1. /\ SessionOf[c] \in Sessions
      /\ pc[c] = "caching"
      /\ End(c, "ok")
      /\ UNCHANGED <<base, store, saved>>
  BY CallAssumption DEF CacheAndReturn, unchangedEnd
<1>2. /\ holder[SessionOf[c]] = c
      /\ base[c] = store[SessionOf[c]]
      /\ c \in saved
  BY <1>1 DEF Inv, Safe, SessionExclusive, BaseIsCurrent, ProgressKnown, Based, Inside
<1>3. \A d \in Calls : /\ pc'[d] = IF d = c THEN "ended" ELSE pc[d]
                       /\ result'[d] = IF d = c THEN "ok" ELSE result[d]
  BY <1>1 DEF End, Goto, Inv, TypeOK
<1>4. \A s \in Sessions : /\ holder'[s] = IF s = SessionOf[c] THEN NoCall ELSE holder[s]
                          /\ cache'[s] = IF s = SessionOf[c] THEN store[s] ELSE cache[s]
  BY <1>1, <1>2 DEF CacheAndReturn, End, Inv, TypeOK
<1>5. SessionExclusive'
  BY <1>1, <1>2, <1>3, <1>4, CallAssumption DEF Inv, Safe, SessionExclusive, Inside
<1>6. BaseIsCurrent' /\ HolderOwns'
  BY <1>1, <1>3, <1>4, CallAssumption DEF Inv, Safe, BaseIsCurrent, HolderOwns, Based, Inside
<1>7. CacheIsCurrent'
  BY <1>1, <1>3, <1>4 DEF Inv, Safe, CacheIsCurrent, HolderOwns
<1>8. ResultMatchesStore' /\ ProgressKnown'
  BY <1>1, <1>2, <1>3 DEF Inv, Safe, ResultMatchesStore, ProgressKnown
<1> QED
  BY <1>5, <1>6, <1>7, <1>8 DEF Safe

(* A dropped future gives its lock back, wherever it was suspended.        *)
LEMMA AbandonSafe ==
  ASSUME Inv, NEW c \in Calls, Abandon(c)
  PROVE  Safe'
<1>1. /\ SessionOf[c] \in Sessions
      /\ pc[c] \notin {"caching", "ended"}
      /\ UNCHANGED <<base, cache, store, saved>>
  BY CallAssumption DEF Abandon, unchangedEnd, Suspended
<1>2. \A d \in Calls : /\ pc'[d] = IF d = c THEN "ended" ELSE pc[d]
                       /\ result'[d] = IF d = c THEN "dropped" ELSE result[d]
  BY DEF Abandon, Goto, Inv, TypeOK
<1>3. \A s \in Sessions :
        holder'[s] = IF s = SessionOf[c] /\ holder[s] = c THEN NoCall ELSE holder[s]
  BY <1>1 DEF Abandon, Inv, TypeOK
<1>4. SessionExclusive'
  BY <1>1, <1>2, <1>3, CallAssumption DEF Inv, Safe, SessionExclusive, Inside
<1>5. BaseIsCurrent' /\ HolderOwns'
  BY <1>1, <1>2, <1>3, CallAssumption DEF Inv, Safe, BaseIsCurrent, HolderOwns, Based, Inside
<1>6. CacheIsCurrent'
  BY <1>1, <1>2, <1>3 DEF Inv, Safe, CacheIsCurrent
<1>7. ResultMatchesStore' /\ ProgressKnown'
  BY <1>1, <1>2 DEF Inv, Safe, ResultMatchesStore, ProgressKnown
<1> QED
  BY <1>4, <1>5, <1>6, <1>7 DEF Safe

LEMMA RejectSafe ==
  ASSUME Inv, NEW c \in Calls, Reject(c)
  PROVE  Safe'
<1>1. /\ pc[c] = "idle"
      /\ UNCHANGED <<base, holder, cache, store, saved>>
  BY DEF Reject, unchangedEnd
<1>2. \A d \in Calls : /\ pc'[d] = IF d = c THEN "ended" ELSE pc[d]
                       /\ result'[d] = IF d = c THEN "error" ELSE result[d]
  BY DEF Reject, Goto, Inv, TypeOK
<1>3. SessionExclusive' /\ BaseIsCurrent' /\ HolderOwns'
  BY <1>1, <1>2 DEF Inv, Safe, SessionExclusive, BaseIsCurrent, HolderOwns, Based, Inside
<1>4. CacheIsCurrent'
  BY <1>1, <1>2 DEF Inv, Safe, CacheIsCurrent
<1>5. ResultMatchesStore' /\ ProgressKnown'
  BY <1>1, <1>2 DEF Inv, Safe, ResultMatchesStore, ProgressKnown
<1> QED
  BY <1>3, <1>4, <1>5 DEF Safe

(* A restart may strike anywhere, also between the save and the cache.     *)
LEMMA RestartSafe ==
  ASSUME Inv, Restart
  PROVE  Safe'
<1>1. \A d \in Calls :
        /\ pc'[d] = IF pc[d] = "idle" THEN "idle" ELSE "ended"
        /\ result'[d] = IF pc[d] \in {"idle", "ended"} THEN result[d] ELSE "dropped"
  BY DEF Restart
<1>2. /\ \A s \in Sessions : holder'[s] = NoCall /\ cache'[s] = NoSnapshot
      /\ UNCHANGED saved
  BY DEF Restart
<1>3. SessionExclusive' /\ BaseIsCurrent' /\ HolderOwns'
  BY <1>1, <1>2, CallAssumption DEF SessionExclusive, BaseIsCurrent, HolderOwns, Based, Inside
<1>4. CacheIsCurrent'
  BY <1>2 DEF CacheIsCurrent
<1>5. ResultMatchesStore' /\ ProgressKnown'
  BY <1>1, <1>2 DEF Inv, Safe, ResultMatchesStore, ProgressKnown
<1> QED
  BY <1>3, <1>4, <1>5 DEF Safe

LEMMA StillSafe ==
  ASSUME Inv, UNCHANGED <<pc, base, result, holder, cache, store, saved>>
  PROVE  Safe'
BY DEF Inv, Safe, SessionExclusive, BaseIsCurrent, CacheIsCurrent,
       ResultMatchesStore, ProgressKnown, HolderOwns

-----------------------------------------------------------------------------
LEMMA NextInv ==
  ASSUME Inv, [Next]_vars
  PROVE  Inv'
<1>1. TypeOK'
  <2>1. CASE UNCHANGED vars
    BY <2>1 DEF vars, callVars, restoreVars, Inv, TypeOK
  <2> QED
    BY <2>1, CallType, GlobalType DEF Next, Inv
<1>2. ASSUME NEW c \in Calls, Invoke(c) \/ Reject(c) \/ Cancel(c) \/ CallStep(c) \/ Abandon(c)
      PROVE  Safe'
  <2>1. CASE Cancel(c)
    BY <2>1, StillSafe DEF Cancel
  <2>2. CASE \/ Invoke(c) \/ CheckFlag(c) \/ Arm(c) \/ PollCancelled(c) \/ PollResponse(c)
             \/ PollActivity(c) \/ PollIdle(c)
    <3>1. UNCHANGED <<base, result, holder, cache, store, saved>>
      BY <2>2 DEF Invoke, CheckFlag, Arm, PollCancelled, PollResponse, PollActivity, PollIdle
    <3>2. CASE Invoke(c)
      BY <3>1, <3>2, MoveSafe DEF Invoke, Inside, Based, Labels
    <3>3. CASE ~Invoke(c)
      <4>1. PICK label \in {"cancelGrace", "checked", "armed", "responded", "select", "idleGrace"} :
              Goto(c, label)
        BY <2>2, <3>3 DEF CheckFlag, Arm, PollCancelled, PollResponse, PollActivity, PollIdle
      <4>2. pc[c] \in {"select", "checked", "armed"}
        BY <2>2, <3>3 DEF CheckFlag, Arm, PollCancelled, PollResponse, PollActivity, PollIdle
      <4> QED
        BY <3>1, <4>1, <4>2, MoveSafe DEF Inside, Based, Labels
    <3> QED
      BY <3>2, <3>3
  <2>3. CASE Acquire(c)
    BY <2>3, AcquireSafe
  <2>4. CASE ResolveFails(c) \/ LoadFails(c) \/ PollError(c) \/ GraceEnds(c) \/ SaveFails(c)
    <3>1. PICK r \in Results : End(c, r)
      BY <2>4 DEF ResolveFails, LoadFails, PollError, GraceEnds, SaveFails, Results
    <3>2. /\ UNCHANGED <<base, cache, store, saved>>
          /\ pc[c] \in Inside \ {"caching"}
      BY <2>4 DEF ResolveFails, LoadFails, PollError, GraceEnds, SaveFails, unchangedEnd, Inside
    <3> QED
      BY <3>1, <3>2, EndSafe
  <2>5. CASE Resolve(c) \/ CheckResponse(c)
    <3>1. /\ UNCHANGED <<base, cache, store, saved>>
          /\ pc[c] \in {"resolving", "responded"}
      BY <2>5 DEF Resolve, CheckResponse, unchangedEnd
    <3>2. CASE End(c, "cancelled")
      BY <3>1, <3>2, EndSafe DEF Results, Inside
    <3>3. CASE ~End(c, "cancelled")
      <4>1. /\ UNCHANGED <<result, holder>>
            /\ \/ pc[c] = "resolving" /\ Goto(c, "loading")
               \/ pc[c] = "responded" /\ Goto(c, "saving")
        BY <2>5, <3>3 DEF Resolve, CheckResponse
      <4> QED
        BY <3>1, <4>1, MoveSafe DEF Inside, Based, Labels
    <3> QED
      BY <3>2, <3>3
  <2>6. CASE LoadCached(c) \/ LoadStored(c)
    BY <2>6, LoadSafe
  <2>7. CASE FillCache(c)
    BY <2>7, FillSafe
  <2>8. CASE Save(c)
    BY <2>8, SaveSafe
  <2>9. CASE CacheAndReturn(c)
    BY <2>9, ReturnSafe
  <2>10. CASE Abandon(c)
    BY <2>10, AbandonSafe
  <2>11. CASE Reject(c)
    BY <2>11, RejectSafe
  <2> QED
    BY <1>2, <2>1, <2>2, <2>3, <2>4, <2>5, <2>6, <2>7, <2>8, <2>9, <2>10, <2>11 DEF CallStep
<1>3. Safe'
  <2>1. CASE Restart
    BY <2>1, RestartSafe
  <2>2. CASE Export
    BY <2>2, StillSafe DEF Export, callVars
  <2>3. CASE UNCHANGED vars
    BY <2>3, StillSafe DEF vars, callVars
  <2> QED
    BY <1>2, <2>1, <2>2, <2>3 DEF Next
<1> QED
  BY <1>1, <1>3 DEF Inv

(* The invariant holds in every reachable state.                           *)
LEMMA Invariance == Spec => []Inv
<1>1. Inv /\ [Next]_vars => Inv'
  BY NextInv
<1> QED
  BY InitInv, <1>1, PTL DEF Spec

-----------------------------------------------------------------------------
(* Every variable of the invocation path keeps its type, for any number of *)
(* invocations and sessions, however often a provider reports activity.    *)
THEOREM CallTypes == Spec => []TypeOK
<1>1. Inv => TypeOK
  BY DEF Inv
<1> QED
  BY Invariance, <1>1, PTL

(* The lock that invoke_provider takes is exclusive and is given back on   *)
(* every path: returns, early errors, dropped futures, restarts.           *)
THEOREM LockIsExclusive == Spec => []SessionExclusive
<1>1. Inv => SessionExclusive
  BY DEF Inv, Safe
<1> QED
  BY Invariance, <1>1, PTL

(* A session does not change in the store between load_snapshot and the    *)
(* return of the invocation that loaded it.                                *)
THEOREM BaseStaysCurrent == Spec => []BaseIsCurrent
<1>1. Inv => BaseIsCurrent
  BY DEF Inv, Safe
<1> QED
  BY Invariance, <1>1, PTL

(* The snapshot cache of RuntimeCore never serves a stale snapshot.        *)
THEOREM CacheStaysCurrent == Spec => []CacheIsCurrent
<1>1. Inv => CacheIsCurrent
  BY DEF Inv, Safe
<1> QED
  BY Invariance, <1>1, PTL

(* What invoke reports agrees with what the durable store holds.           *)
THEOREM ReportsAreTrue == Spec => []ResultMatchesStore
<1>1. Inv => ResultMatchesStore
  BY DEF Inv, Safe
<1> QED
  BY Invariance, <1>1, PTL

-----------------------------------------------------------------------------
(* Refinement of SessionLog: the save is the commit, all else stutters.    *)

LEMMA SaveCommits ==
  ASSUME Inv, NEW c \in Calls, Save(c)
  PROVE  Log!Commit(c, writes[c])
<1>1. pc[c] = "saving"
  BY DEF Save
<1>2. c \notin saved /\ base[c] = store[SessionOf[c]]
  BY <1>1 DEF Inv, Safe, ProgressKnown, BaseIsCurrent, Based, Inside
<1>3. store' = [store EXCEPT ![SessionOf[c]] = Log!Advance(store[SessionOf[c]], c, writes[c])]
  BY <1>2 DEF Save
<1> QED
  BY <1>2, <1>3 DEF Save, Log!Commit

LEMMA OthersStutter ==
  ASSUME [Next]_vars, \A c \in Calls : ~Save(c)
  PROVE  UNCHANGED <<store, saved>>
<1>1. ASSUME NEW c \in Calls, Invoke(c) \/ Reject(c) \/ Cancel(c) \/ CallStep(c) \/ Abandon(c)
      PROVE  UNCHANGED <<store, saved>>
  BY <1>1 DEF Invoke, Reject, Cancel, Abandon, CallStep, Acquire, ResolveFails, Resolve, LoadCached,
         LoadStored, LoadFails, FillCache, CheckFlag, Arm, PollCancelled, PollResponse,
         PollError, PollActivity, PollIdle, GraceEnds, CheckResponse, SaveFails, CacheAndReturn
<1> QED
  BY <1>1 DEF Next, Restart, Export, vars

(* The store goes through serial, atomic commits only: each invocation     *)
(* commits at most once and on top of the revision before it, whatever the *)
(* interleaving, the failures and the restarts.                            *)
THEOREM SerialCommits == Spec => CommitsAreSerial
<1>1. Init => Log!Init
  BY DEF Init, Log!Init
<1>2. Inv /\ [Next]_vars => [Log!Next]_<<store, saved>>
  <2> SUFFICES ASSUME Inv, [Next]_vars PROVE [Log!Next]_<<store, saved>>
    OBVIOUS
  <2>1. CASE \E c \in Calls : Save(c)
    <3>1. PICK c \in Calls : Save(c)
      BY <2>1
    <3>2. writes[c] \in BOOLEAN
      BY DEF Inv, TypeOK
    <3> QED
      BY <3>1, <3>2, SaveCommits DEF Log!Next
  <2>2. CASE \A c \in Calls : ~Save(c)
    BY <2>2, OthersStutter
  <2> QED
    BY <2>1, <2>2
<1> QED
  BY Invariance, <1>1, <1>2, PTL DEF Spec, Log!Spec, CommitsAreSerial
-----------------------------------------------------------------------------
(* Cancellation *)

(* A call whose token was cancelled before it was about to save: it stays  *)
(* short of the save, whatever its provider answers.                       *)
Doomed(c) ==
  /\ token[c]
  /\ pc[c] \notin {"saving", "caching"}
  /\ result[c] # "ok"

(* No step of this call, of another call or of the host saves it.          *)
LEMMA DoomedStays ==
  ASSUME Inv, [Next]_vars, NEW c \in Calls, Doomed(c)
  PROVE  Doomed(c)'
<1>0. TypeOK
  BY DEF Inv
<1>1. ASSUME NEW d \in Calls, CallStep(d)
      PROVE  Doomed(c)'
  <2>1. CASE \E r \in Results : End(d, r) /\ UNCHANGED token
    BY <1>0, <2>1 DEF End, Goto, Results, Doomed, TypeOK
  <2>2. CASE CacheAndReturn(d)
    BY <1>0, <2>2 DEF CacheAndReturn, End, Goto, unchangedEnd, Doomed, TypeOK
  <2>3. CASE /\ UNCHANGED result
             /\ \A k \in Calls : token[k] => token'[k]
             /\ \A k \in Calls : k # d => pc'[k] = pc[k]
             /\ pc'[d] \in {"saving", "caching"} =>
                  ~token[d] \/ pc[d] = "saving"
    BY <2>3 DEF Doomed
  <2> QED
    BY <1>0, <1>1, <2>1, <2>2, <2>3
       DEF CallStep, Acquire, ResolveFails, Resolve, LoadCached, LoadStored, LoadFails,
           FillCache, CheckFlag, Arm, PollCancelled, PollResponse, PollError,
           PollActivity, PollIdle, GraceEnds, CheckResponse, Save, SaveFails,
           Goto, Results, unchangedEnd, TypeOK
<1>2. ASSUME NEW d \in Calls, Invoke(d) \/ Reject(d) \/ Cancel(d) \/ Abandon(d)
      PROVE  Doomed(c)'
  BY <1>0, <1>2 DEF Invoke, Reject, Cancel, Abandon, Goto, unchangedEnd, Doomed, TypeOK
<1>3. CASE Restart
  BY <1>3 DEF Restart, Doomed
<1>4. CASE Export \/ UNCHANGED vars
  BY <1>4 DEF Export, vars, callVars, Doomed
<1> QED
  BY <1>1, <1>2, <1>3, <1>4 DEF Next

(* Cancelling an invocation before it saves wins: it never reports success,*)
(* also when the provider answers later or never looks at its token.       *)
THEOREM CancellationWins == Spec => CancelWins
<1>1. ASSUME NEW c \in Calls
      PROVE  Spec => [](token[c] /\ pc[c] \notin {"saving", "caching", "ended"}
                         => [](result[c] # "ok"))
  <2>1. Inv /\ (token[c] /\ pc[c] \notin {"saving", "caching", "ended"}) => Doomed(c)
    BY DEF Inv, Safe, TypeOK, ProgressKnown, Doomed
  <2>2. Inv /\ Doomed(c) /\ [Next]_vars => Doomed(c)'
    BY DoomedStays
  <2>3. Doomed(c) => result[c] # "ok"
    BY DEF Doomed
  <2> QED
    BY <2>1, <2>2, <2>3, Invariance, PTL DEF Spec
<1> QED
  BY <1>1 DEF CancelWins

=============================================================================
