------------------------------ MODULE ScanProofs ------------------------------
(****************************************************************************)
(* What holds of one scan, and of the snapshot that a scan leaves on disk    *)
(* for others.                                                               *)
(*                                                                           *)
(* ScanDispatch, for any number of providers, slots and stores: Goroutines   *)
(* says where a provider can be when the collector is somewhere.  Gathered   *)
(* says that a result that has been sent is in the channel or accounted for, *)
(* so that nothing is missing once the channel is closed and empty.  Causes  *)
(* follows a context error back to where it came from.  Retained is about    *)
(* the stores read so far.                                                   *)
(*                                                                           *)
(* ScanCache, for any number of runs of the program, any targets, and any    *)
(* number of changes around them: Phases says what a process has at each     *)
(* place.  Genuine follows a document back, through claims, to the scan that *)
(* saved it first.  Faithful is about the evidence in every document, and    *)
(* Revalidated about what a process that reuses one has looked at.           *)
(****************************************************************************)
EXTENDS ScanDispatch, ScanCache, TLAPS

USE DEF ContextErrors, MaybeError, Verdicts

-----------------------------------------------------------------------------
(* One scan: its inductive invariant.                                        *)

Goroutines ==
  /\ \A p \in Providers : spawned < p <=> at[p] = "unborn"
  /\ \A p \in Providers : verdict[p] = "open" <=> at[p] \in {"unborn", "gate", "queue", "scan"}
  /\ \A p \in Providers : at[p] = "cancel" => verdict[p] \in ContextErrors
  /\ stage \in {"enter", "spawn"} => ~gate
  /\ stage = "enter" => spawned = 0
  /\ stage \in {"owners", "exclude", "retention"} => closed
  /\ gate => spawned = N
  /\ closed => \A p \in Providers : at[p] = "done"
  /\ stage = "done" => spawned = 0 \/ closed
  /\ outcome = "none" <=> stage # "done"

Buffered(p) == \E i \in 1 .. Len(results) : results[i] = p

Accounted(p) ==
  /\ verdict[p] = "ok" => Found[p] \subseteq rows
  /\ verdict[p] = "error" => p \in failed
  /\ verdict[p] \in ContextErrors => cancelErr # "none"

Listed == UNION {Found[p] : p \in {q \in Providers : verdict[q] = "ok"}}

(* Nothing is missing and nothing was cut short.                             *)
AllIn ==
  /\ closed
  /\ \A p \in Providers : verdict[p] \in {"ok", "error"}
  /\ failed = {p \in Providers : verdict[p] = "error"}

Gathered ==
  /\ stage \in {"enter", "spawn", "collect", "observe"} =>
       /\ \A p \in Providers : at[p] \in {"release", "done"} => Buffered(p) \/ Accounted(p)
       /\ \A i \in 1 .. Len(results) : verdict[results[i]] # "open"
       /\ rows \subseteq Listed
       /\ failed \subseteq {p \in Providers : verdict[p] = "error"}
  /\ stage = "owners" => AllIn /\ rows = Listed
  /\ stage = "exclude" => AllIn /\ rows = {r \in Listed : Proven(r, owners)}
  /\ stage = "retention" \/ HasInventory =>
       AllIn /\ rows = {r \in Listed : ~r.excluded /\ Proven(r, owners)}

Cause == caller # "none" \/ culprits # {}

Causes ==
  /\ late # {} => scanErr # "none"
  /\ scanErr # "none" => caller # "none" \/ \E p \in Providers : verdict[p] \in ContextErrors
  /\ scanErr # "none" \/ cancelErr # "none" => Cause
  /\ \A p \in Providers : verdict[p] \in ContextErrors => Cause
  /\ outcome = "cancelled" => Cause
  /\ HasInventory => caller = "none"

Retained ==
  /\ ~partial =>
       /\ buckets = UNION {stored[s] : s \in 1 .. store - 1}
       /\ \A r, s \in 1 .. store - 1 : r # s => stored[r] \cap stored[s] = {}
  /\ HasInventory => store = S + 1

-----------------------------------------------------------------------------
(* LEMMA ScanStartTyped, ScanNextTyped: types hold initially, and are kept.  *)
LEMMA ScanStartTyped == ScanInit => ScanTypeOK
<1> SUFFICES ASSUME ScanInit PROVE ScanTypeOK
    OBVIOUS
<1> USE ScanAssumption DEF ScanInit, Providers, Stores
<1>1. stored \in Layouts /\ results \in Seq(Providers)
  OBVIOUS
<1>2. closed \in BOOLEAN /\ gate \in BOOLEAN /\ partial \in BOOLEAN
  BY Zenon
<1> QED
  BY <1>1, <1>2 DEF ScanTypeOK

LEMMA ScanNextTyped == ScanTypeOK /\ [ScanNext]_scanVars => ScanTypeOK'
<1> SUFFICES ASSUME ScanTypeOK, [ScanNext]_scanVars PROVE ScanTypeOK'
    OBVIOUS
<1> USE ScanAssumption DEF Providers, Stores
<1> USE DEF goroutines, collected
<1>1. CASE UNCHANGED scanVars
  <2>1. UNCHANGED << closed, gate, partial >>
    BY <1>1 DEF scanVars
  <2> QED
    BY <1>1, <2>1 DEF ScanTypeOK, scanVars
<1>2. CASE EndCaller \/ Propagate
  <2>1. CASE EndCaller
    BY <2>1 DEF ScanTypeOK, EndCaller
  <2>2. CASE Propagate
    BY <2>2 DEF ScanTypeOK, Propagate
  <2> QED
    BY <1>2, <2>1, <2>2
<1>3. ASSUME NEW p \in Providers, Provider(p) PROVE ScanTypeOK'
  <2> USE DEF ByProvider, MoveTo
  <2>1. CASE GiveUp(p)
    BY <2>1 DEF ScanTypeOK, GiveUp
  <2>2. CASE PassGate(p)
    BY <2>2 DEF ScanTypeOK, PassGate
  <2>3. CASE TakeSlot(p)
    BY <2>3 DEF ScanTypeOK, TakeSlot
  <2>4. CASE FinishScan(p)
    BY <2>4 DEF ScanTypeOK, FinishScan
  <2>5. CASE CancelRest(p)
    BY <2>5 DEF ScanTypeOK, CancelRest
  <2>6. CASE Send(p)
    BY <2>6 DEF ScanTypeOK, Send
  <2>7. CASE ReleaseSlot(p)
    BY <2>7 DEF ScanTypeOK, ReleaseSlot
  <2> QED
    BY <1>3, <2>1, <2>2, <2>3, <2>4, <2>5, <2>6, <2>7 DEF Provider
<1>4. CASE Close
  BY <1>4 DEF ScanTypeOK, Close
<1>5. CASE Enter \/ Spawn \/ OpenGate
  <2>1. CASE Enter
    BY <2>1 DEF ScanTypeOK, Enter, Goes, Returns
  <2>2. CASE Spawn
    BY <2>2 DEF ScanTypeOK, Spawn, MoveTo, MoreToSpawn
  <2>3. CASE OpenGate
    BY <2>3 DEF ScanTypeOK, OpenGate, Goes
  <2> QED
    BY <1>5, <2>1, <2>2, <2>3
<1>6. CASE Receive
  <2>1. results # << >> /\ Head(results) \in Providers /\ Tail(results) \in Seq(Providers)
    BY <1>6 DEF ScanTypeOK, Receive
  <2>2. Found[held'] \subseteq Rows
    BY <1>6, <2>1 DEF Receive
  <2>3. held' \in Providers /\ results' \in Seq(Providers)
    BY <1>6, <2>1 DEF Receive
  <2>4. rows' \subseteq Rows /\ failed' \subseteq Providers
    BY <1>6, <2>2, <2>3 DEF ScanTypeOK, Receive
  <2>5. cancelErr' \in MaybeError
    BY <1>6, <2>3 DEF ScanTypeOK, Receive, IsContextError
  <2> QED
    BY <1>6, <2>3, <2>4, <2>5 DEF ScanTypeOK, Receive, ByCollector, Goes
<1>7. CASE Observe \/ Conclude
  <2>1. CASE Observe
    BY <2>1 DEF ScanTypeOK, Observe, ByCollector, Goes, Preferred
  <2>2. CASE Conclude
    BY <2>2 DEF ScanTypeOK, Conclude, ByCollector, Goes, Returns, Preferred
  <2> QED
    BY <1>7, <2>1, <2>2
<1>8. CASE RequireOwnership \/ Exclude
  <2>1. CASE RequireOwnership
    BY <2>1 DEF ScanTypeOK, RequireOwnership, ByCollector, Goes
  <2>2. CASE Exclude
    BY <2>2 DEF ScanTypeOK, Exclude, ByCollector, Goes, Returns
  <2> QED
    BY <1>8, <2>1, <2>2
<1>9. CASE ScanStore
  <2>1. UNCHANGED << stored, caller, scanErr, at, verdict, results, closed, spawned, gate, held,
                     cancelErr, rows, failed, owners, late >>
    BY <1>9 DEF ScanStore, ByCollector
  <2>6. culprits' \subseteq {0} \cup Providers
    BY <1>9 DEF ScanTypeOK, ScanStore
  <2>2. CASE Returns("cancelled") /\ UNCHANGED << store, partial, buckets >>
    BY <2>1, <2>2, <2>6 DEF ScanTypeOK, Returns
  <2>3. ASSUME NEW listed \in SUBSET Keys, NEW complete \in BOOLEAN, Admit(listed, complete)
        PROVE  ScanTypeOK'
    <3>1. partial' \in BOOLEAN
      BY <2>3, Zenon DEF Admit, AdmittedOnce
    <3>2. store' \in 1 .. S + 1 /\ buckets' \subseteq Keys
      BY <1>9, <2>3 DEF ScanTypeOK, ScanStore, Admit
    <3> QED
      BY <2>1, <2>3, <2>6, <3>1, <3>2 DEF ScanTypeOK, Admit, Goes
  <2>4. stored[store] \subseteq Keys
    BY <1>9 DEF ScanTypeOK, ScanStore
  <2> QED
    BY <1>9, <2>2, <2>3, <2>4 DEF ScanStore
<1>10. CASE ReturnInventory
  BY <1>10 DEF ScanTypeOK, ReturnInventory, ByCollector, Goes, Returns
<1>11. CASE ScanEnded
  BY <1>1, <1>11 DEF ScanEnded
<1> QED
  BY <1>1, <1>2, <1>3, <1>4, <1>5, <1>6, <1>7, <1>8, <1>9, <1>10, <1>11 DEF ScanNext, Collector

(* THEOREM ScanTyped: every variable keeps its type.                         *)
THEOREM ScanTyped == ScanSpec => []ScanTypeOK
  BY ScanStartTyped, ScanNextTyped, PTL DEF ScanSpec

-----------------------------------------------------------------------------
(* LEMMA GoroutinesKept: where the goroutines are.                           *)
LEMMA InitGoroutines == ScanInit => Goroutines
  BY ScanAssumption DEF ScanInit, Goroutines, Providers

LEMMA GoroutinesKept == ScanTypeOK /\ Goroutines /\ [ScanNext]_scanVars => Goroutines'
<1> SUFFICES ASSUME ScanTypeOK, Goroutines, [ScanNext]_scanVars PROVE Goroutines'
    OBVIOUS
<1> USE ScanAssumption DEF Providers, goroutines, collected
<1>1. CASE UNCHANGED scanVars
  BY <1>1 DEF Goroutines, scanVars
<1>2. CASE EndCaller \/ Propagate
  BY <1>2 DEF Goroutines, EndCaller, Propagate
<1>3. ASSUME NEW p \in Providers, Provider(p) PROVE Goroutines'
  <2> USE DEF ByProvider, MoveTo
  <2>1. CASE GiveUp(p)
    BY <2>1 DEF ScanTypeOK, Goroutines, GiveUp
  <2>2. CASE PassGate(p)
    BY <2>2 DEF ScanTypeOK, Goroutines, PassGate
  <2>3. CASE TakeSlot(p)
    BY <2>3 DEF ScanTypeOK, Goroutines, TakeSlot
  <2>4. CASE FinishScan(p)
    BY <2>4 DEF ScanTypeOK, Goroutines, FinishScan, CancelsRest
  <2>5. CASE CancelRest(p)
    BY <2>5 DEF ScanTypeOK, Goroutines, CancelRest
  <2>6. CASE Send(p)
    BY <2>6 DEF ScanTypeOK, Goroutines, Send
  <2>7. CASE ReleaseSlot(p)
    BY <2>7 DEF ScanTypeOK, Goroutines, ReleaseSlot
  <2> QED
    BY <1>3, <2>1, <2>2, <2>3, <2>4, <2>5, <2>6, <2>7 DEF Provider
<1>4. CASE Close
  BY <1>4 DEF Goroutines, Close
<1>5. CASE Enter
  BY <1>5 DEF ScanTypeOK, Goroutines, Enter, Goes, Returns
<1>6. CASE Spawn
  BY <1>6 DEF ScanTypeOK, Goroutines, Spawn, MoveTo, MoreToSpawn
<1>7. CASE OpenGate
  BY <1>7 DEF ScanTypeOK, Goroutines, OpenGate, Goes, MoreToSpawn
<1>8. CASE Receive
  BY <1>8 DEF ScanTypeOK, Goroutines, Receive, ByCollector, Goes
<1>9. CASE Observe
  BY <1>9 DEF ScanTypeOK, Goroutines, Observe, ByCollector, Goes
<1>10. CASE Conclude
  BY <1>10 DEF ScanTypeOK, Goroutines, Conclude, EndOfResults, Drained, ByCollector, Goes, Returns
<1>11. CASE RequireOwnership
  BY <1>11 DEF ScanTypeOK, Goroutines, RequireOwnership, ByCollector, Goes
<1>12. CASE Exclude
  BY <1>12 DEF ScanTypeOK, Goroutines, Exclude, ByCollector, Goes, Returns
<1>13. CASE ScanStore
  BY <1>13 DEF ScanTypeOK, Goroutines, ScanStore, Admit, ByCollector, Goes, Returns
<1>14. CASE ReturnInventory
  BY <1>14 DEF ScanTypeOK, Goroutines, ReturnInventory, ByCollector, Goes, Returns
<1>15. CASE ScanEnded
  BY <1>1, <1>15 DEF ScanEnded
<1> QED
  BY <1>1, <1>2, <1>3, <1>4, <1>5, <1>6, <1>7, <1>8, <1>9, <1>10, <1>11, <1>12, <1>13, <1>14,
     <1>15 DEF ScanNext, Collector

-----------------------------------------------------------------------------
(* LEMMA CausesKept: nothing is cancelled without a cause.                   *)
LEMMA InitCauses == ScanInit => Causes
  BY DEF ScanInit, Causes, HasInventory

LEMMA CausesKept == ScanTypeOK /\ Goroutines /\ Causes /\ [ScanNext]_scanVars => Causes'
<1> SUFFICES ASSUME ScanTypeOK, Goroutines, Causes, [ScanNext]_scanVars PROVE Causes'
    OBVIOUS
<1> USE DEF goroutines, collected, Causes, Cause, HasInventory
<1>1. CASE UNCHANGED scanVars
  BY <1>1 DEF scanVars
<1>2. CASE EndCaller \/ Propagate
  BY <1>2 DEF ScanTypeOK, EndCaller, Propagate
<1>3. ASSUME NEW p \in Providers, Provider(p) PROVE Causes'
  <2> USE DEF ByProvider, MoveTo
  <2>1. CASE GiveUp(p)
    BY <2>1 DEF ScanTypeOK, GiveUp
  <2>2. CASE PassGate(p) \/ TakeSlot(p) \/ Send(p) \/ ReleaseSlot(p)
    BY <2>2 DEF PassGate, TakeSlot, Send, ReleaseSlot
  <2>3. CASE FinishScan(p)
    <3>1. verdict[p] = "open" /\ scanErr' = scanErr
      BY <2>3 DEF Goroutines, FinishScan
    <3>2. \A q \in Providers : verdict[q] \in ContextErrors => verdict'[q] \in ContextErrors
      BY <2>3, <3>1 DEF ScanTypeOK, FinishScan
    <3>3. culprits \subseteq culprits'
      BY <2>3 DEF FinishScan
    <3>4. \A q \in Providers : verdict'[q] \in ContextErrors => Cause'
      <4>1. verdict'[p] \in ContextErrors => scanErr # "none" \/ culprits' # {}
        BY <2>3 DEF ScanTypeOK, FinishScan
      <4>2. \A q \in Providers : q # p => verdict'[q] = verdict[q]
        BY <2>3 DEF ScanTypeOK, FinishScan
      <4> QED
        BY <2>3, <3>3, <4>1, <4>2 DEF FinishScan
    <3> QED
      BY <2>3, <3>1, <3>2, <3>3, <3>4 DEF FinishScan
  <2>4. CASE CancelRest(p)
    BY <2>4 DEF Goroutines, CancelRest
  <2> QED
    BY <1>3, <2>1, <2>2, <2>3, <2>4 DEF Provider
<1>4. CASE Close
  BY <1>4 DEF Close
<1>5. CASE Enter \/ Spawn \/ OpenGate
  BY <1>5 DEF Goroutines, Enter, Spawn, OpenGate, Goes, Returns
<1>6. CASE Receive
  <2>1. Head(results) \in Providers
    BY <1>6 DEF ScanTypeOK, Receive
  <2> QED
    BY <1>6, <2>1 DEF Receive, ByCollector, Goes, IsContextError
<1>7. CASE Observe \/ Conclude
  BY <1>7 DEF Goroutines, Observe, Conclude, Preferred, ByCollector, Goes, Returns
<1>8. CASE RequireOwnership \/ Exclude
  BY <1>8 DEF Goroutines, RequireOwnership, Exclude, ByCollector, Goes, Returns
<1>9. CASE ScanStore
  BY <1>9 DEF Goroutines, ScanStore, Admit, ByCollector, Goes, Returns
<1>10. CASE ReturnInventory
  BY <1>10 DEF Goroutines, ReturnInventory, ByCollector, Goes, Returns
<1>11. CASE ScanEnded
  BY <1>1, <1>11 DEF ScanEnded
<1> QED
  BY <1>1, <1>2, <1>3, <1>4, <1>5, <1>6, <1>7, <1>8, <1>9, <1>10, <1>11 DEF ScanNext, Collector

-----------------------------------------------------------------------------
(* LEMMA RetainedKept: what has been read of the stores.                     *)
LEMMA InitRetained == ScanInit => Retained
  BY DEF ScanInit, Retained, HasInventory

LEMMA RetainedKept == ScanTypeOK /\ Goroutines /\ Retained /\ [ScanNext]_scanVars => Retained'
<1> SUFFICES ASSUME ScanTypeOK, Goroutines, Retained, [ScanNext]_scanVars PROVE Retained'
    OBVIOUS
<1> USE ScanAssumption DEF goroutines, collected, Retained, HasInventory
<1>1. CASE UNCHANGED scanVars
  BY <1>1 DEF scanVars
<1>2. CASE UNCHANGED << stored, store, partial, buckets, outcome >>
  BY <1>2
<1>3. CASE EndCaller \/ Propagate \/ (\E p \in Providers : Provider(p)) \/ Close
  BY <1>2, <1>3 DEF EndCaller, Propagate, Close, Provider, ByProvider, GiveUp, PassGate, TakeSlot,
                    FinishScan, CancelRest, Send, ReleaseSlot
<1>4. CASE UNCHANGED << stored, store, partial, buckets >> /\ outcome' \in {"rejected", "cancelled"}
  BY <1>4
<1>5. CASE Enter \/ Spawn \/ OpenGate
  BY <1>2, <1>4, <1>5 DEF Enter, Spawn, OpenGate, Goes, Returns
<1>6. CASE Receive \/ Observe \/ RequireOwnership
  BY <1>2, <1>6 DEF Receive, Observe, RequireOwnership, ByCollector, Goes
<1>7. CASE Conclude \/ Exclude
  BY <1>2, <1>4, <1>7 DEF Conclude, Exclude, ByCollector, Goes, Returns
<1>8. CASE ScanStore
  <2>1. ASSUME NEW listed \in SUBSET Keys, NEW complete \in BOOLEAN, Admit(listed, complete),
               complete => listed = stored[store]
        PROVE  Retained'
    <3>1. stored' = stored /\ store' = store + 1 /\ store \in 1 .. S
      BY <1>8, <2>1 DEF ScanTypeOK, ScanStore, ByCollector, Admit
    <3>2. ~HasInventory'
      BY <1>8, <2>1 DEF Goroutines, ScanStore, Admit, Goes
    <3>3. ASSUME ~partial'
          PROVE  /\ buckets' = UNION {stored[s] : s \in 1 .. store}
                 /\ \A r, s \in 1 .. store : r # s => stored[r] \cap stored[s] = {}
      <4>1. ~partial /\ complete /\ listed = stored[store] /\ listed \cap buckets = {}
        BY <2>1, <3>3 DEF Admit, AdmittedOnce
      <4>2. buckets' = buckets \cup stored[store]
        BY <2>1, <4>1 DEF Admit
      <4>3. \A s \in 1 .. store : s \in 1 .. store - 1 \/ s = store
        BY <3>1
      <4>4. \A s \in 1 .. store - 1 : s \in 1 .. store /\ stored[s] \subseteq buckets
        BY <3>1, <4>1
      <4>5. buckets' = UNION {stored[s] : s \in 1 .. store}
        BY <3>1, <4>1, <4>2, <4>3, <4>4
      <4>6. \A r, s \in 1 .. store : r # s => stored[r] \cap stored[s] = {}
        BY <4>1, <4>3, <4>4
      <4> QED
        BY <4>5, <4>6
    <3>4. store' - 1 = store
      BY <3>1
    <3> QED
      BY <3>1, <3>2, <3>3, <3>4
  <2>2. stored[store] \subseteq Keys
    BY <1>8 DEF ScanTypeOK, ScanStore, Stores
  <2> QED
    BY <1>4, <1>8, <2>1, <2>2 DEF ScanStore, ByCollector, Returns
<1>9. CASE ReturnInventory
  BY <1>9 DEF ScanTypeOK, ReturnInventory, ByCollector, Returns
<1>10. CASE ScanEnded
  BY <1>1, <1>10 DEF ScanEnded
<1> QED
  BY <1>1, <1>3, <1>5, <1>6, <1>7, <1>8, <1>9, <1>10 DEF ScanNext, Collector

-----------------------------------------------------------------------------
(* LEMMA Running: a provider that has begun and has not ended is awaited.    *)
LEMMA Running ==
  ASSUME ScanTypeOK, Goroutines, NEW p \in Providers, at[p] \notin {"unborn", "done"}
  PROVE  stage \in {"spawn", "collect", "observe"} /\ ~closed /\ outcome = "none"
<1>1. ~closed /\ spawned # 0
  BY ScanAssumption DEF Goroutines, ScanTypeOK, Providers
<1> QED
  BY <1>1 DEF Goroutines, ScanTypeOK

(* LEMMA NothingMissing: once the channel is closed and empty, the results   *)
(* of all providers are accounted for.                                       *)
LEMMA NothingMissing ==
  ASSUME ScanTypeOK, Goroutines, Gathered, stage = "collect", Drained, cancelErr = "none"
  PROVE  AllIn /\ rows = Listed
<1>1. closed /\ Len(results) = 0 /\ \A p \in Providers : at[p] = "done"
  BY DEF Drained, Goroutines
<1>2. \A p \in Providers : Accounted(p)
  BY <1>1 DEF Gathered, Buffered
<1>3. \A p \in Providers : verdict[p] \in {"ok", "error"}
  BY <1>1, <1>2 DEF Goroutines, ScanTypeOK, Accounted
<1>4. failed = {p \in Providers : verdict[p] = "error"}
  BY <1>2 DEF Gathered, Accounted
<1>5. rows = Listed
  BY <1>2 DEF Gathered, Accounted, Listed
<1> QED
  BY <1>1, <1>3, <1>4, <1>5 DEF AllIn

(* LEMMA GatheredKept: what has been sent is in the channel or accounted for.*)
LEMMA InitGathered == ScanInit => Gathered
  BY DEF ScanInit, Gathered, HasInventory

LEMMA GatheredKept == ScanTypeOK /\ Goroutines /\ Gathered /\ [ScanNext]_scanVars => Gathered'
<1> SUFFICES ASSUME ScanTypeOK, Goroutines, Gathered, [ScanNext]_scanVars PROVE Gathered'
    OBVIOUS
<1> USE DEF goroutines, collected
<1>1. CASE UNCHANGED << at, verdict, results, closed, stage, cancelErr, rows, failed, owners, outcome >>
  BY <1>1 DEF Gathered, Buffered, Accounted, Listed, AllIn, HasInventory
<1>2. CASE EndCaller \/ Propagate
  BY <1>1, <1>2 DEF EndCaller, Propagate
<1>3. ASSUME NEW p \in Providers, Provider(p) PROVE Gathered'
  <2> USE DEF ByProvider, MoveTo
  <2>1. UNCHANGED << stage, closed, outcome, cancelErr, rows, failed, owners >>
    BY <1>3 DEF Provider, GiveUp, PassGate, TakeSlot, FinishScan, CancelRest, Send, ReleaseSlot
  <2>2. at[p] \notin {"unborn", "done"}
    BY <1>3 DEF Provider, GiveUp, PassGate, TakeSlot, FinishScan, CancelRest, Send, ReleaseSlot
  <2>3. stage' \in {"spawn", "collect", "observe"} /\ stage' = stage /\ outcome' = "none"
    BY <2>1, <2>2, Running
  <2>4. \A q \in Providers \ {p} : at'[q] = at[q] /\ verdict'[q] = verdict[q]
    BY <1>3 DEF ScanTypeOK, Provider, GiveUp, PassGate, TakeSlot, FinishScan, CancelRest, Send,
                ReleaseSlot
  <2>5. verdict[p] # "open" => verdict'[p] = verdict[p]
    BY <1>3 DEF Goroutines, ScanTypeOK, Provider, GiveUp, PassGate, TakeSlot, FinishScan, CancelRest,
                Send, ReleaseSlot
  <2>6. \A q \in Providers : verdict[q] # "open" => verdict'[q] = verdict[q]
    BY <2>4, <2>5
  <2>7. rows' \subseteq Listed' /\ failed' \subseteq {q \in Providers : verdict'[q] = "error"}
    BY <2>1, <2>3, <2>6 DEF Gathered, Listed
  <2>8. \A q \in Providers : verdict[q] # "open" /\ Accounted(q) => Accounted(q)'
    BY <2>1, <2>6 DEF Accounted
  <2>9. CASE UNCHANGED results /\ (at'[p] \in {"release", "done"} => at[p] \in {"release", "done"})
    <3>1. \A q \in Providers : Buffered(q) => Buffered(q)'
      BY <2>9 DEF Buffered
    <3>2. \A q \in Providers : at'[q] \in {"release", "done"} =>
                                at[q] \in {"release", "done"} /\ verdict[q] # "open"
      BY <2>4, <2>9 DEF Goroutines
    <3>3. \A i \in 1 .. Len(results') : verdict'[results'[i]] # "open"
      BY <2>3, <2>6, <2>9 DEF Gathered, ScanTypeOK
    <3> QED
      BY <2>3, <2>7, <2>8, <3>1, <3>2, <3>3 DEF Gathered, HasInventory
  <2>10. CASE Send(p)
    <3>1. results' = Append(results, p) /\ verdict' = verdict
      BY <2>10 DEF Send
    <3>2. /\ Len(results') = Len(results) + 1 /\ results'[Len(results) + 1] = p
          /\ \A i \in 1 .. Len(results) : results'[i] = results[i]
          /\ Len(results) \in Nat
      BY <3>1 DEF ScanTypeOK
    <3>3. \A q \in Providers : Buffered(q) => Buffered(q)'
      BY <3>2 DEF Buffered
    <3>4. Buffered(p)'
      BY <3>2 DEF Buffered
    <3>5. verdict[p] # "open"
      BY <2>10 DEF Goroutines, Send
    <3>6. \A i \in 1 .. Len(results') : verdict'[results'[i]] # "open"
      BY <2>3, <3>1, <3>2, <3>5 DEF Gathered
    <3>7. \A q \in Providers : at'[q] \in {"release", "done"} => Buffered(q)' \/ Accounted(q)'
      BY <2>3, <2>4, <2>8, <3>3, <3>4 DEF Gathered, Goroutines
    <3> QED
      BY <2>3, <2>7, <3>6, <3>7 DEF Gathered, HasInventory
  <2> QED
    BY <1>3, <2>9, <2>10 DEF ScanTypeOK, Provider, GiveUp, PassGate, TakeSlot, FinishScan, CancelRest,
                             ReleaseSlot
<1>4. CASE Close
  BY <1>4 DEF Close, Gathered, Buffered, Accounted, Listed, AllIn, HasInventory
<1>5. CASE Enter \/ Spawn \/ OpenGate
  <2>1. UNCHANGED << verdict, results, closed, cancelErr, rows, failed, owners >>
    BY <1>5 DEF Enter, Spawn, OpenGate
  <2>2. \A q \in Providers : at'[q] \in {"release", "done"} => at[q] \in {"release", "done"}
    BY <1>5 DEF ScanTypeOK, Enter, Spawn, OpenGate, MoveTo
  <2>3. stage \in {"enter", "spawn"} /\ stage' \in {"spawn", "collect", "done"} /\ ~HasInventory'
    BY <1>5 DEF Goroutines, Enter, Spawn, OpenGate, Goes, Returns, HasInventory
  <2> QED
    BY <2>1, <2>2, <2>3 DEF Gathered, Buffered, Accounted, Listed
<1>6. CASE Receive
  <2>1. /\ results' = Tail(results) /\ results # << >> /\ held' = Head(results)
        /\ stage = "collect" /\ stage' = "observe" /\ outcome' = "none"
        /\ UNCHANGED << at, verdict >>
    BY <1>6 DEF Receive, Goroutines, ByCollector, Goes
  <2>2. /\ Len(results) \in Nat \ {0} /\ held' = results[1] /\ held' \in Providers
        /\ Len(results') = Len(results) - 1
        /\ \A i \in 1 .. Len(results') : results'[i] = results[i + 1]
    BY <2>1 DEF ScanTypeOK
  <2> PICK h \in Providers : h = held'
    BY <2>2
  <2> DEFINE v == verdict[h]
  <2>3. v # "open"
    BY <2>1, <2>2 DEF Gathered
  <2>4. /\ rows' = IF v = "ok" THEN rows \cup Found[h] ELSE rows
        /\ cancelErr' = IF v \in ContextErrors THEN v ELSE cancelErr
        /\ failed' = IF v # "ok" /\ v \notin ContextErrors THEN failed \cup {h} ELSE failed
    BY <1>6 DEF Receive, IsContextError
  <2>5. v = "error" <=> v # "ok" /\ v \notin ContextErrors
    BY <2>3 DEF ScanTypeOK
  <2>6. rows' \subseteq Listed' /\ failed' \subseteq {q \in Providers : verdict'[q] = "error"}
    BY <2>1, <2>2, <2>4, <2>5 DEF Gathered, Listed
  <2>7. Accounted(h)'
    BY <2>1, <2>2, <2>4, <2>5 DEF Accounted
  <2>8. \A q \in Providers : Accounted(q) => Accounted(q)'
    BY <2>1, <2>4 DEF Accounted
  <2>9. ASSUME NEW q \in Providers, Buffered(q) PROVE Buffered(q)' \/ Accounted(q)'
    <3>1. PICK i \in 1 .. Len(results) : results[i] = q
      BY <2>9 DEF Buffered
    <3>2. CASE i = 1
      BY <2>2, <2>7, <3>1, <3>2
    <3>3. CASE i # 1
      <4>1. i - 1 \in 1 .. Len(results') /\ results'[i - 1] = q
        BY <2>2, <3>1, <3>3
      <4> QED
        BY <4>1 DEF Buffered
    <3> QED
      BY <3>2, <3>3
  <2>10. \A i \in 1 .. Len(results') : verdict'[results'[i]] # "open"
    BY <2>1, <2>2 DEF Gathered
  <2> QED
    BY <2>1, <2>6, <2>8, <2>9, <2>10 DEF Gathered, HasInventory
<1>7. CASE Observe
  <2>1. cancelErr # "none" => cancelErr' # "none"
    BY <1>7 DEF Observe, Preferred
  <2>2. /\ UNCHANGED << at, verdict, results, rows, failed >>
        /\ stage = "observe" /\ stage' = "collect" /\ outcome' = "none"
    BY <1>7 DEF Observe, Goroutines, ByCollector, Goes
  <2> QED
    BY <2>1, <2>2 DEF Gathered, Buffered, Accounted, Listed, HasInventory
<1>8. CASE Conclude
  <2>1. UNCHANGED << at, verdict, closed, rows, failed >> /\ stage = "collect" /\ Drained
    BY <1>8 DEF Conclude, EndOfResults, ByCollector
  <2>2. CASE Returns("cancelled")
    BY <2>2 DEF Gathered, Returns, HasInventory
  <2>3. CASE Preferred = "none" /\ Goes("owners")
    <3>1. AllIn /\ rows = Listed
      BY <2>1, <2>3, NothingMissing DEF Preferred
    <3>2. stage' = "owners" /\ ~HasInventory'
      BY <2>1, <2>3 DEF Goes, Goroutines, HasInventory
    <3> QED
      BY <2>1, <3>1, <3>2 DEF Gathered, AllIn, Listed
  <2> QED
    BY <1>8, <2>2, <2>3 DEF Conclude
<1>9. CASE RequireOwnership
  <2>1. /\ stage = "owners" /\ stage' = "exclude" /\ ~HasInventory'
        /\ UNCHANGED << verdict, closed, failed >>
        /\ rows' = {r \in rows : Proven(r, owners')}
    BY <1>9 DEF RequireOwnership, ByCollector, Goes, Goroutines, HasInventory
  <2> QED
    BY <2>1 DEF Gathered, AllIn, Listed
<1>10. CASE Exclude
  <2>1. CASE Returns("cancelled")
    BY <2>1 DEF Gathered, Returns, HasInventory
  <2>2. CASE Goes("retention") /\ rows' = {r \in rows : ~r.excluded}
    <3>1. stage = "exclude" /\ stage' = "retention" /\ UNCHANGED << verdict, closed, failed, owners >>
      BY <1>10, <2>2 DEF Exclude, ByCollector, Goes
    <3>2. rows' = {r \in Listed : ~r.excluded /\ Proven(r, owners)}
      BY <2>2, <3>1 DEF Gathered
    <3> QED
      BY <3>1, <3>2 DEF Gathered, AllIn, Listed
  <2> QED
    BY <1>10, <2>1, <2>2 DEF Exclude
<1>11. CASE ScanStore \/ ReturnInventory
  <2>1. CASE Returns("cancelled")
    BY <2>1 DEF Gathered, Returns, HasInventory
  <2>2. CASE stage' \in {"retention", "done"}
    <3>1. stage = "retention" /\ UNCHANGED << verdict, closed, failed, owners, rows >>
      BY <1>11 DEF ScanStore, ReturnInventory, ByCollector
    <3> QED
      BY <2>2, <3>1 DEF Gathered, AllIn, Listed
  <2> QED
    BY <1>11, <2>1, <2>2 DEF ScanStore, Admit, ReturnInventory, Goes, Returns
<1>12. CASE UNCHANGED scanVars
  BY <1>1, <1>12 DEF scanVars
<1> QED
  BY <1>2, <1>3, <1>4, <1>5, <1>6, <1>7, <1>8, <1>9, <1>10, <1>11, <1>12
     DEF ScanNext, Collector, ScanEnded

-----------------------------------------------------------------------------
ScanInv == ScanTypeOK /\ Goroutines /\ Gathered /\ Causes /\ Retained

(* THEOREM ScanConsistent: the inductive invariant of a scan.                *)
THEOREM ScanConsistent == ScanSpec => []ScanInv
<1>1. ScanInit => ScanInv
  BY ScanStartTyped, InitGoroutines, InitGathered, InitCauses, InitRetained DEF ScanInv
<1>2. ScanInv /\ [ScanNext]_scanVars => ScanInv'
  BY ScanNextTyped, GoroutinesKept, GatheredKept, CausesKept, RetainedKept DEF ScanInv
<1> QED
  BY <1>1, <1>2, PTL DEF ScanSpec

(* THEOREM InventoriesExact: an inventory lists what the successful          *)
(* providers found, less what is excluded or has no proven owner, and names  *)
(* every provider that failed.                                               *)
THEOREM InventoriesExact == ScanSpec => []InventoryExact
<1>1. ScanInv => InventoryExact
  BY DEF ScanInv, Gathered, AllIn, Listed, Proven, InventoryExact
<1> QED
  BY <1>1, ScanConsistent, PTL

(* THEOREM NoneCutShort: no inventory holds rows of a provider that was told *)
(* to stop while it was scanning.                                            *)
THEOREM NoneCutShort == ScanSpec => []NothingCutShort
<1>1. ScanInv => NothingCutShort
  <2> SUFFICES ASSUME ScanInv, HasInventory, late # {} PROVE FALSE
      BY DEF NothingCutShort
  <2>1. \E p \in Providers : verdict[p] \in ContextErrors
    BY DEF ScanInv, Causes
  <2>2. \A p \in Providers : verdict[p] \in {"ok", "error"}
    BY DEF ScanInv, Gathered, AllIn
  <2> QED
    BY <2>1, <2>2
<1> QED
  BY <1>1, ScanConsistent, PTL

(* THEOREM RetentionIsHonest: a projection that does not call itself partial *)
(* lists every bucket of every store, each once.                             *)
THEOREM RetentionIsHonest == ScanSpec => []RetentionHonest
<1>1. ScanInv => RetentionHonest
  BY ScanAssumption DEF ScanInv, Retained, RetentionHonest, Stores
<1> QED
  BY <1>1, ScanConsistent, PTL

(* THEOREM CancelledWithCause: a scan is cancelled only if its caller was, or *)
(* a provider or a retention store reported a context error of its own.      *)
THEOREM CancelledWithCause == ScanSpec => []CancelledForCause
<1>1. ScanInv => CancelledForCause
  BY DEF ScanInv, Causes, Cause, CancelledForCause
<1> QED
  BY <1>1, ScanConsistent, PTL

-----------------------------------------------------------------------------
(* The scan implements ScanPromise.                                          *)

FateOf == [p \in Providers |-> Fate(p)]

(* LEMMA Fates: the fate of a provider, by how its scan ended.               *)
LEMMA Fates ==
  ASSUME ScanTypeOK
  PROVE  \A p \in Providers :
           /\ FateOf[p] \in {"open", "listed", "failed", "aborted"}
           /\ FateOf[p] = "open" <=> verdict[p] = "open"
           /\ FateOf[p] = "failed" <=> verdict[p] = "error"
           /\ FateOf[p] = "aborted" <=> verdict[p] \in ContextErrors
  BY DEF ScanTypeOK, FateOf, Fate

(* LEMMA SettleOne: ending the scan of one provider settles its fate.        *)
LEMMA SettleOne ==
  ASSUME ScanTypeOK, ScanTypeOK', NEW p \in Providers, outcome = "none", UNCHANGED outcome,
         verdict[p] = "open", NEW v \in Verdicts, verdict' = [verdict EXCEPT ![p] = v]
  PROVE  Promise!Settle(p)
<1>1. verdict'[p] = v /\ \A q \in Providers : q # p => verdict'[q] = verdict[q]
  BY DEF ScanTypeOK
<1>2. \A q \in Providers : q # p => Fate(q)' = Fate(q)
  BY <1>1 DEF Fate
<1>3. Fate(p)' \in {"listed", "failed", "aborted"}
  BY <1>1 DEF Fate
<1>4. FateOf' = [FateOf EXCEPT ![p] = Fate(p)']
  BY <1>2 DEF FateOf
<1>5. FateOf[p] = "open"
  BY Fates
<1> QED
  BY <1>3, <1>4, <1>5 DEF Promise!Settle, FateOf

(* LEMMA Reports: what the collector's last step amounts to.                 *)
LEMMA Reports ==
  ASSUME ScanInv, closed, outcome = "none", UNCHANGED verdict,
         \/ outcome' = "cancelled"
         \/ AllIn /\ outcome' = IF failed = {} THEN "complete" ELSE "partial"
  PROVE  Promise!Report
<1>1. UNCHANGED FateOf
  BY DEF FateOf, Fate
<1>2. \A p \in Providers : FateOf[p] # "open"
  BY Fates DEF ScanInv, Goroutines
<1>3. AllIn => /\ \A p \in Providers : FateOf[p] # "aborted"
               /\ failed # {} <=> \E p \in Providers : FateOf[p] = "failed"
  BY Fates DEF ScanInv, AllIn
<1> QED
  BY <1>1, <1>2, <1>3 DEF Promise!Report, Promise!Inventory, FateOf

(* THEOREM ScanKeepsPromise: every step of a scan is a step of ScanPromise,  *)
(* or changes nothing that it speaks of.                                     *)
THEOREM ScanKeepsPromise == ScanSpec => KeepsPromise
<1>1. ScanInit => Promise!Init
  BY DEF ScanInit, Promise!Init, Fate
<1>2. ScanInv /\ ScanInv' /\ [ScanNext]_scanVars => [Promise!Next]_<< FateOf, outcome >>
  <2> SUFFICES ASSUME ScanInv, ScanInv', [ScanNext]_scanVars
               PROVE  [Promise!Next]_<< FateOf, outcome >>
      OBVIOUS
  <2> USE DEF goroutines, collected
  <2>1. CASE UNCHANGED << verdict, outcome >>
    BY <2>1 DEF FateOf, Fate
  <2>2. CASE EndCaller \/ Propagate \/ Close \/ ScanEnded \/ UNCHANGED scanVars
    BY <2>1, <2>2 DEF EndCaller, Propagate, Close, ScanEnded, scanVars
  <2>3. ASSUME NEW p \in Providers, Provider(p)
        PROVE  Promise!Next \/ UNCHANGED << verdict, outcome >>
    <3>1. CASE PassGate(p) \/ TakeSlot(p) \/ CancelRest(p) \/ Send(p) \/ ReleaseSlot(p)
      BY <3>1 DEF PassGate, TakeSlot, CancelRest, Send, ReleaseSlot, ByProvider
    <3>2. CASE GiveUp(p) \/ FinishScan(p)
      <4>1. at[p] \notin {"unborn", "done"} /\ verdict[p] = "open" /\ UNCHANGED outcome
        BY <3>2 DEF GiveUp, FinishScan, ByProvider, ScanInv, Goroutines
      <4>2. PICK v \in Verdicts : verdict' = [verdict EXCEPT ![p] = v]
        BY <3>2 DEF GiveUp, FinishScan, ScanInv, ScanTypeOK
      <4>3. outcome = "none"
        BY <4>1, Running DEF ScanInv
      <4> QED
        BY <4>1, <4>2, <4>3, SettleOne DEF ScanInv, Promise!Next
    <3> QED
      BY <2>3, <3>1, <3>2 DEF Provider
  <2>4. CASE Enter
    <3>1. CASE outcome' = "none"
      BY <2>1, <2>4, <3>1 DEF Enter, ScanInv, Goroutines
    <3>2. CASE outcome' \in {"rejected", "cancelled"}
      <4>1. \A p \in Providers : verdict[p] = "open"
        BY <2>4, ScanAssumption DEF Enter, ScanInv, Goroutines, Providers
      <4>2. UNCHANGED FateOf
        BY <2>4 DEF Enter, FateOf, Fate
      <4>3. Promise!Refuse
        BY <2>4, <3>2, <4>1, <4>2, Fates DEF Enter, ScanInv, Goroutines, Promise!Refuse, FateOf
      <4> QED
        BY <4>3 DEF Promise!Next
    <3> QED
      BY <2>4, <3>1, <3>2 DEF Enter, Goes, Returns, ScanInv, Goroutines
  <2>5. CASE Spawn \/ OpenGate \/ Receive \/ Observe \/ RequireOwnership
    BY <2>1, <2>5 DEF Spawn, OpenGate, Receive, Observe, RequireOwnership, ByCollector, Goes
  <2>6. CASE Conclude \/ Exclude \/ ScanStore \/ ReturnInventory
    <3>1. closed /\ outcome = "none" /\ UNCHANGED verdict
      BY <2>6 DEF Conclude, Exclude, ScanStore, ReturnInventory, EndOfResults, Drained,
                  ByCollector, ScanInv, Goroutines
    <3>2. \/ UNCHANGED outcome
          \/ outcome' = "cancelled"
          \/ AllIn /\ outcome' = IF failed = {} THEN "complete" ELSE "partial"
      BY <2>6 DEF Conclude, Exclude, ScanStore, ReturnInventory, Admit, Goes, Returns, ScanInv,
                  Gathered
    <3> QED
      BY <2>1, <3>1, <3>2, Reports DEF Promise!Next
  <2> QED
    BY <2>1, <2>2, <2>3, <2>4, <2>5, <2>6 DEF ScanNext, Collector
<1> QED
  BY <1>1, <1>2, ScanConsistent, PTL DEF ScanSpec, KeepsPromise, Promise!Spec, FateOf

-----------------------------------------------------------------------------
(* The snapshot: its documents.                                              *)

(* LEMMA Kinds: a document is not nothing.                                   *)
LEMMA Kinds ==
  ASSUME NEW d \in Document
  PROVE  d # Nothing /\ Readable(d)
<1>1. DOMAIN d = {"selector", "key", "created", "partial", "excluded", "rows", "evidence"}
  BY DEF Document
<1>2. DOMAIN Nothing = {"none"}
  BY DEF Nothing
<1>3. d # Nothing
  BY <1>1, <1>2
<1> QED
  BY <1>3 DEF Readable

(* LEMMA Blanks: a document with nothing in it is a document.                *)
LEMMA Blanks ==
  ASSUME NEW r \in Request
  PROVE  Blank(r) \in Document
  BY CacheAssumption DEF Request, Blank, Document, NoRows, Object

(* LEMMA Edits: what the program changes in a document leaves a document.    *)
LEMMA Edits ==
  ASSUME NEW d \in Document
  PROVE  /\ \A t \in Targets, o \in Object : [d EXCEPT !.rows[t] = o] \in Document
         /\ \A t \in Targets, o \in Object : [d EXCEPT !.evidence[t] = o] \in Document
         /\ \A s \in Selectors : [d EXCEPT !.selector = s] \in Document
         /\ \A c \in 0 .. MaxClock : [d EXCEPT !.created = c] \in Document
         /\ \A b \in BOOLEAN : [d EXCEPT !.partial = b] \in Document
  BY DEF Document

Places == {"start", "inspect", "validate", "held", "open", "rename", "scan", "refused",
           "capture", "drop", "use", "invalidate", "ended"}

(* LEMMA Asked: what each process was asked for.                             *)
LEMMA Asked ==
  ASSUME request \in Requests
  PROVE  \A p \in Procs : /\ request[p] \in Request
                          /\ request[p].selector \in Selectors
                          /\ Blank(request[p]) \in Document
<1>1. \A p \in Procs : request[p] \in Request
  BY CacheAssumption
<1>2. \A p \in Procs : request[p].selector \in Selectors
  BY <1>1 DEF Request
<1> QED
  BY <1>1, <1>2, Blanks

LEMMA InitTyped == Init => TypeOK
<1> SUFFICES ASSUME Init PROVE TypeOK
    OBVIOUS
<1>1. doc \in [Procs -> Document] /\ draft \in [Procs -> Document]
  BY Asked DEF Init
<1>2. request \in Requests /\ file \in Document \cup {Nothing}
  BY DEF Init
<1>3. object \in [Targets -> Object] /\ born \in [Targets -> Object]
  <2>1. 1 \in Object
    BY CacheAssumption DEF Object
  <2> QED
    BY <2>1 DEF Init
<1>4. clock \in 0 .. MaxClock /\ events \in 0 .. MaxEvents
  BY CacheAssumption DEF Init
<1>5. /\ pc \in [Procs -> Places] /\ left \in [Procs -> SUBSET Targets]
      /\ reused \in [Procs -> BOOLEAN]
  BY DEF Init, Places
<1>6. /\ issued \in [Procs -> Document \cup {Nothing}]
      /\ seen \in [Procs -> [Targets -> SUBSET Object]]
  BY DEF Init
<1>7. removed \subseteq [target : Targets, row : Object, was : Object]
  BY DEF Init
<1> QED
  BY <1>1, <1>2, <1>3, <1>4, <1>5, <1>6, <1>7 DEF TypeOK, Places

(* LEMMA EndsTyped, ScanAgainTyped: ending, and beginning a live scan.       *)
LEMMA EndsTyped ==
  ASSUME TypeOK, NEW p \in Procs, Ends(p)
  PROVE  /\ pc' \in [Procs -> Places] /\ doc' \in [Procs -> Document]
         /\ draft' \in [Procs -> Document] /\ left' \in [Procs -> SUBSET Targets]
         /\ reused' \in [Procs -> BOOLEAN] /\ seen' \in [Procs -> [Targets -> SUBSET Object]]
<1>1. Blank(request[p]) \in Document
  BY Asked DEF TypeOK
<1> QED
  BY <1>1 DEF TypeOK, Ends, Places

LEMMA ScanAgainTyped ==
  ASSUME TypeOK, NEW p \in Procs, ScanAgain(p)
  PROVE  /\ pc' \in [Procs -> Places] /\ doc' \in [Procs -> Document]
         /\ left' \in [Procs -> SUBSET Targets] /\ reused' \in [Procs -> BOOLEAN]
         /\ seen' \in [Procs -> [Targets -> SUBSET Object]]
<1>1. Blank(request[p]) \in Document
  BY Asked DEF TypeOK
<1> QED
  BY <1>1 DEF TypeOK, ScanAgain, GoTo, Places

LEMMA ForgetsTyped ==
  ASSUME TypeOK, NEW p \in Procs, Forgets(p)
  PROVE  draft' \in [Procs -> Document]
<1>1. Blank(request[p]) \in Document
  BY Asked DEF TypeOK
<1> QED
  BY <1>1 DEF TypeOK, Forgets

LEMMA ProcessTyped ==
  ASSUME TypeOK, NEW p \in Procs, Process(p)
  PROVE  TypeOK'
<1> USE DEF world, history, Local, Unsaved, Keeps, Places
<1>1. CASE Start(p)
  BY <1>1, ScanAgainTyped DEF TypeOK, Start, GoTo
<1>2. CASE Inspect(p)
  <2>1. CASE ~(Readable(file) /\ Reusable(p, file))
    BY <1>2, <2>1, ScanAgainTyped DEF TypeOK, Inspect
  <2>2. CASE Readable(file) /\ Reusable(p, file)
    <3>1. file \in Document
      BY <2>2 DEF TypeOK, Readable
    <3>2. doc' \in [Procs -> Document]
      BY <1>2, <2>2, <3>1 DEF TypeOK, Inspect
    <3>3. seen' \in [Procs -> [Targets -> SUBSET Object]]
      BY <1>2, <2>2 DEF TypeOK, Inspect
    <3>4. /\ GoTo(p, "validate") /\ reused' = [reused EXCEPT ![p] = TRUE]
          /\ left' = [left EXCEPT ![p] = {t \in Targets : file.rows[t] # 0}]
          /\ Local /\ Unsaved
      BY <1>2, <2>2 DEF Inspect
    <3>5. pc' \in [Procs -> Places] /\ reused' \in [Procs -> BOOLEAN]
      BY <3>4 DEF TypeOK, GoTo
    <3>6. left' \in [Procs -> SUBSET Targets]
      BY <3>4 DEF TypeOK
    <3> QED
      BY <3>2, <3>3, <3>4, <3>5, <3>6 DEF TypeOK
  <2> QED
    BY <2>1, <2>2
<1>3. CASE Validate(p)
  <2>1. UNCHANGED << request, object, born, clock, events, file, draft, issued, removed >>
    BY <1>3 DEF Validate
  <2>2. CASE ScanAgain(p)
    BY <2>1, <2>2, ScanAgainTyped DEF TypeOK
  <2>3. CASE \E t \in left[p] : /\ left' = [left EXCEPT ![p] = @ \ {t}]
                                /\ UNCHANGED << pc, doc, reused, seen >>
    BY <2>1, <2>3 DEF TypeOK
  <2> QED
    BY <1>3, <2>2, <2>3 DEF Validate
<1>4. CASE Claim(p)
  <2>1. CASE ScanAgain(p) /\ UNCHANGED draft
    BY <1>4, <2>1, ScanAgainTyped DEF TypeOK, Claim
  <2>2. CASE /\ GoTo(p, "open") /\ Keeps /\ Readable(file)
             /\ draft' = [draft EXCEPT ![p] = Claimed(p, file)]
    <3>1. file \in Document /\ request[p].selector \in Selectors
      BY <2>2, Asked DEF TypeOK, Readable
    <3>2. Claimed(p, file) \in Document
      BY <3>1, Edits DEF Claimed, ClaimedAsIs
    <3> QED
      BY <1>4, <2>2, <3>2 DEF TypeOK, Claim, GoTo
  <2>3. CASE GoTo(p, "use") /\ Keeps /\ UNCHANGED draft
    BY <1>4, <2>3 DEF TypeOK, Claim, GoTo
  <2> QED
    BY <1>4, <2>1, <2>2, <2>3 DEF Claim
<1>5. CASE CheckHeld(p)
  BY <1>5, ScanAgainTyped DEF TypeOK, CheckHeld, GoTo
<1>6. CASE OpenDraft(p)
  <2>1. pc' \in [Procs -> Places] /\ UNCHANGED << file, draft, doc, left, reused, seen >>
    BY <1>6 DEF TypeOK, OpenDraft, GoTo
  <2>2. UNCHANGED << request, object, born, clock, events, issued, removed >>
    BY <1>6 DEF OpenDraft
  <2> QED
    BY <2>1, <2>2 DEF TypeOK
<1>7. CASE Rename(p)
  <2>1. file' \in Document /\ issued' \in [Procs -> Document \cup {Nothing}]
    BY <1>7 DEF TypeOK, Rename
  <2>2. CASE Ends(p)
    BY <1>7, <2>1, <2>2, EndsTyped DEF TypeOK, Rename
  <2>3. CASE \E place \in Places : GoTo(p, place) /\ Keeps /\ Forgets(p)
    BY <1>7, <2>1, <2>3, ForgetsTyped DEF TypeOK, Rename, GoTo
  <2> QED
    BY <1>7, <2>2, <2>3 DEF Rename
<1>8. CASE FailSave(p)
  <2>1. CASE Ends(p)
    BY <1>8, <2>1, EndsTyped DEF TypeOK, FailSave
  <2>2. CASE GoTo(p, "use") /\ Keeps /\ Forgets(p)
    BY <1>8, <2>2, ForgetsTyped DEF TypeOK, FailSave, GoTo
  <2>3. CASE ScanAgain(p) /\ Forgets(p)
    BY <1>8, <2>3, ForgetsTyped, ScanAgainTyped DEF TypeOK, FailSave
  <2> QED
    BY <1>8, <2>1, <2>2, <2>3 DEF FailSave
<1>9. CASE ScanTarget(p)
  <2> PICK t \in left[p] : /\ doc' = [doc EXCEPT ![p].rows[t] = object[t]]
                           /\ left' = [left EXCEPT ![p] = @ \ {t}]
      BY <1>9 DEF ScanTarget
  <2>1. t \in Targets /\ object[t] \in Object /\ doc[p] \in Document
    BY DEF TypeOK
  <2>2. [doc[p] EXCEPT !.rows[t] = object[t]] \in Document
    BY <2>1, Edits
  <2>3. doc' = [doc EXCEPT ![p] = [doc[p] EXCEPT !.rows[t] = object[t]]]
    BY DEF TypeOK
  <2> QED
    BY <1>9, <2>2, <2>3 DEF TypeOK, ScanTarget
<1>10. CASE EndScan(p)
  <2> PICK how \in {"partial", "complete"} : doc' = [doc EXCEPT ![p].partial = (how = "partial")]
      BY <1>10 DEF EndScan
  <2>1. doc[p] \in Document /\ (how = "partial") \in BOOLEAN
    BY DEF TypeOK
  <2>2. [doc[p] EXCEPT !.partial = (how = "partial")] \in Document
    BY <2>1, Edits
  <2>3. doc' \in [Procs -> Document]
    BY <2>2 DEF TypeOK
  <2>4. \E place \in Places : GoTo(p, place)
    BY <1>10 DEF EndScan
  <2>5. pc' \in [Procs -> Places]
    BY <2>4 DEF TypeOK, GoTo
  <2>6. left' = left \/ left' = [left EXCEPT ![p] = {t \in Targets : doc[p].rows[t] # 0}]
    BY <1>10 DEF EndScan
  <2>7. left' \in [Procs -> SUBSET Targets]
    BY <2>6 DEF TypeOK
  <2> QED
    BY <1>10, <2>3, <2>5, <2>7 DEF TypeOK, EndScan
<1>11. CASE Capture(p)
  <2> PICK t \in left[p] : /\ left' = [left EXCEPT ![p] = @ \ {t}]
                           /\ \/ doc' = [doc EXCEPT ![p].evidence[t] = object[t]]
                              \/ UNCHANGED doc
      BY <1>11 DEF Capture
  <2>1. t \in Targets /\ object[t] \in Object /\ doc[p] \in Document
    BY DEF TypeOK
  <2>2. [doc[p] EXCEPT !.evidence[t] = object[t]] \in Document
    BY <2>1, Edits
  <2>3. doc' \in [Procs -> Document]
    BY <2>2 DEF TypeOK
  <2> QED
    BY <1>11, <2>3 DEF TypeOK, Capture
<1>12. CASE EndCapture(p)
  <2>1. doc[p] \in Document /\ Stamp \in 0 .. MaxClock
    BY DEF TypeOK, Stamp
  <2>2. [doc[p] EXCEPT !.created = Stamp] \in Document
    BY <2>1, Edits
  <2>3. draft' \in [Procs -> Document]
    BY <1>12, <2>2 DEF TypeOK, EndCapture
  <2> QED
    BY <1>12, <2>3 DEF TypeOK, EndCapture, GoTo
<1>13. CASE Drop(p)
  BY <1>13, EndsTyped DEF TypeOK, Drop, Invalidated, GoTo
<1>14. CASE Remove(p)
  <2>1. object' \in [Targets -> Object]
    BY <1>14, CacheAssumption DEF TypeOK, Remove, Object
  <2>2. seen' \in [Procs -> [Targets -> SUBSET Object]]
    BY <1>14, CacheAssumption DEF TypeOK, Remove, Object
  <2>3. removed' \subseteq [target : Targets, row : Object, was : Object]
    <3>1. \A t \in Targets : doc[p].rows[t] \in Object /\ object[t] \in Object
      BY DEF TypeOK, Document
    <3> QED
      BY <1>14, <3>1 DEF TypeOK, Remove
  <2> QED
    BY <1>14, <2>1, <2>2, <2>3 DEF TypeOK, Remove, GoTo
<1>15. CASE Invalidate(p)
  BY <1>15, EndsTyped DEF TypeOK, Invalidate, Invalidated
<1> QED
  BY <1>1, <1>2, <1>3, <1>4, <1>5, <1>6, <1>7, <1>8, <1>9, <1>10, <1>11, <1>12, <1>13, <1>14, <1>15
     DEF Process

LEMMA NextTyped == TypeOK /\ [Next]_vars => TypeOK'
<1> SUFFICES ASSUME TypeOK, [Next]_vars PROVE TypeOK'
    OBVIOUS
<1> USE DEF world, history
<1>1. CASE UNCHANGED vars
  BY <1>1 DEF TypeOK, vars
<1>2. ASSUME NEW t \in Targets, Exchange(t) PROVE TypeOK'
  <2>1. events' \in 0 .. MaxEvents
    BY <1>2, CacheAssumption DEF TypeOK, Exchange, Change
  <2>2. object' \in [Targets -> Object] /\ born' \in [Targets -> Object]
    <3>1. \A n \in Object : n < MaxObjects => n + 1 \in Object
      BY CacheAssumption DEF Object
    <3>2. 0 \in Object
      BY CacheAssumption DEF Object
    <3>3. born[t] \in Object
      BY DEF TypeOK
    <3>4. CASE object[t] # 0 /\ object' = [object EXCEPT ![t] = 0] /\ UNCHANGED born
      BY <3>2, <3>4 DEF TypeOK
    <3>5. CASE /\ born[t] < MaxObjects /\ born' = [born EXCEPT ![t] = @ + 1]
               /\ object' = [object EXCEPT ![t] = born'[t]]
      <4>1. born' = [born EXCEPT ![t] = born[t] + 1] /\ born[t] + 1 \in Object
        BY <3>1, <3>3, <3>5 DEF TypeOK
      <4>2. born' \in [Targets -> Object]
        BY <4>1 DEF TypeOK
      <4> QED
        BY <3>5, <4>2 DEF TypeOK
    <3> QED
      BY <1>2, <3>4, <3>5 DEF Exchange
  <2>3. seen' \in [Procs -> [Targets -> SUBSET Object]]
    BY <1>2, <2>2 DEF TypeOK, Exchange
  <2> QED
    BY <1>2, <2>1, <2>2, <2>3 DEF TypeOK, Exchange, Change
<1>3. CASE SetClock
  <2>1. events' \in 0 .. MaxEvents
    BY <1>3, CacheAssumption DEF TypeOK, SetClock, Change
  <2> QED
    BY <1>3, <2>1 DEF TypeOK, SetClock, Change
<1>4. ASSUME NEW p \in Procs, Stop(p) PROVE TypeOK'
  BY <1>4, EndsTyped DEF TypeOK, Stop, Places
<1> QED
  BY <1>1, <1>2, <1>3, <1>4, ProcessTyped DEF Next, Stopped

(* THEOREM TypeCorrect: every variable keeps its type.                       *)
THEOREM TypeCorrect == Spec => []TypeOK
  BY InitTyped, NextTyped, PTL DEF Spec

-----------------------------------------------------------------------------
(* The snapshot: its inductive invariant.                                    *)

Phase(p) ==
  /\ pc[p] \in {"start", "inspect", "scan", "refused", "capture", "drop"} => ~reused[p]
  /\ pc[p] \in {"validate", "held"} => reused[p]
  /\ pc[p] = "capture" => ~doc[p].partial
  /\ issued[p] # Nothing => pc[p] \in {"use", "invalidate", "ended"}

Phases == \A p \in Procs : Phase(p)

(* A document is what a complete scan saved, but for a claim.                *)
From(d, i) == /\ i # Nothing /\ i.selector \in {"scan", d.selector}
              /\ d = [i EXCEPT !.selector = d.selector]

Genuine(d) == ~d.partial /\ \E p \in Procs : From(d, issued[p])

Provenance ==
  /\ file # Nothing => file \in Document /\ Genuine(file)
  /\ \A p \in Procs : pc[p] \in {"open", "rename"} =>
       IF reused[p] THEN Genuine(draft[p]) ELSE ~draft[p].partial

(* Evidence vouches for the object that the row was read from.               *)
Faithful(d) == \A t \in Targets \ Worktrees : d.evidence[t] # 0 => d.evidence[t] = d.rows[t]

Evidence ==
  /\ Readable(file) => Faithful(file)
  /\ \A p \in Procs : Faithful(doc[p]) /\ Faithful(draft[p])
  /\ \A p \in Procs : pc[p] = "scan" => doc[p].evidence = NoRows
  /\ RemovesWhatWasScanned

(* What a process reuses it has seen, or will look at before it uses it.     *)
Checked(p) ==
  reused[p] => \A t \in Targets :
    /\ object[t] \in seen[p][t]
    /\ doc[p].rows[t] # 0 =>
         doc[p].evidence[t] \in seen[p][t] \/ (pc[p] = "validate" /\ t \in left[p])

Revalidated == \A p \in Procs : Checked(p)

IInv == TypeOK /\ Phases /\ Provenance /\ Evidence /\ Revalidated

-----------------------------------------------------------------------------
(* LEMMA Others: a process has to do with itself only, but that a removal is *)
(* seen by all.                                                              *)
LEMMA Others ==
  ASSUME TypeOK, NEW p \in Procs, Process(p) \/ Stop(p), NEW q \in Procs, q # p
  PROVE  /\ pc'[q] = pc[q] /\ doc'[q] = doc[q] /\ draft'[q] = draft[q]
         /\ left'[q] = left[q] /\ reused'[q] = reused[q] /\ issued'[q] = issued[q]
<1> USE DEF TypeOK, Process, Stop, Ends, Start, Inspect, Validate, Claim, CheckHeld, OpenDraft,
            Rename, FailSave, ScanTarget, EndScan, Capture, EndCapture, Drop, Remove, Invalidate,
            Invalidated,
            ScanAgain, GoTo, Keeps, Unsaved, Forgets, Local, history
<1>1. pc'[q] = pc[q]
  OBVIOUS
<1>2. doc'[q] = doc[q]
  OBVIOUS
<1>3. draft'[q] = draft[q]
  OBVIOUS
<1>4. left'[q] = left[q]
  OBVIOUS
<1>5. reused'[q] = reused[q]
  OBVIOUS
<1>6. issued'[q] = issued[q]
  OBVIOUS
<1> QED
  BY <1>1, <1>2, <1>3, <1>4, <1>5, <1>6

(* LEMMA PhasesKept: what a process has at each place.                       *)
LEMMA InitPhases == TypeOK /\ Init => Phases
  BY DEF TypeOK, Init, Phases, Phase

LEMMA PhaseKept ==
  ASSUME TypeOK, NEW p \in Procs, Phase(p), Process(p) \/ Stop(p)
  PROVE  Phase(p)'
<1> USE DEF TypeOK, Phase, GoTo, Local, Unsaved, Keeps, history
<1>1. CASE Stop(p)
  BY <1>1 DEF Stop, Ends
<1>2. CASE Start(p)
  BY <1>2 DEF Start, ScanAgain
<1>3. CASE Inspect(p)
  BY <1>3 DEF Inspect, ScanAgain
<1>4. CASE Validate(p)
  BY <1>4 DEF Validate, ScanAgain
<1>5. CASE Claim(p)
  BY <1>5 DEF Claim, ScanAgain
<1>6. CASE CheckHeld(p)
  BY <1>6 DEF CheckHeld, ScanAgain
<1>7. CASE OpenDraft(p)
  BY <1>7 DEF OpenDraft
<1>8. CASE Rename(p)
  BY <1>8 DEF Rename, Ends
<1>9. CASE FailSave(p)
  BY <1>9 DEF FailSave, Ends, ScanAgain
<1>10. CASE ScanTarget(p)
  BY <1>10 DEF ScanTarget
<1>11. CASE EndScan(p)
  BY <1>11 DEF EndScan, Refused
<1>12. CASE Capture(p)
  <2>1. doc[p] \in Document
    OBVIOUS
  <2>2. doc'[p] = doc[p] \/ \E t \in Targets : doc'[p] = [doc[p] EXCEPT !.evidence[t] = object[t]]
    BY <1>12 DEF Capture
  <2>3. doc'[p].partial = doc[p].partial
    BY <2>1, <2>2 DEF Document
  <2> QED
    BY <1>12, <2>3 DEF Capture
<1>13. CASE EndCapture(p)
  BY <1>13 DEF EndCapture
<1>14. CASE Drop(p)
  BY <1>14 DEF Drop, Invalidated, Ends
<1>15. CASE Remove(p)
  BY <1>15 DEF Remove
<1>16. CASE Invalidate(p)
  BY <1>16 DEF Invalidate, Invalidated, Ends
<1> QED
  BY <1>1, <1>2, <1>3, <1>4, <1>5, <1>6, <1>7, <1>8, <1>9, <1>10, <1>11, <1>12, <1>13, <1>14,
     <1>15, <1>16 DEF Process

LEMMA PhasesKept == TypeOK /\ Phases /\ [Next]_vars => Phases'
<1> SUFFICES ASSUME TypeOK, Phases, [Next]_vars PROVE Phases'
    OBVIOUS
<1>1. CASE UNCHANGED << pc, reused, doc, issued >>
  BY <1>1 DEF Phases, Phase
<1>2. ASSUME NEW p \in Procs, Process(p) \/ Stop(p) PROVE Phases'
  <2>1. \A q \in Procs : q # p => Phase(q)'
    BY <1>2, Others DEF Phases, Phase
  <2>2. Phase(p)'
    BY <1>2, PhaseKept DEF Phases
  <2> QED
    BY <2>1, <2>2 DEF Phases
<1> QED
  BY <1>1, <1>2 DEF Next, Exchange, SetClock, Change, Stopped, vars, history

-----------------------------------------------------------------------------
(* LEMMA FromClaim: a claim of a document that is for any route comes from   *)
(* where the document came from.                                             *)
LEMMA FromClaim ==
  ASSUME NEW d \in Document, NEW i \in Document \cup {Nothing}, From(d, i),
         d.selector = "scan", NEW s \in Selectors
  PROVE  From([d EXCEPT !.selector = s], i)
  BY Kinds DEF From, Document

(* LEMMA FromItself: a document comes from itself.                           *)
LEMMA FromItself ==
  ASSUME NEW d \in Document
  PROVE  From(d, d)
  BY Kinds DEF From, Document

(* LEMMA ProvenanceKept: what is on disk is what one complete scan saved.    *)
LEMMA InitProvenance == Init => Provenance
  BY DEF Init, Provenance

LEMMA ProvenanceKept == TypeOK /\ Phases /\ Provenance /\ [Next]_vars => Provenance'
<1> SUFFICES ASSUME TypeOK, Phases, Provenance, [Next]_vars PROVE Provenance'
    OBVIOUS
<1>1. CASE UNCHANGED << file, issued, pc, reused, draft >>
  BY <1>1 DEF Provenance, Genuine, From
<1>2. ASSUME NEW p \in Procs, Process(p) \/ Stop(p) PROVE Provenance'
  <2>1. \A q \in Procs : q # p => /\ pc'[q] = pc[q] /\ draft'[q] = draft[q]
                                  /\ reused'[q] = reused[q] /\ issued'[q] = issued[q]
    BY <1>2, Others
  <2>2. \A q \in Procs : issued[q] # Nothing => issued'[q] = issued[q]
    <3>1. issued[p] # Nothing => issued'[p] = issued[p]
      BY <1>2 DEF Phases, Phase, TypeOK, Process, Stop, Start, Inspect, Validate, Claim, CheckHeld,
                  OpenDraft, Rename, FailSave, ScanTarget, EndScan, Capture, EndCapture, Drop,
                  Remove, Invalidate, Invalidated, Local, history
    <3> QED
      BY <2>1, <3>1
  <2>3. ASSUME NEW d \in Document, Genuine(d) PROVE Genuine(d)'
    BY <2>2, <2>3 DEF Genuine, From
  <2>4. ASSUME file' = Nothing \/ file' = file PROVE file' # Nothing => file' \in Document /\ Genuine(file)'
    BY <2>2, <2>4 DEF Provenance, Genuine, From
  <2>5. ASSUME NEW q \in Procs, q # p, pc'[q] \in {"open", "rename"}
        PROVE  IF reused'[q] THEN Genuine(draft[q])' ELSE ~draft'[q].partial
    <3>1. IF reused[q] THEN Genuine(draft[q]) ELSE ~draft[q].partial
      BY <2>1, <2>5 DEF Provenance
    <3>2. draft'[q] = draft[q] /\ reused'[q] = reused[q]
      BY <2>1, <2>5
    <3>3. Genuine(draft[q]) => Genuine(draft[q])'
      BY <2>2, <3>2 DEF Genuine, From
    <3> QED
      BY <3>1, <3>2, <3>3
  <2>6. ASSUME file' = Nothing \/ file' = file,
               pc'[p] \in {"open", "rename"} =>
                 IF reused'[p] THEN Genuine(draft[p])' ELSE ~draft'[p].partial
        PROVE  Provenance'
    BY <2>4, <2>5, <2>6 DEF Provenance
  <2>7. CASE OpenDraft(p)
    <3>1. UNCHANGED << file, draft, reused >> /\ pc[p] = "open"
      BY <2>7 DEF OpenDraft, Unsaved, Keeps, Local
    <3>2. IF reused'[p] THEN Genuine(draft[p])' ELSE ~draft'[p].partial
      BY <2>2, <3>1 DEF Provenance, Genuine, From
    <3> QED
      BY <2>6, <3>1, <3>2
  <2>8. CASE Claim(p)
    <3>1. file' = file /\ reused'[p] \in BOOLEAN
      BY <2>8 DEF Claim, Local, TypeOK, Keeps, ScanAgain
    <3>2. CASE pc'[p] # "open"
      BY <2>6, <2>8, <3>1, <3>2 DEF TypeOK, Claim, GoTo, ScanAgain
    <3>3. CASE pc'[p] = "open"
      <4>1. /\ Readable(file) /\ file.selector = "scan" /\ reused'[p] = reused[p]
            /\ draft'[p] = [file EXCEPT !.selector = request[p].selector]
        BY <2>8, <3>3 DEF TypeOK, Claim, GoTo, ScanAgain, Keeps, Claimed, ClaimedAsIs
      <4>2. file \in Document /\ Genuine(file) /\ request[p].selector \in Selectors
        BY <4>1, Asked DEF Provenance, Readable, TypeOK
      <4>3. PICK q \in Procs : From(file, issued[q])
        BY <4>2 DEF Genuine
      <4>4. From(draft'[p], issued[q])
        BY <4>1, <4>2, <4>3, FromClaim DEF TypeOK
      <4>5. From(draft'[p], issued'[q])
        BY <2>2, <4>3, <4>4 DEF From
      <4>6. ~draft'[p].partial
        BY <4>1, <4>2 DEF Genuine, Document
      <4>7. Genuine(draft[p])'
        BY <4>5, <4>6 DEF Genuine
      <4>8. reused'[p]
        BY <2>8, <4>1 DEF Claim, Phases, Phase
      <4> QED
        BY <2>6, <3>1, <4>7, <4>8
    <3> QED
      BY <3>2, <3>3
  <2>9. CASE EndCapture(p)
    <3>1. file' = file /\ ~reused'[p]
      BY <2>9 DEF EndCapture, Keeps, Phases, Phase
    <3>2. doc[p] \in Document /\ ~doc[p].partial
      BY <2>9 DEF EndCapture, Phases, Phase, TypeOK
    <3>3. pc'[p] = "open" => draft'[p] = [doc[p] EXCEPT !.created = Stamp]
      BY <2>9 DEF EndCapture, TypeOK, GoTo
    <3>4. pc'[p] = "open" => ~draft'[p].partial
      BY <3>2, <3>3 DEF Document
    <3>5. pc'[p] # "rename"
      BY <2>9 DEF EndCapture, TypeOK, GoTo
    <3> QED
      BY <2>6, <3>1, <3>4, <3>5
  <2>10. CASE Rename(p)
    <3>1. file' = draft[p] /\ draft[p] \in Document /\ pc[p] = "rename"
      BY <2>10 DEF Rename, TypeOK
    <3>2. pc'[p] \notin {"open", "rename"}
      BY <2>10 DEF Rename, TypeOK, GoTo, Ends
    <3>3. CASE reused[p]
      <4>1. Genuine(draft[p])
        BY <3>1, <3>3 DEF Provenance
      <4> QED
        BY <2>2, <2>5, <3>1, <3>2, <4>1 DEF Provenance, Genuine, From
    <3>4. CASE ~reused[p]
      <4>1. issued'[p] = draft[p]
        BY <2>10, <3>4 DEF Rename, TypeOK
      <4>2. From(file', issued'[p])
        BY <3>1, <4>1, FromItself
      <4>3. ~file'.partial
        BY <3>1, <3>4 DEF Provenance
      <4> QED
        BY <2>5, <3>1, <3>2, <4>2, <4>3 DEF Provenance, Genuine
    <3> QED
      BY <3>3, <3>4
  <2>11. CASE Stop(p) \/ Start(p) \/ Inspect(p) \/ Validate(p) \/ CheckHeld(p)
    <3>1. file' = file /\ pc'[p] \notin {"open", "rename"}
      BY <2>11 DEF TypeOK, Stop, Ends, Start, Inspect, Validate, CheckHeld, ScanAgain, GoTo, Keeps,
                   Unsaved
    <3> QED
      BY <2>6, <3>1
  <2>12. CASE FailSave(p) \/ ScanTarget(p) \/ EndScan(p) \/ Capture(p)
    <3>1. file' = file /\ pc'[p] \notin {"open", "rename"}
      BY <2>12 DEF TypeOK, FailSave, ScanTarget, EndScan, Capture, Ends, ScanAgain, GoTo, Unsaved
    <3> QED
      BY <2>6, <3>1
  <2>13. CASE Drop(p) \/ Remove(p) \/ Invalidate(p)
    <3>1. (file' = file \/ file' = Nothing) /\ pc'[p] \notin {"open", "rename"}
      BY <2>13 DEF TypeOK, Drop, Remove, Invalidate, Invalidated, Ends, GoTo, Unsaved
    <3> QED
      BY <2>6, <3>1
  <2> QED
    BY <1>2, <2>7, <2>8, <2>9, <2>10, <2>11, <2>12, <2>13 DEF Process
<1> QED
  BY <1>1, <1>2 DEF Next, Exchange, SetClock, Change, Stopped, vars, history

-----------------------------------------------------------------------------
(* LEMMA EvidenceKept: evidence vouches for what was scanned, through every  *)
(* document that it goes through.                                            *)
LEMMA BlankFaithful ==
  ASSUME NEW r \in Request
  PROVE  Faithful(Blank(r)) /\ Blank(r).evidence = NoRows
  BY DEF Faithful, Blank, NoRows

LEMMA InitEvidence == Init => Evidence
<1> SUFFICES ASSUME Init PROVE Evidence
    OBVIOUS
<1>1. \A p \in Procs : /\ doc[p] = Blank(request[p]) /\ draft[p] = Blank(request[p])
                       /\ request[p] \in Request /\ pc[p] = "start"
  BY Asked DEF Init
<1>2. \A p \in Procs : Faithful(doc[p]) /\ Faithful(draft[p])
  BY <1>1, BlankFaithful
<1> QED
  BY <1>1, <1>2 DEF Init, Evidence, Readable, RemovesWhatWasScanned

LEMMA EvidenceKept == TypeOK /\ Phases /\ Evidence /\ [Next]_vars => Evidence'
<1> SUFFICES ASSUME TypeOK, Phases, Evidence, [Next]_vars PROVE Evidence'
    OBVIOUS
<1>1. CASE UNCHANGED << file, doc, draft, pc, removed >>
  BY <1>1 DEF Evidence, Faithful, Readable, RemovesWhatWasScanned
<1>2. ASSUME NEW p \in Procs, Process(p) \/ Stop(p) PROVE Evidence'
  <2>1. \A q \in Procs : q # p => /\ pc'[q] = pc[q] /\ doc'[q] = doc[q] /\ draft'[q] = draft[q]
    BY <1>2, Others
  <2>2. Faithful(Blank(request[p])) /\ Blank(request[p]).evidence = NoRows
    BY Asked, BlankFaithful DEF TypeOK
  <2>3. ASSUME Readable(file') => Faithful(file'), Faithful(doc'[p]), Faithful(draft'[p]),
               pc'[p] = "scan" => doc'[p].evidence = NoRows, RemovesWhatWasScanned'
        PROVE  Evidence'
    BY <2>1, <2>3 DEF Evidence
  <2>4. doc[p] \in Document /\ draft[p] \in Document
    BY DEF TypeOK
  <2>5. /\ Faithful(doc[p]) /\ Faithful(draft[p]) /\ RemovesWhatWasScanned
        /\ Readable(file) => Faithful(file)
    BY DEF Evidence
  <2>6. ASSUME UNCHANGED removed PROVE RemovesWhatWasScanned'
    BY <2>5, <2>6 DEF RemovesWhatWasScanned
  <2>7. ~Readable(Nothing)
    BY DEF Readable
  <2>8. ASSUME ScanAgain(p) PROVE Faithful(doc'[p]) /\ doc'[p].evidence = NoRows
    BY <2>2, <2>8 DEF ScanAgain, TypeOK
  <2>9. ASSUME Ends(p) PROVE Faithful(doc'[p]) /\ Faithful(draft'[p]) /\ pc'[p] = "ended"
    BY <2>2, <2>9 DEF Ends, TypeOK
  <2>10. ASSUME Forgets(p) PROVE Faithful(draft'[p])
    BY <2>2, <2>10 DEF Forgets, TypeOK
  <2>11. CASE Stop(p)
    BY <2>3, <2>5, <2>6, <2>9, <2>11 DEF Stop
  <2>12. CASE Start(p)
    BY <2>3, <2>5, <2>6, <2>8, <2>12 DEF TypeOK, Start, GoTo, Keeps, Local, Unsaved
  <2>13. CASE Inspect(p)
    BY <2>3, <2>5, <2>6, <2>8, <2>13 DEF TypeOK, Inspect, GoTo, Local, Unsaved
  <2>14. CASE Validate(p)
    BY <2>3, <2>5, <2>6, <2>8, <2>14 DEF TypeOK, Validate, Local, Unsaved
  <2>15. CASE Claim(p)
    <3>1. ASSUME Readable(file), draft' = [draft EXCEPT ![p] = Claimed(p, file)]
          PROVE  Faithful(draft'[p])
      <4>1. file \in Document /\ draft'[p] = [file EXCEPT !.selector = request[p].selector]
        BY <3>1 DEF TypeOK, Readable, Claimed, ClaimedAsIs
      <4> QED
        BY <2>5, <3>1, <4>1 DEF Faithful, Document
    <3> QED
      BY <2>3, <2>5, <2>6, <2>8, <2>15, <3>1 DEF TypeOK, Claim, GoTo, Keeps, Local
  <2>16. CASE CheckHeld(p)
    BY <2>3, <2>5, <2>6, <2>8, <2>16 DEF TypeOK, CheckHeld, GoTo, Keeps, Local, Unsaved
  <2>17. CASE OpenDraft(p)
    BY <2>3, <2>5, <2>6, <2>17 DEF TypeOK, OpenDraft, GoTo, Keeps, Unsaved, Local
  <2>18. CASE Rename(p)
    BY <2>3, <2>5, <2>6, <2>9, <2>10, <2>18 DEF TypeOK, Rename, GoTo, Keeps
  <2>19. CASE FailSave(p)
    BY <2>3, <2>5, <2>6, <2>8, <2>9, <2>10, <2>19 DEF TypeOK, FailSave, GoTo, Keeps, Local
  <2>20. CASE ScanTarget(p)
    <3>1. PICK t \in Targets : doc'[p] = [doc[p] EXCEPT !.rows[t] = object[t]]
      BY <2>20 DEF ScanTarget, TypeOK
    <3>2. doc'[p].evidence = NoRows
      BY <2>4, <2>20, <3>1 DEF ScanTarget, Evidence, Document
    <3>3. Faithful(doc'[p])
      BY <3>2 DEF Faithful, NoRows
    <3> QED
      BY <2>3, <2>5, <2>6, <2>20, <3>2, <3>3 DEF ScanTarget, Local, Unsaved
  <2>21. CASE EndScan(p)
    <3>1. PICK b \in BOOLEAN : doc'[p] = [doc[p] EXCEPT !.partial = b]
      BY <2>21 DEF EndScan, TypeOK
    <3>2. doc'[p].evidence = doc[p].evidence /\ doc'[p].rows = doc[p].rows
      BY <2>4, <3>1 DEF Document
    <3>3. Faithful(doc'[p])
      BY <2>5, <3>2 DEF Faithful
    <3>4. pc'[p] # "scan"
      BY <2>21 DEF EndScan, GoTo, TypeOK
    <3> QED
      BY <2>3, <2>5, <2>6, <2>21, <3>3, <3>4 DEF EndScan, Local, Unsaved
  <2>22. CASE Capture(p)
    <3>1. pc'[p] # "scan"
      BY <2>22 DEF Capture
    <3>2. CASE doc' = doc
      BY <2>3, <2>5, <2>6, <2>22, <3>1, <3>2 DEF Capture, Local, Unsaved
    <3>3. CASE \E t \in Targets : Capturable(p, t) /\ doc'[p] = [doc[p] EXCEPT !.evidence[t] = object[t]]
      <4>1. PICK t \in Targets : Capturable(p, t) /\ doc'[p] = [doc[p] EXCEPT !.evidence[t] = object[t]]
        BY <3>3
      <4>2. doc'[p].rows = doc[p].rows /\ doc'[p].evidence = [doc[p].evidence EXCEPT ![t] = object[t]]
        BY <2>4, <4>1 DEF Document
      <4>3. t \notin Worktrees => object[t] = doc[p].rows[t]
        BY <4>1 DEF Capturable
      <4>4. doc[p].evidence \in [Targets -> Object]
        BY <2>4 DEF Document
      <4>5. Faithful(doc'[p])
        BY <2>5, <4>2, <4>3, <4>4 DEF Faithful
      <4> QED
        BY <2>3, <2>5, <2>6, <2>22, <3>1, <4>5 DEF Capture, Local, Unsaved
    <3> QED
      BY <2>22, <3>2, <3>3 DEF Capture, TypeOK
  <2>23. CASE EndCapture(p)
    <3>1. [doc[p] EXCEPT !.created = Stamp].evidence = doc[p].evidence
      BY <2>4 DEF Document
    <3>2. [doc[p] EXCEPT !.created = Stamp].rows = doc[p].rows
      BY <2>4 DEF Document
    <3>3. Faithful([doc[p] EXCEPT !.created = Stamp])
      BY <2>5, <3>1, <3>2 DEF Faithful
    <3>4. draft'[p] = draft[p] \/ draft'[p] = [doc[p] EXCEPT !.created = Stamp]
      BY <2>23 DEF EndCapture, TypeOK
    <3>5. Faithful(draft'[p])
      BY <2>5, <3>3, <3>4
    <3> QED
      BY <2>3, <2>5, <2>6, <2>23, <3>5 DEF TypeOK, EndCapture, GoTo, Keeps, Local
  <2>24. CASE Drop(p)
    BY <2>3, <2>5, <2>6, <2>7, <2>9, <2>24 DEF TypeOK, Drop, Invalidated, GoTo, Keeps, Local
  <2>25. CASE Remove(p)
    <3>1. RemovesWhatWasScanned'
      BY <2>5, <2>25 DEF Remove, RemovesWhatWasScanned, Faithful
    <3> QED
      BY <2>3, <2>5, <2>25, <3>1 DEF TypeOK, Remove, GoTo, Unsaved
  <2>26. CASE Invalidate(p)
    BY <2>3, <2>5, <2>6, <2>7, <2>9, <2>26 DEF Invalidate, Invalidated, Local
  <2> QED
    BY <1>2, <2>11, <2>12, <2>13, <2>14, <2>15, <2>16, <2>17, <2>18, <2>19, <2>20, <2>21, <2>22,
       <2>23, <2>24, <2>25, <2>26 DEF Process
<1> QED
  BY <1>1, <1>2 DEF Next, Exchange, SetClock, Change, Stopped, vars, history

-----------------------------------------------------------------------------
(* LEMMA RevalidatedKept: what is reused has been looked at.                 *)
LEMMA InitRevalidated == Init => Revalidated
  BY DEF Init, Revalidated, Checked

LEMMA RevalidatedKept == TypeOK /\ Phases /\ Revalidated /\ [Next]_vars => Revalidated'
<1> SUFFICES ASSUME TypeOK, Phases, Revalidated, [Next]_vars PROVE Revalidated'
    OBVIOUS
<1> USE DEF world, history
<1>1. CASE UNCHANGED << object, seen, doc, pc, left, reused >>
  BY <1>1 DEF Revalidated, Checked
<1>2. ASSUME NEW t \in Targets, Exchange(t) PROVE Revalidated'
  <2>1. UNCHANGED << doc, pc, left, reused >>
    BY <1>2 DEF Exchange, Change
  <2>2. \A u \in Targets : u # t => object'[u] = object[u]
    BY <1>2 DEF Exchange, TypeOK
  <2>3. \A p \in Procs : reused[p] => seen'[p] = [seen[p] EXCEPT ![t] = @ \cup {object'[t]}]
    BY <1>2 DEF Exchange
  <2>4. ASSUME NEW p \in Procs, reused[p], NEW u \in Targets
        PROVE  object'[u] \in seen'[p][u] /\ seen[p][u] \subseteq seen'[p][u]
    <3>1. seen[p] \in [Targets -> SUBSET Object] /\ object[u] \in seen[p][u]
      BY <2>4 DEF TypeOK, Revalidated, Checked
    <3>2. seen'[p] = [seen[p] EXCEPT ![t] = seen[p][t] \cup {object'[t]}]
      BY <2>3, <2>4
    <3>3. seen'[p][t] = seen[p][t] \cup {object'[t]}
      BY <3>1, <3>2
    <3>4. u # t => seen'[p][u] = seen[p][u] /\ object'[u] = object[u]
      BY <2>2, <3>1, <3>2
    <3> QED
      BY <3>1, <3>3, <3>4
  <2> QED
    BY <2>1, <2>4 DEF Revalidated, Checked
<1>3. ASSUME NEW p \in Procs, Process(p) \/ Stop(p), ~Remove(p) PROVE Revalidated'
  <2>1. object' = object
    BY <1>3 DEF Process, Stop, Start, Inspect, Validate, Claim, CheckHeld, OpenDraft, Rename,
                FailSave, ScanTarget, EndScan, Capture, EndCapture, Drop, Invalidate,
                Invalidated, Local
  <2>2. \A q \in Procs : q # p => /\ pc'[q] = pc[q] /\ doc'[q] = doc[q]
                                  /\ left'[q] = left[q] /\ reused'[q] = reused[q]
    BY <1>3, Others
  <2>3. \A q \in Procs : q # p => seen'[q] = seen[q]
    BY <1>3 DEF TypeOK, Process, Stop, Start, Inspect, Validate, Claim, CheckHeld, OpenDraft,
                Rename, FailSave, ScanTarget, EndScan, Capture, EndCapture, Drop, Invalidate,
                Invalidated,
                Ends, ScanAgain, Keeps
  <2>4. \A q \in Procs : q # p => Checked(q)'
    BY <2>1, <2>2, <2>3 DEF Revalidated, Checked
  <2>5. ASSUME ~reused'[p] \/ Checked(p)' PROVE Revalidated'
    BY <2>4, <2>5 DEF Revalidated, Checked
  <2>6. ASSUME Keeps, pc[p] # "validate" \/ left[p] = {} PROVE Checked(p)'
    BY <2>1, <2>6 DEF Revalidated, Checked, Keeps
  <2>7. ASSUME ScanAgain(p) \/ Ends(p) PROVE ~reused'[p]
    BY <2>7 DEF ScanAgain, Ends, TypeOK
  <2>8. CASE Stop(p) \/ Drop(p) \/ Invalidate(p)
    BY <2>5, <2>6, <2>7, <2>8 DEF Stop, Drop, Invalidate, Invalidated
  <2>9. CASE Start(p) \/ Claim(p) \/ CheckHeld(p) \/ OpenDraft(p) \/ Rename(p) \/ FailSave(p)
              \/ EndCapture(p)
    BY <2>5, <2>6, <2>7, <2>9 DEF Start, Claim, CheckHeld, OpenDraft, Rename, FailSave, EndCapture
  <2>10. CASE ScanTarget(p) \/ EndScan(p) \/ Capture(p)
    BY <2>5, <2>10 DEF ScanTarget, EndScan, Capture, Phases, Phase
  <2>11. CASE Inspect(p)
    <3>1. CASE ScanAgain(p)
      BY <2>5, <2>7, <3>1
    <3>2. CASE ~ScanAgain(p)
      <4>1. /\ pc'[p] = "validate" /\ doc'[p] = file
            /\ left'[p] = {t \in Targets : file.rows[t] # 0}
            /\ seen'[p] = [t \in Targets |-> {object[t]}]
        BY <2>11, <3>2 DEF Inspect, GoTo, TypeOK
      <4> QED
        BY <2>1, <2>5, <4>1 DEF Checked
    <3> QED
      BY <3>1, <3>2
  <2>12. CASE Validate(p)
    <3>1. CASE ScanAgain(p)
      BY <2>5, <2>7, <3>1
    <3>2. CASE ~ScanAgain(p)
      <4>1. PICK t \in Targets : /\ EvidenceHolds(p, t) /\ left' = [left EXCEPT ![p] = @ \ {t}]
                                 /\ UNCHANGED << pc, doc, reused, seen >>
        BY <2>12, <3>2 DEF Validate, TypeOK
      <4>2. left'[p] = left[p] \ {t}
        BY <4>1 DEF TypeOK
      <4>3. reused[p] => doc[p].evidence[t] \in seen[p][t]
        BY <4>1 DEF EvidenceHolds, Revalidated, Checked
      <4> QED
        BY <2>1, <2>5, <4>1, <4>2, <4>3 DEF Revalidated, Checked
    <3> QED
      BY <3>1, <3>2
  <2> QED
    BY <1>3, <2>8, <2>9, <2>10, <2>11, <2>12 DEF Process
<1>4. ASSUME NEW p \in Procs, Remove(p) PROVE Revalidated'
  <2>1. /\ UNCHANGED << doc, left, reused >> /\ pc[p] = "use"
        /\ \A q \in Procs : pc[q] = "validate" => pc'[q] = "validate"
    BY <1>4 DEF Remove, GoTo, TypeOK
  <2>2. CASE UNCHANGED << object, seen >>
    BY <2>1, <2>2 DEF Revalidated, Checked
  <2>3. CASE \E t \in Targets :
               /\ object' = [object EXCEPT ![t] = 0]
               /\ seen' = [q \in Procs |->
                             IF reused[q] THEN [seen[q] EXCEPT ![t] = @ \cup {0}] ELSE seen[q]]
    BY <2>1, <2>3 DEF Revalidated, Checked, TypeOK
  <2> QED
    BY <1>4, <2>2, <2>3 DEF Remove
<1> QED
  BY <1>1, <1>2, <1>3, <1>4 DEF Next, SetClock, Change, Stopped, vars

-----------------------------------------------------------------------------
(* THEOREM Consistent: the inductive invariant of the snapshot.              *)
THEOREM Consistent == Spec => []IInv
<1>1. Init => IInv
  BY InitTyped, InitPhases, InitProvenance, InitEvidence, InitRevalidated DEF IInv
<1>2. IInv /\ [Next]_vars => IInv'
  BY NextTyped, PhasesKept, ProvenanceKept, EvidenceKept, RevalidatedKept DEF IInv
<1> QED
  BY <1>1, <1>2, PTL DEF Spec

(* THEOREM GenuineDocuments: what is on disk is what one complete scan       *)
(* saved, for any route or for one; claims change nothing else.              *)
THEOREM GenuineDocuments == Spec => []DocumentsGenuine
<1>1. IInv => DocumentsGenuine
  BY DEF IInv, Provenance, Genuine, From, DocumentsGenuine
<1> QED
  BY <1>1, Consistent, PTL

(* THEOREM ReusedIsRevalidated: a clean that reuses a snapshot uses no row   *)
(* whose object did not stand at its path while that clean was running.      *)
THEOREM ReusedIsRevalidated == Spec => []ReuseRevalidated
<1>1. IInv => ReuseRevalidated
  BY DEF IInv, Revalidated, Checked, ReuseRevalidated
<1> QED
  BY <1>1, Consistent, PTL

(* THEOREM RemovedWasScanned: what is removed is the very object that the    *)
(* row was read from, through however many processes the row has come.       *)
THEOREM RemovedWasScanned == Spec => []RemovesWhatWasScanned
<1>1. IInv => RemovesWhatWasScanned
  BY DEF IInv, Evidence
<1> QED
  BY <1>1, Consistent, PTL
===============================================================================
