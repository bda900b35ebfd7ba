----------------------- MODULE DiscoverDownloadProofs -----------------------
(* Machine-checked properties of DiscoverDownload, for any number of          *)
(* requests, results, slots and threads, and every choice of the times.       *)
EXTENDS DiscoverDownload, FiniteSetTheorems, NaturalsInduction, WellFoundedInduction, TLAPS

(* A flight that has not ended is in the slot of its own key or abandoned, and *)
(* nothing else is; a request that has not looked yet has no flight.          *)
Unended == Running \cup {"stillborn"}
SlotsKept ==
  /\ \A k \in Keys : inflight[k] # None => key[inflight[k]] = k /\ thread[inflight[k]] \in Unended
  /\ \A f \in abandoned : thread[f] \in Unended /\ \A k \in Keys : inflight[k] # f
  /\ \A f \in Requests : thread[f] \in Unended => inflight[key[f]] = f \/ f \in abandoned
  /\ \A f \in Requests : stage[f] \in {"idle", "asked"} => thread[f] = "none"

(* The limits, with the finiteness that makes them count.                     *)
SlotsCounted ==
  /\ IsFiniteSet(InFlight(inflight)) /\ IsFiniteSet(abandoned)
  /\ Cardinality(InFlight(inflight)) <= Concurrent
  /\ Cardinality(InFlight(inflight) \cup abandoned) <= ThreadLimit

(* A request waits for a flight of its own key, whose deadline is no earlier   *)
(* than its own; a flight given up as late has passed its deadline.           *)
WaitersKept ==
  /\ \A r \in Requests : stage[r] = "waiting" =>
       /\ joined[r] \in Requests /\ thread[joined[r]] # "none"
       /\ thread[joined[r]] # "ended" => due[r] <= until[joined[r]] /\ key[joined[r]] = key[r]
       /\ now < due[r] =>
            /\ thread[joined[r]] # "ended" => inflight[key[r]] = joined[r]
            /\ outcome[joined[r]] # "late"
  /\ \A f \in Requests : outcome[f] = "late" => until[f] <= now
  /\ \A f \in Requests :
       thread[f] \in {"none", "calling", "back", "stillborn"} => outcome[f] = "none"

DownloadInv == TypeOK /\ SlotsKept /\ SlotsCounted /\ WaitersKept

-----------------------------------------------------------------------------
LEMMA InitDownload == Init => DownloadInv
<1> SUFFICES ASSUME Init PROVE DownloadInv
  OBVIOUS
<1>1. TypeOK
  BY DiscoverAssumption DEF Init, TypeOK, Scopes, Keys, Running, Errors
<1>2. SlotsKept /\ WaitersKept
  BY DiscoverAssumption DEF Init, SlotsKept, WaitersKept, Unended, Running
<1>3. InFlight(inflight) = {} /\ abandoned = {}
  BY DEF Init, InFlight
<1>4. SlotsCounted
  BY <1>3, FS_EmptySet, DiscoverAssumption DEF SlotsCounted
<1> QED BY <1>1, <1>2, <1>4 DEF DownloadInv

(* What retiring the stale flights leaves.                                    *)
LEMMA RetiredFacts ==
  ASSUME DownloadInv
  PROVE  /\ Kept \in [Keys -> Requests \cup {None}] /\ Retired \subseteq Requests
         /\ \A k \in Keys : Kept[k] # None => Kept[k] = inflight[k] /\ until[Kept[k]] > now
         /\ \A k \in Keys : inflight[k] # None /\ until[inflight[k]] > now => Kept[k] = inflight[k]
         /\ \A k \in Keys : inflight[k] # None => Kept[k] = inflight[k] \/ inflight[k] \in Retired
         /\ \A f \in Retired : thread[f] \in Unended /\ (\A k \in Keys : Kept[k] # f)
         /\ InFlight(Kept) \cup Retired = InFlight(inflight)
         /\ InFlight(Kept) \subseteq InFlight(inflight)
<1> USE DiscoverAssumption DEF DownloadInv, TypeOK
<1>1. Kept \in [Keys -> Requests \cup {None}] /\ Retired \subseteq Requests
  BY DEF Kept, Retired, Stale
<1>2. \A k \in Keys : Kept[k] # None => Kept[k] = inflight[k] /\ until[Kept[k]] > now
  BY DEF Kept, Stale
<1>3. \A k \in Keys : inflight[k] # None /\ until[inflight[k]] > now => Kept[k] = inflight[k]
  BY DEF Kept, Stale
<1>4. \A k \in Keys : inflight[k] # None => Kept[k] = inflight[k] \/ inflight[k] \in Retired
  BY DEF Kept, Retired, Stale
<1>5. ASSUME NEW f \in Retired
      PROVE  thread[f] \in Unended /\ (\A k \in Keys : Kept[k] # f)
  <2>1. PICK k \in Keys : f = inflight[k] /\ Stale(k)
    BY DEF Retired
  <2>2. f # None /\ key[f] = k /\ thread[f] \in Unended
    BY <2>1 DEF Stale, SlotsKept
  <2>3. ASSUME NEW j \in Keys, Kept[j] = f PROVE FALSE
    BY <1>2, <2>1, <2>2, <2>3 DEF SlotsKept, Stale
  <2> QED BY <2>2, <2>3
<1>6. InFlight(Kept) \cup Retired = InFlight(inflight)
  <2>1. InFlight(Kept) \subseteq InFlight(inflight)
    BY <1>1, <1>2 DEF InFlight
  <2>2. Retired \subseteq InFlight(inflight)
    BY DEF InFlight, Retired, Stale
  <2>3. InFlight(inflight) \subseteq InFlight(Kept) \cup Retired
    BY <1>1, <1>4 DEF InFlight
  <2> QED BY <2>1, <2>2, <2>3
<1> QED BY <1>1, <1>2, <1>3, <1>4, <1>5, <1>6

(* A request that waits in time keeps its flight when stale ones are retired.  *)
LEMMA WaitersSurvive ==
  ASSUME DownloadInv, NEW r \in Requests, stage[r] = "waiting", now < due[r],
         thread[joined[r]] # "ended"
  PROVE  Kept[key[r]] = joined[r]
<1>1. inflight[key[r]] = joined[r] /\ until[joined[r]] > now /\ joined[r] # None /\ key[r] \in Keys
  BY DiscoverAssumption DEF DownloadInv, WaitersKept, TypeOK
<1> QED BY <1>1, RetiredFacts

-----------------------------------------------------------------------------
(* The steps of a request under the lock.                                     *)

(* Retiring moves flights from their slots to the abandoned ones: nobody is    *)
(* counted twice or forgotten.                                                *)
LEMMA RetiredCounts ==
  ASSUME DownloadInv
  PROVE  /\ IsFiniteSet(InFlight(Kept)) /\ IsFiniteSet(abandoned \cup Retired)
         /\ Cardinality(InFlight(Kept)) <= Concurrent
         /\ InFlight(Kept) \cup (abandoned \cup Retired) = InFlight(inflight) \cup abandoned
         /\ Cardinality(InFlight(Kept) \cup (abandoned \cup Retired)) <= ThreadLimit
<1>1. /\ InFlight(Kept) \subseteq InFlight(inflight) /\ Retired \subseteq InFlight(inflight)
      /\ InFlight(Kept) \cup (abandoned \cup Retired) = InFlight(inflight) \cup abandoned
  BY RetiredFacts
<1>2. /\ IsFiniteSet(InFlight(inflight)) /\ IsFiniteSet(abandoned)
      /\ Cardinality(InFlight(inflight)) <= Concurrent
      /\ Cardinality(InFlight(inflight) \cup abandoned) <= ThreadLimit
  BY DEF DownloadInv, SlotsCounted
<1>3. /\ IsFiniteSet(InFlight(Kept)) /\ Cardinality(InFlight(Kept)) <= Cardinality(InFlight(inflight))
      /\ IsFiniteSet(Retired)
  BY <1>1, <1>2, FS_Subset
<1>4. IsFiniteSet(abandoned \cup Retired)
  BY <1>2, <1>3, FS_Union
<1>5. Cardinality(InFlight(Kept)) \in Nat /\ Cardinality(InFlight(inflight)) \in Nat
  BY <1>2, <1>3, FS_CardinalityType
<1> QED BY <1>1, <1>2, <1>3, <1>4, <1>5, DiscoverAssumption

LEMMA JoinKept ==
  ASSUME DownloadInv, NEW r \in Requests, LookJoins(r)
  PROVE  DownloadInv'
<1> DEFINE f == Kept[key[r]]
<1> USE DiscoverAssumption
<1>1. /\ stage[r] = "asked" /\ f # None /\ inflight' = Kept /\ abandoned' = abandoned \cup Retired
      /\ until' = [until EXCEPT ![f] = IF @ >= due[r] THEN @ ELSE due[r]]
      /\ stage' = [stage EXCEPT ![r] = "waiting"] /\ joined' = [joined EXCEPT ![r] = f]
      /\ UNCHANGED <<now, scope, thread, outcome, key, due>>
  BY DEF LookJoins, Looks, LookMisses, WaitFor, worldVars
<1>2. f \in Requests /\ f = inflight[key[r]] /\ until[f] > now /\ key[r] \in Keys
  BY <1>1, RetiredFacts DEF DownloadInv, TypeOK
<1>3. TypeOK'
  BY <1>1, <1>2, RetiredFacts DEF DownloadInv, TypeOK, Scopes, Keys, Running, Errors
<1>4. SlotsKept'
  <2>1. \A k \in Keys : Kept[k] # None => key[Kept[k]] = k /\ thread[Kept[k]] \in Unended
    BY RetiredFacts DEF DownloadInv, SlotsKept
  <2>2. \A g \in abandoned \cup Retired : thread[g] \in Unended /\ \A k \in Keys : Kept[k] # g
    BY RetiredFacts DEF DownloadInv, SlotsKept, TypeOK
  <2>3. \A g \in Requests : thread[g] \in Unended => Kept[key[g]] = g \/ g \in abandoned \cup Retired
    BY RetiredFacts DEF DownloadInv, SlotsKept, TypeOK
  <2>4. \A g \in Requests : stage'[g] \in {"idle", "asked"} => thread[g] = "none"
    BY <1>1 DEF DownloadInv, SlotsKept, TypeOK
  <2> QED BY <1>1, <2>1, <2>2, <2>3, <2>4 DEF SlotsKept, Keys, Scopes
<1>5. SlotsCounted'
  BY <1>1, RetiredCounts DEF SlotsCounted, InFlight, Keys, Scopes
<1>6. WaitersKept'
  <2>1. /\ thread[f] \in Unended /\ key[f] = key[r] /\ outcome[f] # "late"
    BY <1>2, <1>1 DEF DownloadInv, SlotsKept, WaitersKept, TypeOK
  <2>2. ASSUME NEW q \in Requests, stage'[q] = "waiting"
        PROVE  /\ joined'[q] \in Requests /\ thread[joined'[q]] # "none"
               /\ thread[joined'[q]] # "ended" => due[q] <= until'[joined'[q]] /\ key[joined'[q]] = key[q]
               /\ now < due[q] =>
                    /\ thread[joined'[q]] # "ended" => Kept[key[q]] = joined'[q]
                    /\ outcome[joined'[q]] # "late"
    <3>1. CASE q = r
      BY <3>1, <1>1, <1>2, <2>1 DEF DownloadInv, TypeOK, Unended, Running
    <3>2. CASE q # r
      <4>1. stage[q] = "waiting" /\ joined'[q] = joined[q]
        BY <3>2, <2>2, <1>1 DEF DownloadInv, TypeOK
      <4>2. joined[q] \in Requests /\ until'[joined[q]] >= until[joined[q]]
        BY <4>1, <1>1, <1>2 DEF DownloadInv, TypeOK, WaitersKept
      <4> QED BY <4>1, <4>2, <1>1, WaitersSurvive DEF DownloadInv, TypeOK, WaitersKept
    <3> QED BY <3>1, <3>2
  <2>3. \A g \in Requests : outcome[g] = "late" => until'[g] <= now
    BY <1>1, <1>2, <2>1 DEF DownloadInv, TypeOK, WaitersKept
  <2> QED BY <1>1, <2>2, <2>3 DEF WaitersKept, DownloadInv
<1> QED BY <1>3, <1>4, <1>5, <1>6 DEF DownloadInv

(* A request that ends, or goes on without a flight, and slots as they were or  *)
(* with the stale flights retired.                                            *)
LEMMA LeaveKept ==
  ASSUME DownloadInv, NEW r \in Requests, NEW where \in {"hit", "fetched", "storing", "served", "done"},
         Goto(r, where), UNCHANGED <<now, scope, thread, until, outcome, key>>,
         \/ UNCHANGED slotVars
         \/ inflight' = Kept /\ abandoned' = abandoned \cup Retired
  PROVE  DownloadInv'
<1> USE DiscoverAssumption
<1>1. /\ stage' = [stage EXCEPT ![r] = where] /\ joined' = [joined EXCEPT ![r] = None]
      /\ due' = [due EXCEPT ![r] = 0]
  BY DEF Goto
<1>2. TypeOK'
  BY <1>1, RetiredFacts DEF DownloadInv, TypeOK, Scopes, Keys, Running, Errors, slotVars
<1>3. \A g \in Requests : stage'[g] \in {"idle", "asked"} => thread[g] = "none"
  BY <1>1 DEF DownloadInv, SlotsKept, TypeOK
<1>4. ASSUME NEW q \in Requests, stage'[q] = "waiting"
      PROVE  stage[q] = "waiting" /\ q # r /\ joined'[q] = joined[q] /\ due'[q] = due[q]
  BY <1>1, <1>4 DEF DownloadInv, TypeOK
<1>5. CASE UNCHANGED slotVars
  <2>1. SlotsKept'
    BY <1>3, <1>5 DEF DownloadInv, SlotsKept, slotVars, Keys, Scopes
  <2>2. SlotsCounted'
    BY <1>5 DEF DownloadInv, SlotsCounted, slotVars, InFlight, Keys, Scopes
  <2>3. WaitersKept'
    BY <1>4, <1>5 DEF DownloadInv, WaitersKept, slotVars
  <2> QED BY <1>2, <2>1, <2>2, <2>3 DEF DownloadInv
<1>6. CASE inflight' = Kept /\ abandoned' = abandoned \cup Retired
  <2>1. \A k \in Keys : Kept[k] # None => key[Kept[k]] = k /\ thread[Kept[k]] \in Unended
    BY RetiredFacts DEF DownloadInv, SlotsKept
  <2>2. \A g \in abandoned \cup Retired : thread[g] \in Unended /\ \A k \in Keys : Kept[k] # g
    BY RetiredFacts DEF DownloadInv, SlotsKept, TypeOK
  <2>3. \A g \in Requests : thread[g] \in Unended => Kept[key[g]] = g \/ g \in abandoned \cup Retired
    BY RetiredFacts DEF DownloadInv, SlotsKept, TypeOK
  <2>4. SlotsKept'
    BY <1>3, <1>6, <2>1, <2>2, <2>3 DEF SlotsKept, Keys, Scopes
  <2>5. SlotsCounted'
    BY <1>6, RetiredCounts DEF SlotsCounted, InFlight, Keys, Scopes
  <2>6. WaitersKept'
    BY <1>4, <1>6, WaitersSurvive DEF DownloadInv, WaitersKept
  <2> QED BY <1>2, <2>4, <2>5, <2>6 DEF DownloadInv
<1> QED BY <1>5, <1>6

LEMMA OneMore ==
  ASSUME NEW S, NEW x, IsFiniteSet(S)
  PROVE  /\ IsFiniteSet(S \cup {x}) /\ Cardinality(S \cup {x}) <= Cardinality(S) + 1
         /\ Cardinality(S) \in Nat /\ Cardinality(S \cup {x}) \in Nat
<1>1. IsFiniteSet(S \cup {x}) /\ Cardinality(S) \in Nat
  BY FS_AddElement, FS_CardinalityType
<1>2. Cardinality(S \cup {x}) \in {Cardinality(S), Cardinality(S) + 1}
  BY FS_AddElement
<1> QED BY <1>1, <1>2

LEMMA NoMoreThanBoth ==
  ASSUME NEW S, NEW T, IsFiniteSet(S), IsFiniteSet(T)
  PROVE  IsFiniteSet(S \cup T) /\ Cardinality(S \cup T) <= Cardinality(S) + Cardinality(T)
<1>1. /\ IsFiniteSet(S \cup T) /\ IsFiniteSet(S \cap T)
      /\ Cardinality(S \cup T) = Cardinality(S) + Cardinality(T) - Cardinality(S \cap T)
  BY FS_Union, FS_Intersection
<1>2. /\ Cardinality(S) \in Nat /\ Cardinality(T) \in Nat
      /\ Cardinality(S \cap T) \in Nat /\ Cardinality(S \cup T) \in Nat
  BY <1>1, FS_CardinalityType
<1> QED BY <1>1, <1>2

(* One flight more, in a free slot and within the limits.                     *)
LEMMA StartCounts ==
  ASSUME DownloadInv, NEW r \in Requests, key[r] \in Keys, Kept[key[r]] = None, ~Full,
         NEW slots, slots = [Kept EXCEPT ![key[r]] = r]
  PROVE  /\ IsFiniteSet(InFlight(slots)) /\ Cardinality(InFlight(slots)) <= Concurrent
         /\ Cardinality(InFlight(slots) \cup (abandoned \cup Retired)) <= ThreadLimit
<1> DEFINE S == InFlight(Kept)
           T == abandoned \cup Retired
<1> USE DiscoverAssumption
<1>1. Kept \in [Keys -> Requests \cup {None}]
  BY RetiredFacts
<1>2. InFlight(slots) = S \cup {r}
  BY <1>1 DEF InFlight
<1>3. /\ IsFiniteSet(S) /\ IsFiniteSet(T) /\ Cardinality(S) \in Nat /\ Cardinality(T) \in Nat
      /\ Cardinality(S) < Concurrent /\ Cardinality(S) + Cardinality(T) < ThreadLimit
  BY RetiredCounts, FS_CardinalityType DEF Full
<1>4. /\ IsFiniteSet(S \cup {r}) /\ Cardinality(S \cup {r}) <= Cardinality(S) + 1
      /\ Cardinality(S \cup {r}) \in Nat
  <2> HIDE DEF S
  <2> QED BY <1>3, OneMore
<1>5. IsFiniteSet(S \cup T) /\ Cardinality(S \cup T) <= Cardinality(S) + Cardinality(T)
  <2> HIDE DEF S, T
  <2> QED BY <1>3, NoMoreThanBoth
<1>6. /\ Cardinality((S \cup T) \cup {r}) <= Cardinality(S \cup T) + 1
      /\ Cardinality(S \cup T) \in Nat /\ Cardinality((S \cup T) \cup {r}) \in Nat
  <2> HIDE DEF S, T
  <2> QED BY <1>5, OneMore
<1>7. (S \cup {r}) \cup T = (S \cup T) \cup {r}
  OBVIOUS
<1>8. Cardinality((S \cup {r}) \cup T) <= ThreadLimit /\ Cardinality(S \cup {r}) <= Concurrent
  <2> HIDE DEF S, T
  <2>1. ThreadLimit \in Nat /\ Concurrent \in Nat
    OBVIOUS
  <2>2. Cardinality(S \cup {r}) <= Concurrent
    BY <2>1, <1>3, <1>4
  <2>3. Cardinality((S \cup T) \cup {r}) <= ThreadLimit
    BY <2>1, <1>3, <1>5, <1>6
  <2> QED BY <2>2, <2>3, <1>7
<1> QED BY <1>2, <1>4, <1>8

LEMMA StartKept ==
  ASSUME DownloadInv, NEW r \in Requests, LookStarts(r)
  PROVE  DownloadInv'
<1> DEFINE slots == [Kept EXCEPT ![key[r]] = r]
<1> USE DiscoverAssumption
<1>1. /\ stage[r] = "asked" /\ Kept[key[r]] = None /\ ~Full /\ now < due[r]
      /\ inflight' = slots /\ abandoned' = abandoned \cup Retired
      /\ until' = [until EXCEPT ![r] = due[r]]
      /\ UNCHANGED <<now, scope, outcome, key>>
  BY DEF LookStarts, Looks, LookMisses, worldVars
<1>2. \/ /\ thread' = [thread EXCEPT ![r] = "calling"] /\ stage' = [stage EXCEPT ![r] = "waiting"]
         /\ joined' = [joined EXCEPT ![r] = r] /\ due' = due
      \/ /\ thread' = [thread EXCEPT ![r] = "stillborn"] /\ stage' = [stage EXCEPT ![r] = "done"]
         /\ joined' = [joined EXCEPT ![r] = None] /\ due' = [due EXCEPT ![r] = 0]
  BY DEF LookStarts, Move, WaitFor, Goto
<1>3. key[r] \in Keys /\ thread[r] = "none" /\ outcome[r] = "none"
  BY <1>1 DEF DownloadInv, TypeOK, SlotsKept, WaitersKept
<1>4. \A k \in Keys : Kept[k] # r
  BY <1>1, <1>3, RetiredFacts DEF DownloadInv, SlotsKept, TypeOK, Unended, Running
<1>5. TypeOK'
  <2>1. inflight' \in [Keys -> Requests \cup {None}] /\ abandoned' \subseteq Requests
    BY <1>1, <1>3, RetiredFacts DEF DownloadInv, TypeOK
  <2>2. /\ thread' \in [Requests -> Running \cup {"none", "stillborn", "ended"}]
        /\ stage' \in [Requests -> {"idle", "asked", "waiting", "hit", "fetched", "storing", "served",
                                    "done"}]
    BY <1>2 DEF DownloadInv, TypeOK, Running
  <2>3. /\ until' \in [Requests -> Nat] /\ due' \in [Requests -> Nat]
        /\ joined' \in [Requests -> Requests \cup {None}]
    BY <1>1, <1>2 DEF DownloadInv, TypeOK
  <2> QED BY <1>1, <2>1, <2>2, <2>3 DEF DownloadInv, TypeOK, Scopes, Keys, Running, Errors
<1>6. \A g \in Requests : g # r => thread'[g] = thread[g]
  BY <1>2 DEF DownloadInv, TypeOK
<1>7. thread'[r] \in {"calling", "stillborn"}
  BY <1>2 DEF DownloadInv, TypeOK
<1>8. SlotsKept'
  <2>1. \A k \in Keys : slots[k] # None => key[slots[k]] = k /\ thread'[slots[k]] \in Unended
    BY <1>3, <1>4, <1>6, <1>7, RetiredFacts DEF DownloadInv, SlotsKept, TypeOK, Unended, Running
  <2>2. \A g \in abandoned \cup Retired : thread[g] \in Unended /\ g # r /\ \A k \in Keys : Kept[k] # g
    BY <1>3, RetiredFacts DEF DownloadInv, SlotsKept, TypeOK, Unended, Running
  <2>3. \A g \in abandoned \cup Retired : thread'[g] \in Unended /\ \A k \in Keys : slots[k] # g
    BY <2>2, <1>3, <1>6, RetiredFacts DEF DownloadInv, TypeOK
  <2>4. \A g \in Requests : thread'[g] \in Unended => slots[key[g]] = g \/ g \in abandoned \cup Retired
    <3>1. ASSUME NEW g \in Requests, thread'[g] \in Unended, g # r, g \notin abandoned \cup Retired
          PROVE  slots[key[g]] = g
      <4>1. inflight[key[g]] = g /\ key[g] \in Keys /\ g # None
        BY <3>1, <1>6 DEF DownloadInv, SlotsKept, TypeOK
      <4>2. Kept[key[g]] = g
        BY <3>1, <4>1, RetiredFacts
      <4> QED BY <4>2, <4>1, <1>1, <1>3, RetiredFacts
    <3>2. slots[key[r]] = r
      BY <1>3, RetiredFacts
    <3> QED BY <3>1, <3>2
  <2>5. \A g \in Requests : stage'[g] \in {"idle", "asked"} => thread'[g] = "none"
    BY <1>2, <1>6 DEF DownloadInv, SlotsKept, TypeOK
  <2> QED BY <1>1, <2>1, <2>3, <2>4, <2>5 DEF SlotsKept, Keys, Scopes
<1>9. SlotsCounted'
  <2>1. /\ IsFiniteSet(InFlight(slots)) /\ Cardinality(InFlight(slots)) <= Concurrent
        /\ Cardinality(InFlight(slots) \cup (abandoned \cup Retired)) <= ThreadLimit
    BY <1>1, <1>3, StartCounts
  <2>2. IsFiniteSet(abandoned \cup Retired)
    BY RetiredCounts
  <2>3. InFlight(inflight)' = InFlight(slots)
    BY <1>1 DEF InFlight, Keys, Scopes
  <2> QED BY <1>1, <2>1, <2>2, <2>3 DEF SlotsCounted
<1>10. WaitersKept'
  <2>1. ASSUME NEW q \in Requests, stage'[q] = "waiting"
        PROVE  /\ joined'[q] \in Requests /\ thread'[joined'[q]] # "none"
               /\ thread'[joined'[q]] # "ended" => due'[q] <= until'[joined'[q]] /\ key[joined'[q]] = key[q]
               /\ now < due'[q] =>
                    /\ thread'[joined'[q]] # "ended" => slots[key[q]] = joined'[q]
                    /\ outcome[joined'[q]] # "late"
    <3>1. CASE q = r
      BY <3>1, <2>1, <1>1, <1>2, <1>3, RetiredFacts DEF DownloadInv, TypeOK
    <3>2. CASE q # r
      <4>1. stage[q] = "waiting" /\ joined'[q] = joined[q] /\ due'[q] = due[q]
        BY <3>2, <2>1, <1>2 DEF DownloadInv, TypeOK
      <4>2. joined[q] \in Requests /\ thread[joined[q]] # "none" /\ joined[q] # r
        BY <4>1, <1>3 DEF DownloadInv, WaitersKept
      <4>3. thread'[joined[q]] = thread[joined[q]] /\ until'[joined[q]] = until[joined[q]]
        BY <4>2, <1>1, <1>6 DEF DownloadInv, TypeOK
      <4>4. ASSUME now < due[q], thread[joined[q]] # "ended" PROVE slots[key[q]] = joined[q]
        <5>1. Kept[key[q]] = joined[q]
          BY <4>1, <4>4, WaitersSurvive
        <5>2. key[q] # key[r] /\ key[q] \in Keys
          BY <5>1, <4>2, <1>1 DEF DownloadInv, TypeOK
        <5> QED BY <5>1, <5>2, RetiredFacts
      <4> QED BY <4>1, <4>2, <4>3, <4>4 DEF DownloadInv, WaitersKept
    <3> QED BY <3>1, <3>2
  <2>2. \A g \in Requests : outcome[g] = "late" => until'[g] <= now
    BY <1>1, <1>3 DEF DownloadInv, TypeOK, WaitersKept
  <2>3. \A g \in Requests : thread'[g] \in {"none", "calling", "back", "stillborn"} => outcome[g] = "none"
    BY <1>3, <1>6 DEF DownloadInv, WaitersKept
  <2> QED BY <1>1, <2>1, <2>2, <2>3 DEF WaitersKept
<1> QED BY <1>5, <1>8, <1>9, <1>10 DEF DownloadInv

LEMMA BeginKept ==
  ASSUME DownloadInv, NEW r \in Requests, Begin(r)
  PROVE  DownloadInv'
<1> USE DiscoverAssumption
<1>1. /\ stage[r] = "idle" /\ key' = [key EXCEPT ![r] = <<scope, @[2]>>]
      /\ due' = [due EXCEPT ![r] = now + Wait(r)] /\ stage' = [stage EXCEPT ![r] = "asked"]
      /\ UNCHANGED <<now, scope, inflight, abandoned, thread, until, outcome, joined>>
  BY DEF Begin, worldVars, slotVars, flightVars
<1>2. thread[r] = "none" /\ Wait(r) \in Nat
  BY <1>1 DEF DownloadInv, SlotsKept, Wait
<1>3. key[r] \in Scopes \X Results
  BY DEF DownloadInv, TypeOK, Keys
<1>4. <<scope, key[r][2]>> \in Keys
  BY <1>3 DEF DownloadInv, TypeOK, Keys
<1>5. TypeOK'
  BY <1>1, <1>2, <1>4 DEF DownloadInv, TypeOK, Scopes, Keys, Running, Errors
<1>6. \A g \in Requests : g # r => key'[g] = key[g]
  BY <1>1 DEF DownloadInv, TypeOK
<1>7. SlotsKept'
  <2>1. \A k \in Keys : inflight[k] # None => inflight[k] # r /\ inflight[k] \in Requests
    BY <1>2 DEF DownloadInv, SlotsKept, TypeOK, Unended, Running
  <2>2. \A k \in Keys : inflight[k] # None => key'[inflight[k]] = k /\ thread[inflight[k]] \in Unended
    BY <2>1, <1>6 DEF DownloadInv, SlotsKept
  <2>3. \A g \in Requests : thread[g] \in Unended => inflight[key'[g]] = g \/ g \in abandoned
    BY <1>2, <1>6 DEF DownloadInv, SlotsKept, Unended, Running
  <2>4. \A g \in Requests : stage'[g] \in {"idle", "asked"} => thread[g] = "none"
    BY <1>1, <1>2 DEF DownloadInv, SlotsKept, TypeOK
  <2> QED BY <1>1, <2>2, <2>3, <2>4 DEF DownloadInv, SlotsKept, Keys, Scopes
<1>8. SlotsCounted'
  BY <1>1 DEF DownloadInv, SlotsCounted, InFlight, Keys, Scopes
<1>9. WaitersKept'
  <2>1. \A q \in Requests : stage'[q] = "waiting" =>
          q # r /\ stage[q] = "waiting" /\ joined[q] # r /\ due'[q] = due[q]
    BY <1>1, <1>2 DEF DownloadInv, TypeOK, WaitersKept
  <2> QED BY <1>1, <1>6, <2>1 DEF DownloadInv, WaitersKept
<1> QED BY <1>5, <1>7, <1>8, <1>9 DEF DownloadInv

-----------------------------------------------------------------------------
(* The steps of a flight.                                                     *)

(* Its thread goes on, with its slot; a flight is only given up as late once    *)
(* its deadline has passed.                                                   *)
LEMMA FlightGoesOn ==
  ASSUME DownloadInv, NEW f \in Requests, NEW to \in {"back", "closing"},
         thread[f] \in {"calling", "back"},
         Move(f, to), UNCHANGED <<now, scope, inflight, abandoned, until, requestVars>>,
         \/ outcome' = outcome
         \/ to = "closing" /\ \E result \in {"failed", "locked_out", "artifact"} :
              outcome' = [outcome EXCEPT ![f] = result]
         \/ to = "closing" /\ until[f] <= now /\ outcome' = [outcome EXCEPT ![f] = "late"]
  PROVE  DownloadInv'
<1> USE DiscoverAssumption
<1>1. /\ thread' = [thread EXCEPT ![f] = to]
      /\ UNCHANGED <<now, scope, inflight, abandoned, until, stage, key, due, joined>>
  BY DEF Move, requestVars
<1>2. /\ outcome' \in [Requests -> Errors \cup {"none", "artifact"}]
      /\ \A g \in Requests : g # f => outcome'[g] = outcome[g]
      /\ outcome'[f] = "late" => outcome[f] = "late" \/ until[f] <= now
      /\ to = "closing" \/ outcome' = outcome
  BY DEF DownloadInv, TypeOK, Errors
<1>3. TypeOK'
  BY <1>1, <1>2 DEF DownloadInv, TypeOK, Scopes, Keys, Running, Errors
<1>4. \A g \in Requests : (thread'[g] = "none" <=> thread[g] = "none")
        /\ (thread'[g] = "ended" <=> thread[g] = "ended")
        /\ (thread'[g] \in Unended <=> thread[g] \in Unended)
  BY <1>1 DEF DownloadInv, TypeOK, Unended, Running
<1>5. SlotsKept'
  BY <1>1, <1>4 DEF DownloadInv, TypeOK, SlotsKept, Keys, Scopes
<1>6. SlotsCounted'
  BY <1>1 DEF DownloadInv, SlotsCounted, InFlight, Keys, Scopes
<1>7. WaitersKept'
  <2>1. ASSUME NEW q \in Requests, stage[q] = "waiting", now < due[q]
        PROVE  outcome'[joined[q]] # "late"
    <3>1. joined[q] \in Requests /\ outcome[joined[q]] # "late"
      BY <2>1 DEF DownloadInv, WaitersKept
    <3>2. thread[joined[q]] # "ended" => due[q] <= until[joined[q]]
      BY <2>1 DEF DownloadInv, WaitersKept
    <3>3. CASE joined[q] = f
      <4>1. until[f] \in Nat /\ due[q] \in Nat /\ now \in Nat
        BY DEF DownloadInv, TypeOK
      <4> QED BY <2>1, <3>1, <3>2, <3>3, <4>1, <1>2
    <3> QED BY <3>1, <3>3, <1>2
  <2>2. \A g \in Requests : outcome'[g] = "late" => until[g] <= now
    BY <1>2 DEF DownloadInv, WaitersKept
  <2>3. \A g \in Requests : thread'[g] \in {"none", "calling", "back", "stillborn"} => outcome'[g] = "none"
    <3>1. \A g \in Requests : g # f => thread'[g] = thread[g]
      BY <1>1 DEF DownloadInv, TypeOK
    <3>2. thread'[f] = to
      BY <1>1 DEF DownloadInv, TypeOK
    <3>3. outcome[f] = "none"
      BY DEF DownloadInv, WaitersKept
    <3> QED BY <3>1, <3>2, <3>3, <1>2 DEF DownloadInv, WaitersKept
  <2> QED BY <1>1, <1>4, <2>1, <2>2, <2>3 DEF DownloadInv, WaitersKept
<1> QED BY <1>3, <1>5, <1>6, <1>7 DEF DownloadInv

LEMMA FlightEndKept ==
  ASSUME DownloadInv, NEW f \in Requests, FetchEnds(f)
  PROVE  DownloadInv'
<1> DEFINE slots == OutOfSlot(f)
<1> USE DiscoverAssumption
<1>1. /\ thread[f] = "closing" /\ inflight' = slots /\ abandoned' = abandoned \ {f}
      /\ thread' = [thread EXCEPT ![f] = "ended"] /\ until' = [until EXCEPT ![f] = 0]
      /\ UNCHANGED <<now, scope, outcome, stage, key, due, joined>>
  BY DEF FetchEnds, Move, worldVars, requestVars
<1>2. key[f] \in Keys
  BY DEF DownloadInv, TypeOK
<1>3. /\ slots \in [Keys -> Requests \cup {None}]
      /\ \A k \in Keys : slots[k] # f
      /\ \A k \in Keys : inflight[k] # f => slots[k] = inflight[k]
      /\ \A k \in Keys : slots[k] # None => slots[k] = inflight[k]
  BY <1>2 DEF OutOfSlot, DownloadInv, TypeOK, SlotsKept
<1>4. \A g \in Requests : g # f => thread'[g] = thread[g] /\ until'[g] = until[g]
  BY <1>1 DEF DownloadInv, TypeOK
<1>5. thread'[f] = "ended" /\ until'[f] = 0
  BY <1>1 DEF DownloadInv, TypeOK
<1>6. TypeOK'
  BY <1>1, <1>3 DEF DownloadInv, TypeOK, Scopes, Keys, Running, Errors
<1>7. SlotsKept'
  <2>1. \A k \in Keys : slots[k] # None => key[slots[k]] = k /\ thread'[slots[k]] \in Unended
    BY <1>3, <1>4 DEF DownloadInv, TypeOK, SlotsKept
  <2>2. \A g \in abandoned \ {f} : thread'[g] \in Unended /\ \A k \in Keys : slots[k] # g
    BY <1>3, <1>4 DEF DownloadInv, TypeOK, SlotsKept
  <2>3. \A g \in Requests : thread'[g] \in Unended => slots[key[g]] = g \/ g \in abandoned \ {f}
    <3>1. ASSUME NEW g \in Requests, thread'[g] \in Unended PROVE g # f
      BY <3>1, <1>5 DEF Unended, Running
    <3> QED BY <3>1, <1>3, <1>4 DEF DownloadInv, TypeOK, SlotsKept
  <2>4. \A g \in Requests : stage[g] \in {"idle", "asked"} => thread'[g] = "none"
    BY <1>1, <1>4 DEF DownloadInv, SlotsKept
  <2> QED BY <1>1, <2>1, <2>2, <2>3, <2>4 DEF SlotsKept, Keys, Scopes
<1>8. SlotsCounted'
  <2>1. /\ IsFiniteSet(InFlight(inflight)) /\ IsFiniteSet(abandoned)
        /\ IsFiniteSet(InFlight(inflight) \cup abandoned)
        /\ Cardinality(InFlight(inflight)) <= Concurrent
        /\ Cardinality(InFlight(inflight) \cup abandoned) <= ThreadLimit
    BY FS_Union DEF DownloadInv, SlotsCounted
  <2>2. /\ InFlight(slots) \subseteq InFlight(inflight)
        /\ InFlight(slots) \cup (abandoned \ {f}) \subseteq InFlight(inflight) \cup abandoned
        /\ abandoned \ {f} \subseteq abandoned
    BY <1>3 DEF InFlight
  <2>3. /\ IsFiniteSet(InFlight(slots)) /\ IsFiniteSet(abandoned \ {f})
        /\ Cardinality(InFlight(slots)) <= Cardinality(InFlight(inflight))
    BY <2>1, <2>2, FS_Subset
  <2>4. /\ IsFiniteSet(InFlight(slots) \cup (abandoned \ {f}))
        /\ Cardinality(InFlight(slots) \cup (abandoned \ {f})) <= Cardinality(InFlight(inflight) \cup abandoned)
    BY <2>1, <2>2, FS_Subset
  <2>5. /\ Cardinality(InFlight(slots)) \in Nat /\ Cardinality(InFlight(inflight)) \in Nat
        /\ Cardinality(InFlight(slots) \cup (abandoned \ {f})) \in Nat
        /\ Cardinality(InFlight(inflight) \cup abandoned) \in Nat
    BY <2>1, <2>3, <2>4, FS_CardinalityType
  <2>6. InFlight(inflight)' = InFlight(slots)
    BY <1>1 DEF InFlight, Keys, Scopes
  <2> QED BY <1>1, <2>1, <2>3, <2>4, <2>5, <2>6 DEF SlotsCounted
<1>9. WaitersKept'
  <2>1. ASSUME NEW q \in Requests, stage[q] = "waiting"
        PROVE  /\ joined[q] \in Requests /\ thread'[joined[q]] # "none"
               /\ thread'[joined[q]] # "ended" => due[q] <= until'[joined[q]] /\ key[joined[q]] = key[q]
               /\ now < due[q] =>
                    /\ thread'[joined[q]] # "ended" => slots[key[q]] = joined[q]
                    /\ outcome[joined[q]] # "late"
    <3>1. joined[q] \in Requests /\ key[q] \in Keys
      BY <2>1 DEF DownloadInv, TypeOK, WaitersKept
    <3>2. CASE joined[q] = f
      BY <2>1, <3>1, <3>2, <1>5 DEF DownloadInv, WaitersKept
    <3>3. CASE joined[q] # f
      BY <2>1, <3>1, <3>3, <1>3, <1>4 DEF DownloadInv, WaitersKept
    <3> QED BY <3>2, <3>3
  <2>2. \A g \in Requests : outcome[g] = "late" => until'[g] <= now
    BY <1>4, <1>5 DEF DownloadInv, TypeOK, WaitersKept
  <2>3. \A g \in Requests : thread'[g] \in {"none", "calling", "back", "stillborn"} => outcome[g] = "none"
    BY <1>4, <1>5 DEF DownloadInv, WaitersKept
  <2> QED BY <1>1, <2>1, <2>2, <2>3 DEF WaitersKept
<1> QED BY <1>6, <1>7, <1>8, <1>9 DEF DownloadInv

LEMMA FlightKept ==
  ASSUME DownloadInv, NEW f \in Requests, FlightStep(f)
  PROVE  DownloadInv'
<1>1. CASE FetchFails(f)
  <2>1. thread[f] = "calling" /\ Move(f, "closing") /\ outcome' = [outcome EXCEPT ![f] = "failed"]
    BY <1>1 DEF FetchFails
  <2> QED BY <1>1, <2>1, FlightGoesOn DEF FetchFails, FetchUnchanged, worldVars, slotVars
<1>2. CASE FetchReturns(f)
  BY <1>2, FlightGoesOn DEF FetchReturns, FetchUnchanged, worldVars, slotVars
<1>3. CASE FetchLockedOut(f)
  BY <1>3, FlightGoesOn DEF FetchLockedOut, FetchUnchanged, worldVars, slotVars
<1>4. CASE FetchTooLate(f)
  <2>1. /\ thread[f] = "back" /\ Move(f, "closing")
        /\ UNCHANGED <<now, scope, inflight, abandoned, until, requestVars>>
    BY <1>4 DEF FetchTooLate, FetchUnchanged, worldVars, slotVars
  <2>2. CASE Valid(f)
    <3>1. until[f] <= now /\ outcome' = [outcome EXCEPT ![f] = "late"]
      BY <1>4, <2>2 DEF FetchTooLate, Late, DownloadInv, TypeOK
    <3> QED BY <2>1, <3>1, FlightGoesOn
  <2>3. CASE ~Valid(f)
    <3>1. outcome' = [outcome EXCEPT ![f] = "failed"]
      BY <1>4, <2>3 DEF FetchTooLate
    <3> QED BY <2>1, <3>1, FlightGoesOn
  <2> QED BY <2>2, <2>3
<1>5. CASE FetchStores(f)
  <2>1. /\ thread[f] = "back" /\ Move(f, "closing") /\ outcome' = [outcome EXCEPT ![f] = "artifact"]
        /\ UNCHANGED <<now, scope, inflight, abandoned, until, requestVars>>
    BY <1>5 DEF FetchStores, FetchUnchanged, worldVars, slotVars
  <2> QED BY <2>1, FlightGoesOn
<1> QED BY <1>1, <1>2, <1>3, <1>4, <1>5, FlightEndKept DEF FlightStep, FlightReturned

-----------------------------------------------------------------------------
(* The rest of the steps of a request, and the world.                         *)

LEMMA RequestKept ==
  ASSUME DownloadInv, NEW r \in Requests, RequestStep(r) \/ TicketStep(r)
  PROVE  DownloadInv'
<1>1. CASE LookJoins(r) \/ LookStarts(r)
  BY <1>1, JoinKept, StartKept
<1>2. CASE LookBusy(r)
  BY <1>2, LeaveKept DEF LookBusy, LookMisses, worldVars, flightVars
<1>3. CASE LookRefused(r)
  BY <1>3, LeaveKept DEF LookRefused, worldVars, flightVars
<1>4. CASE LookHit(r)
  BY <1>4, LeaveKept DEF LookHit, worldVars, flightVars
<1>5. CASE WaitTimesOut(r)
  BY <1>5, LeaveKept DEF WaitTimesOut, worldVars, flightVars
<1>6. CASE WaitAnswered(r)
  BY <1>6, LeaveKept DEF WaitAnswered, worldVars, flightVars
<1>7. CASE Deliver(r)
  <2>1. \E where \in {"hit", "fetched", "storing", "served", "done"} : Goto(r, where)
    BY <1>7 DEF Deliver
  <2> QED BY <1>7, <2>1, LeaveKept DEF Deliver, worldVars, flightVars
<1>8. CASE JobStopped(r)
  BY <1>8, LeaveKept DEF JobStopped, worldVars, flightVars
<1>9. CASE StoreTicket(r)
  BY <1>9, LeaveKept DEF StoreTicket, worldVars, flightVars
<1> QED
  BY <1>1, <1>2, <1>3, <1>4, <1>5, <1>6, <1>7, <1>8, <1>9 DEF RequestStep, TicketStep

LEMMA StillKept ==
  ASSUME DownloadInv, now' \in Nat, now' >= now, scope' \in Scopes,
         UNCHANGED <<slotVars, flightVars, requestVars>>
  PROVE  DownloadInv'
<1>1. /\ now \in Nat /\ now' \in Nat /\ now' >= now
      /\ UNCHANGED <<inflight, abandoned, thread, until, outcome, stage, key, due, joined>>
  BY DEF slotVars, flightVars, requestVars, DownloadInv, TypeOK
<1>2. TypeOK'
  BY <1>1 DEF DownloadInv, TypeOK, Scopes, Keys, Running, Errors
<1>3. SlotsKept' /\ SlotsCounted'
  BY <1>1 DEF DownloadInv, SlotsKept, SlotsCounted, InFlight, Keys, Scopes
<1>4. WaitersKept'
  <2>1. \A q \in Requests : now' < due[q] => now < due[q]
    BY <1>1 DEF DownloadInv, TypeOK
  <2>2. \A f \in Requests : until[f] <= now => until[f] <= now'
    BY <1>1 DEF DownloadInv, TypeOK
  <2> QED BY <1>1, <2>1, <2>2 DEF DownloadInv, WaitersKept
<1> QED BY <1>2, <1>3, <1>4 DEF DownloadInv

LEMMA WorldKept ==
  ASSUME DownloadInv, World
  PROVE  DownloadInv'
<1>1. now \in Nat /\ scope \in Scopes
  BY DEF DownloadInv, TypeOK
<1>2. CASE Tick
  BY <1>1, <1>2, StillKept DEF Tick
<1>3. CASE Rotate
  <2>1. /\ IsFiniteSet(Results \ live) /\ IsFiniteSet({x \in Results : changed[x] # Never})
    BY DiscoverAssumption, FS_Subset
  <2>2. /\ Cardinality(Results \ live) \in Nat
        /\ Cardinality({x \in Results : changed[x] # Never}) \in Nat
    BY <2>1, FS_CardinalityType
  <2>3. scope' = scope + 1 /\ now' = now /\ Upsets < MaxUpsets
    BY <1>3 DEF Rotate
  <2>4. scope' \in Scopes
    BY <1>1, <2>2, <2>3, DiscoverAssumption DEF Upsets, Scopes
  <2> QED BY <1>1, <1>3, <2>3, <2>4, StillKept DEF Rotate
<1>4. ASSUME NEW x \in Results, Expire(x) \/ CopyChanges(x) PROVE DownloadInv'
  BY <1>1, <1>4, StillKept DEF Expire, CopyChanges
<1> QED BY <1>2, <1>3, <1>4 DEF World

THEOREM DownloadInvariant == Spec => []DownloadInv
<1>1. Init => DownloadInv
  BY InitDownload
<1>2. DownloadInv /\ [Next]_vars => DownloadInv'
  <2> SUFFICES ASSUME DownloadInv, [Next]_vars PROVE DownloadInv'
    OBVIOUS
  <2>1. ASSUME NEW r \in Requests, Begin(r) \/ RequestStep(r) \/ TicketStep(r) \/ FlightStep(r)
        PROVE  DownloadInv'
    BY <2>1, BeginKept, RequestKept, FlightKept
  <2>2. now \in Nat /\ scope \in Scopes
    BY DEF DownloadInv, TypeOK
  <2>3. ASSUME NEW s \in Scopes, Save(s) PROVE DownloadInv'
    BY <2>2, <2>3, StillKept DEF Save, worldVars
  <2>4. CASE UNCHANGED vars
    BY <2>2, <2>4, StillKept DEF vars, worldVars
  <2> QED BY <2>1, <2>3, <2>4, WorldKept DEF Next
<1> QED BY <1>1, <1>2, PTL DEF Spec

(* The types of slots, flights and requests hold in every reachable state.    *)
THEOREM Typing == Spec => []TypeOK
<1>1. DownloadInv => TypeOK
  BY DEF DownloadInv
<1> QED BY <1>1, DownloadInvariant, PTL

(* The provider calls that run are exactly the flights counted, but for those   *)
(* whose thread never started, and they keep to both limits, for any number of  *)
(* requests, slots and threads.                                               *)
THEOREM CallsCounted == Spec => []ThreadsCounted
<1>1. DownloadInv => ThreadsCounted
  <2> SUFFICES ASSUME DownloadInv PROVE ThreadsCounted
    OBVIOUS
  <2>1. \A f \in Requests : f \in Counted <=> thread[f] \in Unended
    <3>1. \A f \in Requests : f \in InFlight(inflight) <=> \E k \in Keys : inflight[k] = f
      BY DiscoverAssumption DEF InFlight
    <3> QED BY <3>1, DiscoverAssumption DEF DownloadInv, TypeOK, SlotsKept, Counted
  <2>2. Counted \subseteq Requests
    BY DEF Counted, InFlight, DownloadInv, TypeOK
  <2>3. Alive = Counted \ Stillborn
    BY <2>1, <2>2 DEF Alive, Stillborn, Unended, Running
  <2> QED BY <2>3 DEF DownloadInv, SlotsCounted, ThreadsCounted, Counted
<1> QED BY <1>1, DownloadInvariant, PTL

(* A request whose time is not up keeps its flight, for any number of requests  *)
(* that start, join and outlive one.                                          *)
THEOREM WaiterKept == Spec => []InTimeWaiterKept
<1>1. DownloadInv => InTimeWaiterKept
  BY DEF DownloadInv, WaitersKept, InTimeWaiterKept, Ready
<1> QED BY <1>1, DownloadInvariant, PTL

-----------------------------------------------------------------------------
(* A request that has not handed over yet looked at its copy before the copy    *)
(* changed: it began with a current one.                                        *)
Looking == {"asked", "waiting", "hit", "fetched"}
Looked ==
  /\ now <= MaxTime
  /\ changed \in [Results -> 0..Never] /\ seen \in [Requests -> Nat]
  /\ \A r \in Requests :
       stage[r] \in Looking => seen[r] <= changed[key[r][2]] /\ seen[r] <= now

LEMMA LookKept ==
  ASSUME Looked, UNCHANGED <<now, changed, key>>, seen' \in [Requests -> Nat],
         \A r \in Requests : stage'[r] \in Looking => stage[r] \in Looking /\ seen'[r] = seen[r]
  PROVE  Looked'
  BY DEF Looked

(* A request leaves its look behind, or goes on with it.                        *)
LEMMA LookGoesOn ==
  ASSUME TypeOK, Looked, NEW r \in Requests, stage[r] \in Looking \cup {"storing"},
         UNCHANGED <<now, changed, key>>,
         \/ \E where \in {"done", "storing", "served"} : Goto(r, where)
         \/ stage[r] \in Looking /\ \E where \in {"hit", "fetched"} : Goto(r, where)
         \/ stage[r] \in Looking /\ \E f \in Requests : WaitFor(r, f)
  PROVE  Looked'
<1>1. CASE \E where \in {"done", "storing", "served"} : Goto(r, where)
  <2>1. /\ \A q \in Requests : q # r => stage'[q] = stage[q] /\ seen'[q] = seen[q]
        /\ stage'[r] \notin Looking /\ seen' \in [Requests -> Nat]
    BY <1>1 DEF Goto, TypeOK, Looked, Looking
  <2> QED BY <2>1, LookKept
<1>2. CASE stage[r] \in Looking /\ \/ \E where \in {"hit", "fetched"} : Goto(r, where)
                                   \/ \E f \in Requests : WaitFor(r, f)
  <2>1. seen' = seen /\ \A q \in Requests : q # r => stage'[q] = stage[q]
    BY <1>2 DEF Goto, WaitFor, TypeOK
  <2> QED BY <1>2, <2>1, LookKept DEF Looked
<1> QED BY <1>1, <1>2

LEMMA LookedStep == DownloadInv /\ Looked /\ [Next]_vars => Looked'
<1> SUFFICES ASSUME DownloadInv, Looked, [Next]_vars PROVE Looked'
  OBVIOUS
<1>0. TypeOK /\ now \in Nat /\ MaxTime \in Nat
  BY DiscoverAssumption DEF DownloadInv, TypeOK
<1>1. ASSUME NEW r \in Requests, Begin(r) PROVE Looked'
  <2>1. /\ key' = [key EXCEPT ![r] = <<scope, key[r][2]>>] /\ seen' = [seen EXCEPT ![r] = now]
        /\ stage' = [stage EXCEPT ![r] = "asked"] /\ changed[key[r][2]] = Never
        /\ UNCHANGED <<now, changed>>
    BY <1>1 DEF Begin, CopyCurrent, worldVars
  <2>2. /\ key'[r][2] = key[r][2] /\ seen'[r] = now
        /\ \A q \in Requests : q # r => key'[q] = key[q] /\ seen'[q] = seen[q] /\ stage'[q] = stage[q]
    BY <1>0, <2>1 DEF TypeOK, Looked
  <2>3. now <= Never
    BY <1>0 DEF Looked, Never
  <2>4. seen' \in [Requests -> Nat]
    BY <1>0, <2>1 DEF Looked
  <2> QED BY <1>0, <2>1, <2>2, <2>3, <2>4 DEF Looked
<1>2. ASSUME NEW r \in Requests, RequestStep(r) \/ TicketStep(r) PROVE Looked'
  <2>1. UNCHANGED <<now, changed, key>>
    BY <1>2
    DEF RequestStep, TicketStep, LookRefused, LookHit, LookMisses, LookJoins, LookBusy, LookStarts,
        WaitTimesOut, WaitAnswered, Deliver, JobStopped, StoreTicket, worldVars
  <2>2. CASE LookRefused(r) \/ LookBusy(r) \/ WaitTimesOut(r) \/ JobStopped(r)
    BY <1>0, <2>1, <2>2, LookGoesOn
    DEF LookRefused, LookBusy, LookMisses, Looks, WaitTimesOut, JobStopped, Looking
  <2>3. CASE LookHit(r)
    BY <1>0, <2>1, <2>3, LookGoesOn DEF LookHit, Looks, Looking
  <2>4. CASE LookJoins(r)
    <3>1. Kept[key[r]] \in Requests
      <4>1. key[r] \in Keys /\ Kept[key[r]] # None
        BY <1>0, <2>4 DEF TypeOK, LookJoins
      <4> QED BY <1>0, <4>1 DEF TypeOK, Kept
    <3> QED BY <1>0, <2>1, <2>4, <3>1, LookGoesOn DEF LookJoins, LookMisses, Looks, Looking
  <2>5. CASE LookStarts(r)
    BY <1>0, <2>1, <2>5, LookGoesOn DEF LookStarts, LookMisses, Looks, Looking
  <2>6. CASE WaitAnswered(r)
    BY <1>0, <2>1, <2>6, LookGoesOn DEF WaitAnswered, Looking
  <2>7. CASE Deliver(r)
    <3>1. stage[r] \in Looking /\ \E where \in {"done", "storing", "served"} : Goto(r, where)
      BY <2>7 DEF Deliver, Looking
    <3> QED BY <1>0, <2>1, <3>1, LookGoesOn
  <2>8. CASE StoreTicket(r)
    BY <1>0, <2>1, <2>8, LookGoesOn DEF StoreTicket, Looking
  <2> QED BY <1>2, <2>2, <2>3, <2>4, <2>5, <2>6, <2>7, <2>8 DEF RequestStep, TicketStep
<1>3. CASE \/ \E f \in Requests : FlightStep(f)
           \/ \E s \in Scopes : Save(s)
           \/ Rotate \/ (\E x \in Results : Expire(x)) \/ UNCHANGED vars
  <2>1. UNCHANGED <<now, changed, key, stage, seen>>
    BY <1>3
    DEF FlightStep, FlightReturned, FetchFails, FetchReturns, FetchLockedOut, FetchTooLate, FetchStores,
        FetchEnds, FetchUnchanged, Save, Rotate, Expire, vars, worldVars, requestVars
  <2> QED BY <2>1, LookKept DEF Looked
<1>4. CASE Tick
  <2>1. now' = now + 1 /\ now < MaxTime /\ UNCHANGED <<changed, key, stage, seen>>
    BY <1>4 DEF Tick, requestVars
  <2>2. \A r \in Requests : seen[r] \in Nat
    BY DEF Looked
  <2>3. \A r \in Requests : seen[r] <= now => seen[r] <= now'
    BY <1>0, <2>1, <2>2
  <2> QED BY <1>0, <2>1, <2>3 DEF Looked
<1>5. ASSUME NEW x \in Results, CopyChanges(x) PROVE Looked'
  <2>1. changed' = [changed EXCEPT ![x] = now] /\ UNCHANGED <<now, key, stage, seen>>
    BY <1>5 DEF CopyChanges, requestVars
  <2>2. now \in 0..Never
    BY <1>0 DEF Looked, Never
  <2>3. changed' \in [Results -> 0..Never]
    BY <2>1, <2>2 DEF Looked
  <2>4. \A y \in Results : changed'[y] = IF y = x THEN now ELSE changed[y]
    BY <2>1 DEF Looked
  <2>5. \A r \in Requests : key[r][2] \in Results
    BY <1>0 DEF TypeOK, Keys
  <2>6. \A r \in Requests : stage[r] \in Looking => seen[r] <= changed'[key[r][2]]
    BY <2>4, <2>5 DEF Looked
  <2> QED BY <2>1, <2>3, <2>6 DEF Looked
<1> QED BY <1>1, <1>2, <1>3, <1>4, <1>5 DEF Next, World

LEMMA FreshStep ==
  ASSUME DownloadInv, Looked, [Next]_vars, NEW r \in Requests,
         stage[r] \in {"hit", "fetched"}, stage'[r] \in {"storing", "served"}
  PROVE  now <= changed[key[r][2]] + RecheckAfter
<1>0. TypeOK /\ now \in Nat /\ MaxTime \in Nat /\ RecheckAfter \in Nat /\ key[r][2] \in Results
  BY DiscoverAssumption DEF DownloadInv, TypeOK, Keys
<1>1. Deliver(r)
  <2>1. ASSUME NEW q \in Requests, Begin(q) \/ RequestStep(q) \/ TicketStep(q), q # r
        PROVE  stage'[r] = stage[r]
    <3>1. \E where : stage' = [stage EXCEPT ![q] = where]
      <4>1. \A where : Goto(q, where) => stage' = [stage EXCEPT ![q] = where]
        BY DEF Goto
      <4>2. \A f : WaitFor(q, f) => stage' = [stage EXCEPT ![q] = "waiting"]
        BY DEF WaitFor
      <4> QED BY <2>1, <4>1, <4>2
          DEF Begin, RequestStep, TicketStep, LookRefused, LookHit, LookJoins, LookBusy, LookStarts,
              WaitTimesOut, WaitAnswered, Deliver, JobStopped, StoreTicket
    <3> QED BY <1>0, <2>1, <3>1 DEF TypeOK
  <2>2. Begin(r) \/ RequestStep(r) \/ TicketStep(r) => Deliver(r)
    BY DEF Begin, RequestStep, TicketStep, LookRefused, LookHit, LookMisses, LookJoins, LookBusy,
        LookStarts, Looks, WaitTimesOut, WaitAnswered, JobStopped, StoreTicket
  <2>3. \/ \E q \in Requests : FlightStep(q)
        \/ \E s \in Scopes : Save(s)
        \/ World \/ UNCHANGED vars
        => stage' = stage
    BY DEF FlightStep, FlightReturned, FetchFails, FetchReturns, FetchLockedOut, FetchTooLate, FetchStores,
        FetchEnds, FetchUnchanged, Save, World, Tick, Rotate, Expire, CopyChanges, vars, requestVars
  <2> QED BY <2>1, <2>2, <2>3 DEF Next
<1>2. LooksAgain(r) => CopyCurrent(r)
  <2>1. Delivers(r)
    <3>1. ~Delivers(r) => Goto(r, "done")
      BY <1>1 DEF Deliver
    <3>2. Goto(r, "done") => stage'[r] = "done"
      BY <1>0 DEF Goto, TypeOK
    <3> QED BY <3>1, <3>2
  <2> QED BY <2>1 DEF Delivers
<1>3. CASE LooksAgain(r)
  <2>1. changed[key[r][2]] = MaxTime + 1
    BY <1>2, <1>3 DEF CopyCurrent, Never
  <2> QED BY <1>0, <2>1 DEF Looked
<1>4. CASE ~LooksAgain(r)
  <2>1. ~(now - seen[r] > RecheckAfter)
    BY <1>4 DEF LooksAgain
  <2>2. seen[r] \in Nat /\ changed[key[r][2]] \in Nat /\ seen[r] <= changed[key[r][2]]
    BY <1>0 DEF Looked, Looking, Never
  <2> QED BY <1>0, <2>1, <2>2
<1> QED BY <1>3, <1>4

(* Bytes are handed over against a look at the copy no older than               *)
(* COPY_RECHECK_AFTER_SECONDS, for any number of requests and any times         *)
(* (_require_current_copy, before and after the wait).                          *)
THEOREM DeliveriesAreFresh == Spec => FreshDelivery
<1>1. Init => Looked
  BY DiscoverAssumption DEF Init, Looked, Looking, Never
<1>2. Spec => []Looked
  BY <1>1, LookedStep, DownloadInvariant, PTL DEF Spec
<1>3. DownloadInv /\ Looked /\ [Next]_vars =>
        [\A r \in Requests :
           stage[r] \in {"hit", "fetched"} /\ stage'[r] \in {"storing", "served"} =>
             now <= changed[key[r][2]] + RecheckAfter]_vars
  BY FreshStep
<1> QED BY <1>2, <1>3, DownloadInvariant, PTL DEF Spec, FreshDelivery

-----------------------------------------------------------------------------
(* What the cache holds.  p is a dictionary with its weight, in an order.      *)
Dictionary(p) ==
  /\ IsFiniteSet(DOMAIN p.cache) /\ DOMAIN p.cache \subseteq Keys \cup TicketKeys
  /\ \A k \in DOMAIN p.cache : p.cache[k] \in Entries /\ p.cache[k].older \subseteq DOMAIN p.cache \ {k}
  /\ \A k \in DOMAIN p.cache : \A j \in p.cache[k].older : p.cache[j].older \subseteq p.cache[k].older
  /\ p.bytes = Weighs(p.cache, DOMAIN p.cache)
Current == [cache |-> cache, bytes |-> bytes]

(* What is taken out of a set of entries is taken off its weight.              *)
LEMMA WeighsMore ==
  ASSUME NEW c, NEW S, NEW T, IsFiniteSet(S), T \subseteq S
  PROVE  /\ Weighs(c, S) \in Nat /\ Weighs(c, T) \in Nat /\ Weighs(c, S \ T) \in Nat
         /\ Weighs(c, S \ T) = Weighs(c, S) - Weighs(c, T) /\ Weighs(c, T) <= Weighs(c, S)
<1> DEFINE Large(X) == {k \in X : c[k].size = 2}
<1>1. IsFiniteSet(Large(S)) /\ Large(T) \subseteq Large(S) /\ Large(S \ T) = Large(S) \ Large(T)
  BY FS_Subset
<1>2. ASSUME NEW X, NEW Y, IsFiniteSet(X), Y \subseteq X
      PROVE  /\ Cardinality(X) \in Nat /\ Cardinality(Y) \in Nat /\ Cardinality(X \ Y) \in Nat
             /\ Cardinality(X \ Y) = Cardinality(X) - Cardinality(Y)
  <2>1. IsFiniteSet(Y) /\ IsFiniteSet(X \ Y) /\ X \cap Y = Y
    BY <1>2, FS_Subset
  <2>2. Cardinality(X \ Y) = Cardinality(X) - Cardinality(X \cap Y)
    BY <1>2, FS_Difference
  <2> QED BY <1>2, <2>1, <2>2, FS_CardinalityType
<1>3. /\ Cardinality(S) \in Nat /\ Cardinality(T) \in Nat /\ Cardinality(S \ T) \in Nat
      /\ Cardinality(S \ T) = Cardinality(S) - Cardinality(T)
  BY <1>2
<1>4. /\ Cardinality(Large(S)) \in Nat /\ Cardinality(Large(T)) \in Nat
      /\ Cardinality(Large(S \ T)) \in Nat
      /\ Cardinality(Large(S \ T)) = Cardinality(Large(S)) - Cardinality(Large(T))
  <2> HIDE DEF Large
  <2> QED BY <1>1, <1>2
<1>5. /\ Weighs(c, S) = Cardinality(S) + Cardinality(Large(S))
      /\ Weighs(c, T) = Cardinality(T) + Cardinality(Large(T))
      /\ Weighs(c, S \ T) = Cardinality(S \ T) + Cardinality(Large(S \ T))
  BY DEF Weighs
<1> HIDE DEF Large
<1> QED BY <1>3, <1>4, <1>5

(* Dictionaries that agree on the sizes of some keys agree on their weight.    *)
LEMMA WeighsSame ==
  ASSUME NEW c, NEW d, NEW S, \A k \in S : c[k].size = d[k].size
  PROVE  Weighs(c, S) = Weighs(d, S)
<1>1. {k \in S : c[k].size = 2} = {k \in S : d[k].size = 2}
  OBVIOUS
<1> QED BY <1>1 DEF Weighs

(* Evicting leaves a dictionary of the other entries, in their order.          *)
LEMMA WithoutKept ==
  ASSUME NEW p, NEW gone, Dictionary(p)
  PROVE  LET q == Without(p, gone)
         IN /\ Dictionary(q) /\ DOMAIN q.cache = DOMAIN p.cache \ gone
            /\ \A k \in DOMAIN q.cache : q.cache[k].expiry = p.cache[k].expiry
            /\ \A k \in DOMAIN q.cache : q.cache[k].older = p.cache[k].older \ gone
            /\ p.bytes \in Nat /\ q.bytes \in Nat /\ q.bytes <= p.bytes
            /\ Cardinality(DOMAIN q.cache) \in Nat /\ Cardinality(DOMAIN p.cache) \in Nat
            /\ Cardinality(DOMAIN q.cache) <= Cardinality(DOMAIN p.cache)
<1> DEFINE q == Without(p, gone)
           S == DOMAIN p.cache
           T == gone \cap DOMAIN p.cache
<1>1. /\ q.cache = [k \in S \ gone |-> [p.cache[k] EXCEPT !.older = @ \ gone]]
      /\ q.bytes = p.bytes - Weighs(p.cache, T) /\ S \ gone = S \ T
  BY DEF Without
<1>2. DOMAIN q.cache = S \ gone
  BY <1>1
<1>3. ASSUME NEW k \in S \ gone
      PROVE  /\ q.cache[k] \in Entries /\ q.cache[k].older = p.cache[k].older \ gone
             /\ q.cache[k].expiry = p.cache[k].expiry /\ q.cache[k].size = p.cache[k].size
  <2>1. p.cache[k] \in Entries /\ q.cache[k] = [p.cache[k] EXCEPT !.older = @ \ gone]
    BY <1>1, <1>3 DEF Dictionary
  <2> HIDE DEF q
  <2> QED BY <2>1 DEF Entries
<1> HIDE DEF q
<1>4. /\ Weighs(p.cache, S) \in Nat /\ Weighs(p.cache, T) \in Nat /\ Weighs(p.cache, S \ T) \in Nat
      /\ Weighs(p.cache, S \ T) = Weighs(p.cache, S) - Weighs(p.cache, T) /\ IsFiniteSet(S)
  <2>1. IsFiniteSet(S) /\ T \subseteq S
    BY DEF Dictionary
  <2> HIDE DEF S, T
  <2> QED BY <2>1, WeighsMore
<1>5. Weighs(q.cache, S \ T) = Weighs(p.cache, S \ T)
  <2>1. \A k \in S \ T : q.cache[k].size = p.cache[k].size
    BY <1>1, <1>3
  <2> HIDE DEF S, T
  <2> QED BY <2>1, WeighsSame
<1>6. q.bytes = Weighs(q.cache, DOMAIN q.cache) /\ p.bytes \in Nat /\ q.bytes \in Nat /\ q.bytes <= p.bytes
  <2>1. p.bytes = Weighs(p.cache, S) /\ DOMAIN q.cache = S \ T
    BY <1>1, <1>2 DEF Dictionary
  <2> HIDE DEF S, T
  <2> QED BY <1>1, <1>4, <1>5, <2>1
<1>7. /\ IsFiniteSet(DOMAIN q.cache) /\ Cardinality(DOMAIN q.cache) <= Cardinality(S)
      /\ Cardinality(DOMAIN q.cache) \in Nat /\ Cardinality(S) \in Nat
  BY <1>2, <1>4, FS_Subset, FS_CardinalityType
<1>8. Dictionary(q)
  <2>1. DOMAIN q.cache \subseteq Keys \cup TicketKeys
    BY <1>2 DEF Dictionary
  <2>2. \A k \in DOMAIN q.cache : q.cache[k] \in Entries /\ q.cache[k].older \subseteq DOMAIN q.cache \ {k}
    BY <1>2, <1>3 DEF Dictionary
  <2>3. \A k \in DOMAIN q.cache : \A j \in q.cache[k].older : q.cache[j].older \subseteq q.cache[k].older
    BY <1>2, <1>3 DEF Dictionary
  <2> QED BY <1>6, <1>7, <2>1, <2>2, <2>3 DEF Dictionary
<1> QED BY <1>2, <1>3, <1>6, <1>7, <1>8 DEF q

(* The more is evicted, the more there is room.                               *)
LEMMA MoreRoom ==
  ASSUME NEW p, NEW gone, NEW more, NEW size \in Nat, Dictionary(p), gone \subseteq more,
         Fits(Without(p, gone), size)
  PROVE  Fits(Without(p, more), size)
<1> DEFINE S == DOMAIN p.cache
           T == gone \cap S
           U == more \cap S
<1>1. IsFiniteSet(S) /\ IsFiniteSet(U) /\ T \subseteq U /\ IsFiniteSet(S \ T) /\ S \ U \subseteq S \ T
  BY FS_Subset DEF Dictionary
<1>2. Weighs(p.cache, T) \in Nat /\ Weighs(p.cache, U) \in Nat /\ Weighs(p.cache, T) <= Weighs(p.cache, U)
  BY <1>1, WeighsMore
<1>3. p.bytes \in Nat
  BY WithoutKept
<1>4. /\ Cardinality(S \ U) \in Nat /\ Cardinality(S \ T) \in Nat
      /\ Cardinality(S \ U) <= Cardinality(S \ T)
  BY <1>1, FS_Subset, FS_CardinalityType
<1>5. /\ DOMAIN Without(p, gone).cache = S \ T /\ DOMAIN Without(p, more).cache = S \ U
      /\ Without(p, gone).bytes = p.bytes - Weighs(p.cache, T)
      /\ Without(p, more).bytes = p.bytes - Weighs(p.cache, U)
  BY DEF Without
<1> HIDE DEF S, T, U
<1>6. Cardinality(S \ T) < CacheEntries /\ p.bytes - Weighs(p.cache, T) + size <= CacheBytes
  BY <1>5 DEF Fits
<1>7. Cardinality(S \ U) < CacheEntries /\ p.bytes - Weighs(p.cache, U) + size <= CacheBytes
  BY <1>2, <1>3, <1>4, <1>6, DiscoverAssumption
<1> QED BY <1>5, <1>7 DEF Fits

(* The least of some natural numbers.                                          *)
LEMMA Least ==
  ASSUME NEW T, T \subseteq Nat, T # {}
  PROVE  \E m \in T : \A n \in T : m <= n
<1> DEFINE Less == {ss \in Nat \X Nat : ss[1] < ss[2]}
<1>1. IsWellFoundedOn(Less, Nat)
  BY NatLessThanWellFounded DEF OpToRel
<1>2. \E m \in T : \A n \in T : ~(<<n, m>> \in Less)
  <2> HIDE DEF Less
  <2> QED BY <1>1, WFMin
<1>3. PICK m \in T : \A n \in T : ~(<<n, m>> \in Less)
  BY <1>2
<1>4. \A n \in T : m <= n
  <2> TAKE n \in T
  <2>1. ~(<<n, m>> \in Less) /\ n \in Nat /\ m \in Nat
    BY <1>3
  <2>2. ~(n < m)
    BY <2>1
  <2> QED BY <2>1, <2>2
<1> QED BY <1>4

(* What _make_room leaves for a ticket has room for it: if anything is left,   *)
(* the first of it in the order of eviction was spared because there was room. *)
LEMMA RoomMade ==
  ASSUME NEW p, NEW size \in {1, 2}, Dictionary(p)
  PROVE  Fits(MadeRoom(p, size, TRUE), size)
<1> DEFINE S == DOMAIN p.cache
           E == Evicted(p, size, TRUE)
           Before(k) == Ahead(p.cache, k)
<1>1. E = {k \in S : ~Fits(Without(p, Before(k)), size)}
  BY DEF Evicted
<1>2. IsFiniteSet(S) /\ \A k \in S : Before(k) \subseteq S
  BY DEF Dictionary, Ahead
<1>3. CASE S \ E = {}
  <2> DEFINE q == Without(p, E)
  <2>0. Dictionary(q) /\ DOMAIN q.cache = S \ E
    BY WithoutKept
  <2> HIDE DEF q, S, E
  <2>1. DOMAIN q.cache = {}
    BY <1>3, <2>0
  <2>2. Cardinality(DOMAIN q.cache) = 0
    BY <2>1, FS_EmptySet
  <2>3. q.bytes = Weighs(q.cache, {})
    BY <2>0, <2>1 DEF Dictionary
  <2>4. {k \in {} : q.cache[k].size = 2} = {}
    OBVIOUS
  <2>5. q.bytes = 0
    BY <2>3, <2>4, FS_EmptySet DEF Weighs
  <2>6. Fits(q, size)
    BY <2>2, <2>5, DiscoverAssumption DEF Fits
  <2> QED BY <2>6 DEF q, E, MadeRoom
<1>4. CASE S \ E # {}
  <2> DEFINE T == {Cardinality(Before(k)) : k \in S \ E}
  <2>1. \A k \in S : IsFiniteSet(Before(k)) /\ Cardinality(Before(k)) \in Nat
    <3> HIDE DEF S, Before
    <3> QED BY <1>2, FS_Subset, FS_CardinalityType
  <2>2. T \subseteq Nat /\ T # {}
    BY <1>4, <2>1
  <2>3. PICK k \in S \ E : \A j \in S \ E : Cardinality(Before(k)) <= Cardinality(Before(j))
    <3> HIDE DEF S, E, Before
    <3>1. PICK m \in T : \A n \in T : m <= n
      <4> HIDE DEF T
      <4> QED BY <2>2, Least
    <3> QED BY <3>1
  <2>4. \A j \in Before(k) : Before(j) \subseteq Before(k) \ {j}
    BY DEF Dictionary, Ahead
  <2>5. ASSUME NEW j \in Before(k), j \notin E PROVE FALSE
    <3>1. j \in S \ E /\ Before(j) \subseteq Before(k) /\ j \in Before(k) /\ j \notin Before(j)
      BY <1>2, <2>4, <2>5
    <3> HIDE DEF S, E, Before
    <3>2. /\ Cardinality(Before(j)) <= Cardinality(Before(k)) /\ Cardinality(Before(k)) <= Cardinality(Before(j))
          /\ Cardinality(Before(k)) \in Nat /\ Cardinality(Before(j)) \in Nat
      BY <2>1, <2>3, <3>1, FS_Subset
    <3>3. Cardinality(Before(k)) = Cardinality(Before(j))
      BY <3>2
    <3> QED BY <2>1, <3>1, <3>3, FS_Subset
  <2>6. Before(k) \subseteq E
    BY <2>5
  <2>7. Fits(Without(p, Before(k)), size)
    BY <1>1, <2>3
  <2> HIDE DEF E, Before
  <2>8. Fits(Without(p, E), size)
    BY <2>6, <2>7, MoreRoom
  <2> QED BY <2>8 DEF MadeRoom, E
<1> QED BY <1>3, <1>4

(* An entry that is new goes to the end.                                      *)
LEMMA PutKept ==
  ASSUME NEW p, NEW k \in (Keys \cup TicketKeys) \ DOMAIN p.cache, NEW expiry \in Nat,
         NEW size \in {1, 2}, Dictionary(p)
  PROVE  LET q == Put(p, k, expiry, size)
         IN /\ Dictionary(q) /\ DOMAIN q.cache = DOMAIN p.cache \cup {k}
            /\ \A j \in DOMAIN p.cache : q.cache[j] = p.cache[j]
            /\ q.bytes = p.bytes + size
            /\ Cardinality(DOMAIN q.cache) = Cardinality(DOMAIN p.cache) + 1
<1> DEFINE q == Put(p, k, expiry, size)
           S == DOMAIN p.cache
           entry == [expiry |-> expiry, size |-> size, older |-> S]
           Large(c, X) == {j \in X : c[j].size = 2}
<1>1. q.cache = [j \in S \cup {k} |-> IF j = k THEN entry ELSE p.cache[j]] /\ q.bytes = p.bytes + size
  BY DEF Put
<1>2. /\ DOMAIN q.cache = S \cup {k} /\ q.cache[k] = entry /\ \A j \in S : q.cache[j] = p.cache[j]
  BY <1>1
<1>3. IsFiniteSet(S) /\ p.bytes = Weighs(p.cache, S) /\ k \notin S
  BY DEF Dictionary
<1>4. entry.size = size /\ entry.older = S /\ entry \in Entries
  BY DEF Entries, Dictionary
<1> HIDE DEF q, entry
<1>5. IsFiniteSet(S \cup {k}) /\ Cardinality(S \cup {k}) = Cardinality(S) + 1 /\ Cardinality(S) \in Nat
  <2> HIDE DEF S
  <2> QED BY <1>3, FS_AddElement, FS_CardinalityType
<1>6. Weighs(q.cache, S \cup {k}) = Weighs(p.cache, S) + size
  <2>1. Large(p.cache, S) \subseteq S /\ IsFiniteSet(Large(p.cache, S)) /\ Cardinality(Large(p.cache, S)) \in Nat
    <3>1. Large(p.cache, S) \subseteq S
      OBVIOUS
    <3> HIDE DEF S, Large
    <3> QED BY <3>1, <1>3, FS_Subset, FS_CardinalityType
  <2>2. Large(q.cache, S \cup {k}) = IF size = 2 THEN Large(p.cache, S) \cup {k} ELSE Large(p.cache, S)
    BY <1>2, <1>3, <1>4
  <2>3. /\ Weighs(q.cache, S \cup {k}) = Cardinality(S \cup {k}) + Cardinality(Large(q.cache, S \cup {k}))
        /\ Weighs(p.cache, S) = Cardinality(S) + Cardinality(Large(p.cache, S))
    BY DEF Weighs
  <2>4. k \notin Large(p.cache, S)
    BY <1>3
  <2> HIDE DEF S, Large
  <2>5. Cardinality(Large(p.cache, S) \cup {k}) = Cardinality(Large(p.cache, S)) + 1
    BY <2>1, <2>4, FS_AddElement
  <2>6. CASE size = 2
    <3>1. Cardinality(Large(q.cache, S \cup {k})) = Cardinality(Large(p.cache, S)) + 1
      BY <2>2, <2>5, <2>6
    <3> QED BY <1>5, <2>1, <2>3, <2>6, <3>1
  <2>7. CASE size = 1
    <3>1. Cardinality(Large(q.cache, S \cup {k})) = Cardinality(Large(p.cache, S))
      BY <2>2, <2>7
    <3> QED BY <1>5, <2>1, <2>3, <2>7, <3>1
  <2> QED BY <2>6, <2>7
<1>7. Dictionary(q)
  <2>1. DOMAIN q.cache \subseteq Keys \cup TicketKeys
    BY <1>2 DEF Dictionary
  <2>2. \A j \in DOMAIN q.cache : q.cache[j] \in Entries /\ q.cache[j].older \subseteq DOMAIN q.cache \ {j}
    BY <1>2, <1>3, <1>4 DEF Dictionary
  <2>3. \A j \in DOMAIN q.cache : \A i \in q.cache[j].older : q.cache[i].older \subseteq q.cache[j].older
    BY <1>2, <1>3, <1>4 DEF Dictionary
  <2>4. IsFiniteSet(DOMAIN q.cache) /\ q.bytes = Weighs(q.cache, DOMAIN q.cache)
    BY <1>1, <1>2, <1>3, <1>5, <1>6
  <2> QED BY <2>1, <2>2, <2>3, <2>4 DEF Dictionary
<1> QED BY <1>1, <1>2, <1>5, <1>7 DEF q

(* A hit goes to the end.                                                     *)
LEMMA MovedKept ==
  ASSUME NEW p, NEW k \in DOMAIN p.cache, Dictionary(p), NEW q,
         q.cache = MovedToEnd(p.cache, k), q.bytes = p.bytes
  PROVE  /\ Dictionary(q) /\ DOMAIN q.cache = DOMAIN p.cache /\ q.bytes = p.bytes
         /\ \A j \in DOMAIN p.cache : q.cache[j].expiry = p.cache[j].expiry
<1> DEFINE S == DOMAIN p.cache
<1>1. /\ DOMAIN q.cache = S
      /\ \A j \in S : q.cache[j] = [p.cache[j] EXCEPT !.older = IF j = k THEN S \ {k} ELSE @ \ {k}]
  BY DEF MovedToEnd
<1>2. ASSUME NEW j \in S
      PROVE  /\ q.cache[j] \in Entries /\ q.cache[j].older = IF j = k THEN S \ {k} ELSE p.cache[j].older \ {k}
             /\ q.cache[j].expiry = p.cache[j].expiry /\ q.cache[j].size = p.cache[j].size
  <2>1. p.cache[j] \in Entries /\ S \subseteq Keys \cup TicketKeys
    BY <1>2 DEF Dictionary
  <2>2. q.cache[j] = [p.cache[j] EXCEPT !.older = IF j = k THEN S \ {k} ELSE @ \ {k}]
    BY <1>1, <1>2
  <2> HIDE DEF S
  <2> QED BY <2>1, <2>2 DEF Entries
<1>3. DOMAIN q.cache = S
  BY <1>1
<1>4. Dictionary(q)
  <2>1. /\ S \subseteq Keys \cup TicketKeys /\ IsFiniteSet(S) /\ p.bytes = Weighs(p.cache, S)
        /\ \A j \in S : p.cache[j].older \subseteq S \ {j}
        /\ \A j \in S : \A i \in p.cache[j].older : p.cache[i].older \subseteq p.cache[j].older
    BY DEF Dictionary
  <2> HIDE DEF S
  <2> DEFINE o(j) == p.cache[j].older
             n(j) == q.cache[j].older
  <2>2. \A j \in S : n(j) = IF j = k THEN S \ {k} ELSE o(j) \ {k}
    BY <1>2
  <2>3. \A j \in S : o(j) \subseteq S \ {j} /\ \A i \in o(j) : o(i) \subseteq o(j)
    BY <2>1
  <2>4. \A j \in S : q.cache[j] \in Entries
    BY <1>2
  <2>5. (\A j \in S : n(j) \subseteq S \ {j}) /\ \A j \in S : \A i \in n(j) : n(i) \subseteq n(j)
    <3> HIDE DEF n, o
    <3> QED BY <2>2, <2>3
  <2>6. \A j \in S : q.cache[j] \in Entries /\ q.cache[j].older \subseteq S \ {j}
    BY <2>4, <2>5
  <2>7. \A j \in S : \A i \in q.cache[j].older : q.cache[i].older \subseteq q.cache[j].older
    BY <2>5
  <2>8. Weighs(q.cache, S) = Weighs(p.cache, S)
    <3>1. \A j \in S : q.cache[j].size = p.cache[j].size
      BY <1>2
    <3> QED BY <3>1, WeighsSame
  <2> QED BY <1>3, <2>1, <2>6, <2>7, <2>8 DEF Dictionary
<1> QED BY <1>2, <1>3, <1>4

-----------------------------------------------------------------------------
(* The invariant of the cache: it is a dictionary within its limits; an        *)
(* abandoned flight is late, so the one that may store holds the slot of its    *)
(* key; what that flight is to store is not there yet; and a ticket is that of a *)
(* request that was served.                                                   *)
Bounded(p) ==
  Dictionary(p) /\ p.bytes <= CacheBytes /\ Cardinality(DOMAIN p.cache) <= CacheEntries
AbandonedAreLate == \A f \in abandoned : until[f] <= now
Unreturned == {"calling", "back"}
UnreturnedUnstored ==
  \A f \in Requests : thread[f] \in Unreturned /\ inflight[key[f]] = f => key[f] \notin Held
TicketsServed == \A k \in Held : IsTicket(k) => stage[k[2]] = "served"
CacheInv == Bounded(Current) /\ AbandonedAreLate /\ UnreturnedUnstored /\ TicketsServed

(* What a dictionary weighs and holds is a number.                             *)
LEMMA BoundedCounts ==
  ASSUME NEW p, Dictionary(p)
  PROVE  p.bytes \in Nat /\ Cardinality(DOMAIN p.cache) \in Nat
BY WithoutKept

(* No copy has the key of a ticket.                                            *)
LEMMA KeysApart == Keys \cap TicketKeys = {}
BY DiscoverAssumption DEF Keys, TicketKeys

(* Evicting and pruning keep the limits.                                      *)
LEMMA EvictionKept ==
  ASSUME NEW p, NEW gone, Bounded(p)
  PROVE  Bounded(Without(p, gone))
<1> DEFINE q == Without(p, gone)
<1>1. /\ Dictionary(q) /\ p.bytes \in Nat /\ q.bytes \in Nat /\ q.bytes <= p.bytes
      /\ Cardinality(DOMAIN q.cache) \in Nat /\ Cardinality(DOMAIN p.cache) \in Nat
      /\ Cardinality(DOMAIN q.cache) <= Cardinality(DOMAIN p.cache)
  BY WithoutKept DEF Bounded
<1>2. p.bytes <= CacheBytes /\ Cardinality(DOMAIN p.cache) <= CacheEntries
  BY DEF Bounded
<1> HIDE DEF q
<1>3. Bounded(q)
  BY <1>1, <1>2, DiscoverAssumption DEF Bounded
<1> QED BY <1>3 DEF q

(* Pruning for API key s leaves the entries of that key that are in time.       *)
LEMMA PrunedKept ==
  ASSUME NEW s, Bounded(Current)
  PROVE  /\ Bounded(Pruned(s)) /\ DOMAIN Pruned(s).cache = Held \ Outdated(s)
         /\ \A k \in Held \ Outdated(s) : Pruned(s).cache[k].expiry = cache[k].expiry
<1>1. Pruned(s) = Without(Current, Outdated(s)) /\ Current.cache = cache
  BY DEF Pruned, Current
<1>2. Dictionary(Current)
  BY DEF Bounded
<1>3. /\ DOMAIN Without(Current, Outdated(s)).cache = DOMAIN Current.cache \ Outdated(s)
      /\ \A k \in DOMAIN Without(Current, Outdated(s)).cache :
           Without(Current, Outdated(s)).cache[k].expiry = Current.cache[k].expiry
  BY <1>2, WithoutKept
<1>4. Bounded(Without(Current, Outdated(s)))
  BY EvictionKept
<1> QED BY <1>1, <1>3, <1>4 DEF Held

(* What there is room for may be put.                                         *)
LEMMA PutBounded ==
  ASSUME NEW p, NEW k \in (Keys \cup TicketKeys) \ DOMAIN p.cache, NEW expiry \in Nat,
         NEW size \in {1, 2}, Dictionary(p), Fits(p, size)
  PROVE  LET q == Put(p, k, expiry, size)
         IN /\ Bounded(q) /\ DOMAIN q.cache = DOMAIN p.cache \cup {k}
            /\ \A j \in DOMAIN p.cache : q.cache[j] = p.cache[j]
<1> DEFINE q == Put(p, k, expiry, size)
<1>1. /\ Dictionary(q) /\ DOMAIN q.cache = DOMAIN p.cache \cup {k}
      /\ \A j \in DOMAIN p.cache : q.cache[j] = p.cache[j]
      /\ q.bytes = p.bytes + size
      /\ Cardinality(DOMAIN q.cache) = Cardinality(DOMAIN p.cache) + 1
  BY PutKept
<1>2. /\ p.bytes \in Nat /\ Cardinality(DOMAIN p.cache) \in Nat
      /\ Cardinality(DOMAIN p.cache) < CacheEntries /\ p.bytes + size <= CacheBytes
  BY BoundedCounts DEF Fits
<1> HIDE DEF q
<1>3. Bounded(q)
  BY <1>1, <1>2, DiscoverAssumption DEF Bounded
<1> QED BY <1>1, <1>3 DEF q

(* The cache becomes what a step set it to.                                    *)
LEMMA SetKept ==
  ASSUME NEW p, SetCache(p), Bounded(p)
  PROVE  Bounded(Current)' /\ Held' = DOMAIN p.cache
<1>1. Current'.cache = p.cache /\ Current'.bytes = p.bytes
  BY DEF SetCache, Current
<1> QED BY <1>1 DEF Bounded, Dictionary, SetCache, Held

(* A hit drops what is outdated and moves its entry to the end.                *)
LEMMA HitCache ==
  ASSUME TypeOK, Bounded(Current), NEW r \in Requests, LookHit(r)
  PROVE  /\ Bounded(Current)' /\ Held' = Held \ Outdated(scope)
         /\ \A k \in Held' : cache'[k].expiry = cache[k].expiry
<1> DEFINE p == Pruned(scope)
           q == [p EXCEPT !.cache = MovedToEnd(@, key[r])]
<1>1. key[r][1] = scope /\ key[r] \in DOMAIN p.cache /\ SetCache(q)
  BY DEF LookHit, Looks, Valid
<1>2. /\ Bounded(p) /\ DOMAIN p.cache = Held \ Outdated(scope)
      /\ \A k \in Held \ Outdated(scope) : p.cache[k].expiry = cache[k].expiry
  BY PrunedKept
<1>3. q.cache = MovedToEnd(p.cache, key[r]) /\ q.bytes = p.bytes
  BY DEF Pruned, Without
<1> HIDE DEF p, q
<1>4. /\ Dictionary(q) /\ DOMAIN q.cache = DOMAIN p.cache
      /\ \A j \in DOMAIN p.cache : q.cache[j].expiry = p.cache[j].expiry
  BY <1>1, <1>2, <1>3, MovedKept DEF Bounded
<1>5. Bounded(q)
  BY <1>2, <1>3, <1>4 DEF Bounded
<1> QED BY <1>1, <1>2, <1>4, <1>5, SetKept DEF SetCache

(* A step that only prunes.                                                    *)
LEMMA PruneCache ==
  ASSUME Bounded(Current), NEW s, SetCache(Pruned(s))
  PROVE  /\ Bounded(Current)' /\ Held' = Held \ Outdated(s)
         /\ \A k \in Held' : cache'[k].expiry = cache[k].expiry
BY PrunedKept, SetKept DEF SetCache

(* A copy weighs one unit or two.                                              *)
LEMMA WeightSize == \A x : Weight(x) \in {1, 2}
BY DEF Weight

(* Making room for a copy spares the tickets.                                  *)
LEMMA RoomForCopy ==
  ASSUME NEW p, NEW size, Bounded(p)
  PROVE  LET q == MadeRoom(p, size, FALSE)
         IN /\ Bounded(q) /\ DOMAIN q.cache \subseteq DOMAIN p.cache
            /\ \A k \in DOMAIN p.cache : IsTicket(k) => k \in DOMAIN q.cache
            /\ \A k \in DOMAIN q.cache : q.cache[k].expiry = p.cache[k].expiry
<1> DEFINE E == Evicted(p, size, FALSE)
           q == Without(p, E)
<1>1. Bounded(q) /\ Dictionary(p)
  BY EvictionKept DEF Bounded
<1>2. /\ DOMAIN q.cache = DOMAIN p.cache \ E
      /\ \A k \in DOMAIN q.cache : q.cache[k].expiry = p.cache[k].expiry
  BY <1>1, WithoutKept
<1>3. \A k \in E : ~IsTicket(k)
  BY DEF Evicted
<1> HIDE DEF E
<1>4. \A k \in DOMAIN p.cache : IsTicket(k) => k \in DOMAIN q.cache
  BY <1>2, <1>3
<1>5. q = MadeRoom(p, size, FALSE)
  BY DEF MadeRoom, E
<1> HIDE DEF q
<1> QED BY <1>1, <1>2, <1>4, <1>5

(* A ticket goes after the last copy.                                         *)
LEMMA RoomForTicket ==
  ASSUME NEW p, NEW size \in {1, 2}, Bounded(p)
  PROVE  LET q == MadeRoom(p, size, TRUE)
         IN /\ Bounded(q) /\ Fits(q, size) /\ DOMAIN q.cache \subseteq DOMAIN p.cache
            /\ \A k \in DOMAIN q.cache : q.cache[k].expiry = p.cache[k].expiry
            /\ \A k \in DOMAIN p.cache : IsTicket(k) =>
                 \/ k \in DOMAIN q.cache
                 \/ \A j \in DOMAIN q.cache : IsTicket(j)
<1> DEFINE E == Evicted(p, size, TRUE)
           q == Without(p, E)
           Before(k) == Ahead(p.cache, k)
<1>1. Bounded(q) /\ Dictionary(p) /\ size \in Nat
  <2>1. Dictionary(p) /\ size \in Nat
    BY DEF Bounded
  <2> QED BY <2>1, EvictionKept
<1>2. /\ DOMAIN q.cache = DOMAIN p.cache \ E
      /\ \A k \in DOMAIN q.cache : q.cache[k].expiry = p.cache[k].expiry
  BY <1>1, WithoutKept
<1>3. E = {k \in DOMAIN p.cache : ~Fits(Without(p, Before(k)), size)}
  BY DEF Evicted
<1>4. ASSUME NEW k \in DOMAIN p.cache, IsTicket(k), k \in E, NEW j \in DOMAIN p.cache, ~IsTicket(j)
      PROVE  j \in E
  <2>1. Before(j) \subseteq Before(k)
    BY <1>4 DEF Ahead
  <2>2. ~Fits(Without(p, Before(k)), size)
    BY <1>3, <1>4
  <2> HIDE DEF Before
  <2>3. ~Fits(Without(p, Before(j)), size)
    BY <1>1, <2>1, <2>2, MoreRoom
  <2> QED BY <1>3, <2>3
<1>5. q = MadeRoom(p, size, TRUE)
  BY DEF MadeRoom
<1>6. Fits(MadeRoom(p, size, TRUE), size)
  BY <1>1, RoomMade
<1> HIDE DEF E, q
<1>7. \A k \in DOMAIN p.cache : IsTicket(k) =>
        k \in DOMAIN q.cache \/ \A j \in DOMAIN q.cache : IsTicket(j)
  BY <1>2, <1>4
<1> QED BY <1>1, <1>2, <1>5, <1>6, <1>7

(* A flight that is not late stores what is not there yet.                    *)
LEMMA StoreCache ==
  ASSUME DownloadInv, CacheInv, NEW f \in Requests, FetchStores(f)
  PROVE  /\ Bounded(Current)' /\ Held' \subseteq Held \cup {key[f]}
         /\ inflight[key[f]] = f
         /\ \A k \in Held : IsTicket(k) /\ k \notin Outdated(scope) =>
              k \in Held' /\ cache'[k].expiry = cache[k].expiry
<1> DEFINE size == Weight(key[f][2])
           p == Pruned(scope)
           q == MadeRoom(p, size, FALSE)
<1>1. /\ thread[f] = "back" /\ ~(now >= until[f]) /\ key[f] \in Keys /\ now \in Nat /\ until[f] \in Nat
      /\ key[f][1] = scope
  BY DEF FetchStores, Late, Valid, DownloadInv, TypeOK
<1>2. \/ SetCache(q)
      \/ Fits(q, size) /\ \E life \in 1..CacheTtl : SetCache(Put(q, key[f], now + life, size))
  BY <1>1 DEF FetchStores
<1>3. f \notin abandoned /\ inflight[key[f]] = f
  BY <1>1 DEF CacheInv, AbandonedAreLate, DownloadInv, SlotsKept, Unended, Running
<1>4. key[f] \notin Held /\ ~IsTicket(key[f])
  BY <1>1, <1>3, KeysApart DEF CacheInv, UnreturnedUnstored, Unreturned, IsTicket
<1>5. /\ Bounded(p) /\ DOMAIN p.cache = Held \ Outdated(scope)
      /\ \A k \in Held \ Outdated(scope) : p.cache[k].expiry = cache[k].expiry
  BY PrunedKept DEF CacheInv
<1>6. size \in {1, 2}
  BY WeightSize
<1> HIDE DEF p, size
<1>7. /\ Bounded(q) /\ DOMAIN q.cache \subseteq DOMAIN p.cache
      /\ \A k \in DOMAIN p.cache : IsTicket(k) => k \in DOMAIN q.cache
      /\ \A k \in DOMAIN q.cache : q.cache[k].expiry = p.cache[k].expiry
  BY <1>5, RoomForCopy
<1> HIDE DEF q
<1>8. CASE SetCache(q)
  BY <1>3, <1>5, <1>7, <1>8, SetKept DEF SetCache
<1>9. ASSUME Fits(q, size), NEW life \in 1..CacheTtl, SetCache(Put(q, key[f], now + life, size))
      PROVE  /\ Bounded(Current)' /\ Held' \subseteq Held \cup {key[f]}
             /\ \A k \in Held : IsTicket(k) /\ k \notin Outdated(scope) =>
                  k \in Held' /\ cache'[k].expiry = cache[k].expiry
  <2> DEFINE n == Put(q, key[f], now + life, size)
  <2>1. now + life \in Nat /\ key[f] \in (Keys \cup TicketKeys) \ DOMAIN q.cache /\ Dictionary(q)
    BY <1>1, <1>4, <1>5, <1>7, DiscoverAssumption DEF Bounded
  <2>2. /\ Bounded(n) /\ DOMAIN n.cache = DOMAIN q.cache \cup {key[f]}
        /\ \A j \in DOMAIN q.cache : n.cache[j] = q.cache[j]
    BY <1>6, <1>9, <2>1, PutBounded
  <2> HIDE DEF n
  <2>3. SetCache(n)
    BY <1>9 DEF n
  <2>4. Bounded(Current)' /\ Held' = DOMAIN n.cache /\ cache' = n.cache
    BY <2>2, <2>3, SetKept DEF SetCache
  <2> QED BY <1>4, <1>5, <1>7, <2>2, <2>4
<1> QED BY <1>2, <1>3, <1>8, <1>9

(* A ticket that is kept is new, and drops another only after the last copy.    *)
LEMMA TicketCache ==
  ASSUME DownloadInv, CacheInv, NEW r \in Requests, StoreTicket(r)
  PROVE  /\ Bounded(Current)' /\ Held' \subseteq Held \cup {TicketKey(r)}
         /\ key[r][1] = scope =>
              \A k \in Held : IsTicket(k) /\ k \notin Outdated(scope) =>
                 \/ k \in Held' /\ cache'[k].expiry = cache[k].expiry
                 \/ ~(Tickets' \subseteq Tickets) /\ Held' = Tickets'
<1> DEFINE size == Weight(key[r][2])
           t == TicketKey(r)
           p == Pruned(key[r][1])
           w == Without(p, {t})
           q == MadeRoom(w, size, TRUE)
           n == Put(q, t, now + TicketTtl, size)
<1>1. stage[r] = "storing" /\ SetCache(n) /\ now + TicketTtl \in Nat /\ key[r] \in Keys
  <2>1. stage[r] = "storing" /\ SetCache(n)
    BY DEF StoreTicket
  <2>2. now \in Nat /\ TicketTtl \in Nat /\ key[r] \in Keys
    BY DiscoverAssumption DEF DownloadInv, TypeOK
  <2> HIDE DEF n
  <2> QED BY <2>1, <2>2
<1>2. t \in TicketKeys /\ IsTicket(t) /\ t[2] = r
  BY <1>1 DEF TicketKey, TicketKeys, IsTicket, Keys
<1>3. t \notin Held
  BY <1>1, <1>2 DEF CacheInv, TicketsServed
<1>4. /\ Bounded(p) /\ DOMAIN p.cache = Held \ Outdated(key[r][1])
      /\ \A k \in Held \ Outdated(key[r][1]) : p.cache[k].expiry = cache[k].expiry
  BY PrunedKept DEF CacheInv
<1>5. size \in {1, 2}
  BY WeightSize
<1> HIDE DEF p, size
<1>6. Bounded(w) /\ DOMAIN w.cache = DOMAIN p.cache \ {t}
      /\ \A k \in DOMAIN w.cache : w.cache[k].expiry = p.cache[k].expiry
  <2>1. Dictionary(p) /\ Bounded(w)
    BY <1>4, EvictionKept DEF Bounded
  <2> QED BY <2>1, WithoutKept
<1> HIDE DEF w
<1>7. /\ Bounded(q) /\ Fits(q, size) /\ DOMAIN q.cache \subseteq DOMAIN w.cache
      /\ \A k \in DOMAIN q.cache : q.cache[k].expiry = w.cache[k].expiry
      /\ \A k \in DOMAIN w.cache : IsTicket(k) =>
           k \in DOMAIN q.cache \/ \A j \in DOMAIN q.cache : IsTicket(j)
  BY <1>5, <1>6, RoomForTicket
<1> HIDE DEF q
<1>8. t \in (Keys \cup TicketKeys) \ DOMAIN q.cache /\ Dictionary(q)
  BY <1>2, <1>6, <1>7 DEF Bounded
<1> HIDE DEF t
<1>9. /\ Bounded(n) /\ DOMAIN n.cache = DOMAIN q.cache \cup {t}
      /\ \A j \in DOMAIN q.cache : n.cache[j] = q.cache[j]
  BY <1>1, <1>5, <1>7, <1>8, PutBounded
<1> HIDE DEF n
<1>10. Bounded(Current)' /\ Held' = DOMAIN q.cache \cup {t} /\ cache' = n.cache
  BY <1>1, <1>9, SetKept DEF SetCache
<1>11. Held' \subseteq Held \cup {t} /\ t \in Held'
  BY <1>4, <1>6, <1>7, <1>10
<1>12. ASSUME key[r][1] = scope, NEW k \in Held, IsTicket(k), k \notin Outdated(scope)
       PROVE  \/ k \in Held' /\ cache'[k].expiry = cache[k].expiry
              \/ ~(Tickets' \subseteq Tickets) /\ Held' = Tickets'
  <2>1. k \in DOMAIN w.cache /\ w.cache[k].expiry = cache[k].expiry
    BY <1>3, <1>4, <1>6, <1>12
  <2>2. CASE k \in DOMAIN q.cache
    BY <1>7, <1>9, <1>10, <2>1, <2>2
  <2>3. CASE \A j \in DOMAIN q.cache : IsTicket(j)
    BY <1>2, <1>3, <1>10, <1>11, <2>3 DEF Tickets
  <2> QED BY <1>7, <1>12, <2>1, <2>2, <2>3
<1> QED BY <1>10, <1>11, <1>12 DEF t

-----------------------------------------------------------------------------
(* The steps that leave the cache alone, but for what they may prune.          *)
LEMMA CacheKept ==
  ASSUME Bounded(Current), UNCHANGED cacheVars
  PROVE  Bounded(Current)' /\ Held' = Held /\ cache' = cache
<1>1. cache' = cache /\ bytes' = bytes
  BY DEF cacheVars
<1>2. SetCache(Current)
  BY <1>1 DEF SetCache, Current
<1> QED BY <1>1, <1>2, SetKept DEF Held

(* Who puts what: only a flight that returned and a job that keeps its file.    *)
LEMMA CacheStep ==
  ASSUME DownloadInv, CacheInv, [Next]_vars
  PROVE  /\ Bounded(Current)'
         /\ \/ Held' \subseteq Held
            \/ \E f \in Requests :
                 FetchStores(f) /\ inflight[key[f]] = f /\ Held' \subseteq Held \cup {key[f]}
            \/ \E r \in Requests : StoreTicket(r) /\ Held' \subseteq Held \cup {TicketKey(r)}
<1>0. TypeOK /\ Bounded(Current)
  BY DEF DownloadInv, CacheInv
<1>1. ASSUME UNCHANGED cacheVars
      PROVE  Bounded(Current)' /\ Held' \subseteq Held
  BY <1>0, <1>1, CacheKept
<1>2. ASSUME NEW s, SetCache(Pruned(s))
      PROVE  Bounded(Current)' /\ Held' \subseteq Held
  BY <1>0, <1>2, PruneCache
<1>3. ASSUME NEW r \in Requests, RequestStep(r)
      PROVE  Bounded(Current)' /\ Held' \subseteq Held
  <2>1. CASE LookHit(r)
    BY <1>0, <2>1, HitCache
  <2>2. CASE LookJoins(r) \/ LookBusy(r) \/ LookStarts(r)
    <3>1. SetCache(Pruned(key[r][1]))
      BY <2>2 DEF LookJoins, LookBusy, LookStarts, LookMisses
    <3> QED BY <3>1, <1>2
  <2>3. CASE LookRefused(r) \/ WaitTimesOut(r) \/ WaitAnswered(r) \/ Deliver(r)
    BY <1>1, <2>3 DEF LookRefused, WaitTimesOut, WaitAnswered, Deliver
  <2> QED BY <1>3, <2>1, <2>2, <2>3 DEF RequestStep
<1>4. ASSUME NEW r \in Requests, Begin(r) \/ JobStopped(r)
      PROVE  Bounded(Current)' /\ Held' \subseteq Held
  BY <1>1, <1>4 DEF Begin, JobStopped
<1>5. ASSUME NEW f \in Requests,
             FetchFails(f) \/ FetchReturns(f) \/ FetchLockedOut(f) \/ FetchTooLate(f) \/ FetchEnds(f)
      PROVE  Bounded(Current)' /\ Held' \subseteq Held
  BY <1>1, <1>5 DEF FetchFails, FetchReturns, FetchLockedOut, FetchTooLate, FetchEnds
<1>6. ASSUME NEW s \in Scopes, Save(s)
      PROVE  Bounded(Current)' /\ Held' \subseteq Held
  BY <1>2, <1>6 DEF Save
<1>7. ASSUME World \/ UNCHANGED vars
      PROVE  Bounded(Current)' /\ Held' \subseteq Held
  <2>1. UNCHANGED cacheVars
    BY <1>7 DEF World, Tick, Rotate, Expire, CopyChanges, vars
  <2> QED BY <1>1, <2>1
<1> QED BY <1>3, <1>4, <1>5, <1>6, <1>7, StoreCache, TicketCache
        DEF Next, TicketStep, FlightStep, FlightReturned

(* Nobody extends the time of a flight that was given up.                      *)
LEMMA LateStep ==
  ASSUME DownloadInv, CacheInv, [Next]_vars
  PROVE  AbandonedAreLate'
<1>0. /\ TypeOK /\ now \in Nat /\ now' \in Nat /\ now <= now' /\ \A f \in abandoned : until[f] <= now
      /\ abandoned \subseteq Requests /\ until \in [Requests -> Nat]
  <2>1. TypeOK /\ AbandonedAreLate
    BY DEF DownloadInv, CacheInv
  <2>2. now' = now \/ now' = now + 1
    BY DEF Next, RequestStep, TicketStep, FlightStep, FlightReturned, Begin, LookRefused, LookHit,
        LookMisses, LookJoins, LookBusy, LookStarts, WaitTimesOut, WaitAnswered, Deliver, JobStopped,
        StoreTicket, FetchFails, FetchReturns, FetchLockedOut, FetchTooLate, FetchStores, FetchEnds,
        FetchUnchanged, Save, World, Tick, Rotate, Expire, CopyChanges, vars, worldVars
  <2> QED BY <2>1, <2>2 DEF TypeOK, AbandonedAreLate
<1>1. ASSUME abandoned' \subseteq abandoned \cup Retired, UNCHANGED now,
             \A f \in abandoned \cup Retired : f \in abandoned' => until'[f] = until[f]
      PROVE  AbandonedAreLate'
  <2>1. \A f \in Retired : until[f] <= now
    BY DEF Retired, Stale
  <2> QED BY <1>0, <1>1, <2>1 DEF AbandonedAreLate
<1>2. ASSUME NEW r \in Requests, LookJoins(r) PROVE AbandonedAreLate'
  <2> DEFINE f == Kept[key[r]]
  <2>1. /\ abandoned' = abandoned \cup Retired /\ now' = now /\ f # None /\ key[r] \in Keys
        /\ until' = [until EXCEPT ![f] = IF @ >= due[r] THEN @ ELSE due[r]]
    BY <1>0, <1>2 DEF LookJoins, LookMisses, worldVars, TypeOK
  <2>2. f = inflight[key[r]] /\ f \notin Retired /\ Retired \subseteq Requests
    BY <2>1, RetiredFacts
  <2>3. f \notin abandoned
    BY <2>1, <2>2 DEF DownloadInv, SlotsKept
  <2> HIDE DEF f
  <2> QED BY <1>0, <1>1, <2>1, <2>2, <2>3
<1>3. ASSUME NEW r \in Requests, LookStarts(r) PROVE AbandonedAreLate'
  <2>1. /\ abandoned' = abandoned \cup Retired /\ now' = now /\ stage[r] = "asked"
        /\ until' = [until EXCEPT ![r] = due[r]]
    BY <1>3 DEF LookStarts, LookMisses, Looks, worldVars
  <2>2. thread[r] \notin Unended
    BY <2>1 DEF DownloadInv, SlotsKept, Unended, Running
  <2>3. r \notin abandoned \cup Retired /\ Retired \subseteq Requests
    BY <2>2, RetiredFacts DEF DownloadInv, SlotsKept
  <2> QED BY <1>0, <1>1, <2>1, <2>3
<1>4. ASSUME NEW r \in Requests, LookBusy(r) PROVE AbandonedAreLate'
  BY <1>1, <1>4 DEF LookBusy, LookMisses, worldVars, flightVars
<1>5. ASSUME NEW f \in Requests, FetchEnds(f) PROVE AbandonedAreLate'
  <2>1. abandoned' = abandoned \ {f} /\ until' = [until EXCEPT ![f] = 0] /\ now' = now
    BY <1>5 DEF FetchEnds, worldVars
  <2> QED BY <1>0, <2>1 DEF AbandonedAreLate
<1>6. ASSUME UNCHANGED <<abandoned, until>> PROVE AbandonedAreLate'
  BY <1>0, <1>6 DEF AbandonedAreLate
<1>7. ASSUME NEW r \in Requests, RequestStep(r) PROVE AbandonedAreLate'
  BY <1>2, <1>3, <1>4, <1>6, <1>7
  DEF RequestStep, LookRefused, LookHit, WaitTimesOut, WaitAnswered, Deliver, slotVars, flightVars
<1>8. ASSUME NEW r \in Requests, Begin(r) \/ TicketStep(r) PROVE AbandonedAreLate'
  BY <1>6, <1>8 DEF Begin, TicketStep, JobStopped, StoreTicket, slotVars, flightVars
<1>9. ASSUME NEW f \in Requests, FlightStep(f) PROVE AbandonedAreLate'
  BY <1>5, <1>6, <1>9
  DEF FlightStep, FlightReturned, FetchFails, FetchReturns, FetchLockedOut, FetchTooLate, FetchStores,
      FetchUnchanged, slotVars
<1>10. ASSUME (\E s \in Scopes : Save(s)) \/ World \/ UNCHANGED vars PROVE AbandonedAreLate'
  BY <1>6, <1>10 DEF Save, World, Tick, Rotate, Expire, CopyChanges, vars, slotVars, flightVars
<1> QED BY <1>7, <1>8, <1>9, <1>10 DEF Next

(* A step that starts no flight, and puts nothing but what the flight in its    *)
(* slot returned or a ticket, leaves what is yet to come unstored.             *)
LEMMA UnstoredGoesOn ==
  ASSUME DownloadInv, CacheInv, [Next]_vars,
         \A f \in Requests : thread'[f] \in Unreturned =>
           thread[f] \in Unreturned /\ key'[f] = key[f] /\ ~FetchStores(f),
         \A k \in Keys : inflight'[k] \in {inflight[k], None}
  PROVE  UnreturnedUnstored'
<1> SUFFICES ASSUME NEW f \in Requests, thread'[f] \in Unreturned, inflight'[key'[f]] = f
             PROVE  key'[f] \notin Held'
  BY DEF UnreturnedUnstored
<1>1. key[f] \in Keys /\ f # None /\ key'[f] = key[f] /\ thread[f] \in Unreturned /\ ~FetchStores(f)
  BY DiscoverAssumption DEF DownloadInv, TypeOK
<1>2. inflight[key[f]] = f
  BY <1>1
<1>3. key[f] \notin Held /\ key[f] \notin TicketKeys
  BY <1>1, <1>2, KeysApart DEF CacheInv, UnreturnedUnstored
<1>4. ASSUME NEW g \in Requests, FetchStores(g), inflight[key[g]] = g PROVE key[g] # key[f]
  BY <1>1, <1>2, <1>4
<1>5. ASSUME NEW r \in Requests PROVE TicketKey(r) \in TicketKeys
  BY DEF TicketKey, TicketKeys, Keys, DownloadInv, TypeOK
<1>6. key[f] \notin Held'
  BY <1>3, <1>4, <1>5, CacheStep
<1> QED BY <1>1, <1>6

(* A flight starts only where the cache has nothing for its key.               *)
LEMMA UnstoredStep ==
  ASSUME DownloadInv, CacheInv, [Next]_vars
  PROVE  UnreturnedUnstored'
<1>0. TypeOK /\ \A k \in Keys : Kept[k] \in {inflight[k], None}
  BY DEF DownloadInv, Kept
<1>1. ASSUME NEW r \in Requests, LookStarts(r) PROVE UnreturnedUnstored'
  <2>1. /\ SetCache(Pruned(key[r][1])) /\ key[r] \notin DOMAIN Pruned(key[r][1]).cache
        /\ key' = key /\ inflight' = [Kept EXCEPT ![key[r]] = r]
        /\ thread' \in {[thread EXCEPT ![r] = "calling"], [thread EXCEPT ![r] = "stillborn"]}
    BY <1>1 DEF LookStarts, LookMisses, Move
  <2>2. Held' \subseteq Held /\ key[r] \notin Held'
    BY <2>1, PruneCache DEF CacheInv, SetCache, Held
  <2>3. \A f \in Requests : f # r => thread'[f] = thread[f]
    BY <1>0, <2>1 DEF TypeOK
  <2>4. ASSUME NEW f \in Requests, f # r, thread'[f] \in Unreturned, inflight'[key[f]] = f
        PROVE  key[f] \notin Held'
    <3>1. key[f] \in Keys /\ key[r] \in Keys /\ f # None /\ inflight \in [Keys -> Requests \cup {None}]
      BY <1>0, DiscoverAssumption DEF TypeOK
    <3>2. Kept[key[f]] = f
      BY <2>1, <2>4, <3>1 DEF Kept
    <3>3. inflight[key[f]] = f
      BY <1>0, <3>1, <3>2
    <3> QED BY <2>2, <2>3, <2>4, <3>3 DEF CacheInv, UnreturnedUnstored
  <2> QED BY <2>1, <2>2, <2>4 DEF UnreturnedUnstored
<1>2. ASSUME NEW r \in Requests, Begin(r) PROVE UnreturnedUnstored'
  <2>1. /\ stage[r] = "idle" /\ inflight' = inflight /\ thread' = thread
        /\ key' = [key EXCEPT ![r] = <<scope, key[r][2]>>]
    BY <1>2 DEF Begin, slotVars, flightVars
  <2>2. thread[r] = "none"
    BY <2>1 DEF DownloadInv, SlotsKept
  <2>3. \A f \in Requests : thread'[f] \in Unreturned => f # r /\ key'[f] = key[f] /\ ~FetchStores(f)
    <3>1. \A f \in Requests : FetchStores(f) => thread'[f] = "closing"
      BY <1>0 DEF FetchStores, Move, TypeOK
    <3> QED BY <1>0, <2>1, <2>2, <3>1 DEF TypeOK, Unreturned
  <2> QED BY <2>1, <2>3, UnstoredGoesOn
<1>3. ASSUME UNCHANGED key, \A k \in Keys : inflight'[k] \in {inflight[k], None},
             \A f \in Requests : thread'[f] \in Unreturned => thread[f] \in Unreturned
      PROVE  UnreturnedUnstored'
  <2>1. \A f \in Requests : FetchStores(f) => thread'[f] = "closing"
    BY <1>0 DEF FetchStores, Move, TypeOK
  <2> QED BY <1>3, <2>1, UnstoredGoesOn DEF Unreturned
<1>4. ASSUME NEW r \in Requests, RequestStep(r) \/ TicketStep(r), ~LookStarts(r)
      PROVE  UnreturnedUnstored'
  <2>1. key' = key /\ thread' = thread /\ (inflight' = inflight \/ inflight' = Kept)
    BY <1>4
    DEF RequestStep, TicketStep, LookRefused, LookHit, LookMisses, LookJoins, LookBusy, WaitTimesOut,
        WaitAnswered, Deliver, JobStopped, StoreTicket, slotVars, flightVars
  <2>2. \A k \in Keys : inflight'[k] \in {inflight[k], None}
    BY <1>0, <2>1
  <2> QED BY <1>3, <2>1, <2>2
<1>5. ASSUME NEW f \in Requests, FlightStep(f) PROVE UnreturnedUnstored'
  <2>1. /\ key' = key /\ (inflight' = inflight \/ inflight' = OutOfSlot(f))
        /\ \E where \in {"closing", "back", "ended"} : thread' = [thread EXCEPT ![f] = where]
        /\ thread' = [thread EXCEPT ![f] = "back"] => thread[f] = "calling"
    <3>1. CASE FetchReturns(f)
      BY <3>1 DEF FetchReturns, FetchUnchanged, Move, slotVars, requestVars
    <3>2. CASE FetchFails(f) \/ FetchLockedOut(f) \/ FetchTooLate(f) \/ FetchStores(f)
      <4>1. thread' = [thread EXCEPT ![f] = "closing"] /\ key' = key /\ inflight' = inflight
        BY <3>2 DEF FetchFails, FetchLockedOut, FetchTooLate, FetchStores, FetchUnchanged, Move, slotVars,
                    requestVars
      <4>2. thread' # [thread EXCEPT ![f] = "back"]
        <5>1. thread'[f] = "closing"
          BY <1>0, <4>1 DEF TypeOK
        <5>2. [thread EXCEPT ![f] = "back"][f] = "back"
          BY <1>0 DEF TypeOK
        <5> QED BY <5>1, <5>2
      <4> QED BY <4>1, <4>2
    <3>3. CASE FetchEnds(f)
      <4>1. thread' = [thread EXCEPT ![f] = "ended"] /\ key' = key /\ inflight' = OutOfSlot(f)
        BY <3>3 DEF FetchEnds, Move, requestVars
      <4>2. thread' # [thread EXCEPT ![f] = "back"]
        <5>1. thread'[f] = "ended"
          BY <1>0, <4>1 DEF TypeOK
        <5>2. [thread EXCEPT ![f] = "back"][f] = "back"
          BY <1>0 DEF TypeOK
        <5> QED BY <5>1, <5>2
      <4> QED BY <4>1, <4>2
    <3> QED BY <1>5, <3>1, <3>2, <3>3 DEF FlightStep, FlightReturned
  <2>2. \A k \in Keys : inflight'[k] \in {inflight[k], None}
    BY <1>0, <2>1 DEF OutOfSlot, TypeOK
  <2>3. ASSUME NEW g \in Requests, thread'[g] \in Unreturned PROVE thread[g] \in Unreturned
    BY <1>0, <2>1, <2>3 DEF TypeOK, Unreturned
  <2> QED BY <1>3, <2>1, <2>2, <2>3
<1>6. ASSUME (\E s \in Scopes : Save(s)) \/ World \/ UNCHANGED vars PROVE UnreturnedUnstored'
  <2>1. key' = key /\ thread' = thread /\ inflight' = inflight
    BY <1>6 DEF Save, World, Tick, Rotate, Expire, CopyChanges, vars, slotVars, flightVars, requestVars
  <2> QED BY <1>3, <2>1
<1> QED BY <1>1, <1>2, <1>4, <1>5, <1>6 DEF Next

(* A request that was served stays so, and so does its ticket's.               *)
LEMMA ServedStep ==
  ASSUME DownloadInv, CacheInv, [Next]_vars
  PROVE  TicketsServed'
<1>0. TypeOK /\ key \in [Requests -> Keys] /\ \A k \in TicketKeys : k[2] \in Requests
  BY DEF DownloadInv, TypeOK, TicketKeys
<1>1. ASSUME NEW q \in Requests, stage[q] = "served" PROVE stage'[q] = "served"
  <2>1. ASSUME NEW r \in Requests, Begin(r) \/ RequestStep(r) \/ TicketStep(r)
        PROVE  stage[r] # "served" /\ \E where : stage' = [stage EXCEPT ![r] = where]
    <3>1. \A where : Goto(r, where) => stage' = [stage EXCEPT ![r] = where]
      BY DEF Goto
    <3>2. \A f : WaitFor(r, f) => stage' = [stage EXCEPT ![r] = "waiting"]
      BY DEF WaitFor
    <3> QED BY <2>1, <3>1, <3>2
        DEF Begin, RequestStep, TicketStep, LookRefused, LookHit, LookMisses, LookJoins, LookBusy,
            LookStarts, Looks, WaitTimesOut, WaitAnswered, Deliver, JobStopped, StoreTicket
  <2>2. \/ \E f \in Requests : FlightStep(f)
        \/ \E s \in Scopes : Save(s)
        \/ World \/ UNCHANGED vars
        => stage' = stage
    BY DEF FlightStep, FlightReturned, FetchFails, FetchReturns, FetchLockedOut, FetchTooLate, FetchStores,
        FetchEnds, FetchUnchanged, Save, World, Tick, Rotate, Expire, CopyChanges, vars, requestVars
  <2>3. ASSUME NEW r \in Requests, Begin(r) \/ RequestStep(r) \/ TicketStep(r)
        PROVE  stage'[q] = "served"
    BY <1>0, <1>1, <2>1, <2>3 DEF TypeOK
  <2> QED BY <1>1, <2>2, <2>3 DEF Next
<1>2. ASSUME NEW r \in Requests, StoreTicket(r) PROVE stage'[r] = "served" /\ TicketKey(r)[2] = r
  BY <1>0, <1>2 DEF StoreTicket, Goto, TypeOK, TicketKey
<1>3. ASSUME NEW f \in Requests PROVE ~IsTicket(key[f])
  BY <1>0, KeysApart DEF IsTicket
<1>4. \A k \in Held' : IsTicket(k) => k \in Held \/ \E r \in Requests : StoreTicket(r) /\ k = TicketKey(r)
  BY <1>3, CacheStep
<1> QED BY <1>0, <1>1, <1>2, <1>4 DEF TicketsServed, CacheInv, IsTicket

-----------------------------------------------------------------------------
(* The cache stays in its order and its limits, and what is in it belongs to    *)
(* who put it there.                                                          *)
THEOREM CacheInvariant == Spec => []CacheInv
<1>1. Init => CacheInv
  <2> SUFFICES ASSUME Init PROVE CacheInv
    OBVIOUS
  <2>1. DOMAIN cache = {} /\ bytes = 0 /\ abandoned = {} /\ inflight = [k \in Keys |-> None]
    BY DEF Init
  <2>2. Cardinality({}) = 0 /\ IsFiniteSet({}) /\ \A k \in {} : cache[k].size # 2
    BY FS_EmptySet
  <2>3. {k \in {} : cache[k].size = 2} = {}
    OBVIOUS
  <2>4. Weighs(cache, {}) = 0
    BY <2>2, <2>3 DEF Weighs
  <2>5. Current.cache = cache /\ Current.bytes = bytes
    BY DEF Current
  <2>6. Bounded(Current)
    BY <2>1, <2>2, <2>4, <2>5, DiscoverAssumption DEF Bounded, Dictionary
  <2>7. UnreturnedUnstored /\ TicketsServed /\ AbandonedAreLate
    BY <2>1 DEF UnreturnedUnstored, TicketsServed, AbandonedAreLate, Held
  <2> QED BY <2>6, <2>7 DEF CacheInv
<1>2. DownloadInv /\ CacheInv /\ [Next]_vars => CacheInv'
  BY CacheStep, LateStep, UnstoredStep, ServedStep DEF CacheInv
<1> QED BY <1>1, <1>2, DownloadInvariant, PTL DEF Spec

(* The count of bytes is what the cache weighs, and entries and bytes keep to   *)
(* CACHE_MAX_ENTRIES and CACHE_MAX_BYTES, for any number of flights that return  *)
(* in any order (_prune, _make_room, _fetch, _store_ticket).                   *)
THEOREM BytesAreCounted == Spec => []BytesCounted
<1>1. CacheInv => BytesCounted
  BY DEF CacheInv, Bounded, Dictionary, Current, BytesCounted, Held
<1> QED BY <1>1, CacheInvariant, PTL

(* What a step may do to a ticket.                                             *)
LEMMA TicketsStep ==
  ASSUME DownloadInv, CacheInv, [Next]_vars, NEW k \in Tickets
  PROVE  \/ k \in Held' /\ cache'[k].expiry = cache[k].expiry
         \/ cache[k].expiry <= now \/ k[1] # scope
         \/ ~(Tickets' \subseteq Tickets) /\ Held' = Tickets'
         \/ OldKeyStep
<1> DEFINE Stays == k \in Held' /\ cache'[k].expiry = cache[k].expiry
<1>0. TypeOK /\ Bounded(Current) /\ k \in Held /\ IsTicket(k)
  BY DEF DownloadInv, CacheInv, Tickets
<1> SUFFICES ASSUME k \notin Outdated(scope)
             PROVE  Stays \/ (~(Tickets' \subseteq Tickets) /\ Held' = Tickets') \/ OldKeyStep
  BY <1>0 DEF Outdated
<1>1. ASSUME UNCHANGED cacheVars PROVE Stays
  BY <1>0, <1>1, CacheKept
<1>2. ASSUME SetCache(Pruned(scope)) PROVE Stays
  BY <1>0, <1>2, PruneCache
<1>3. ASSUME NEW r \in Requests, RequestStep(r) PROVE Stays
  <2>1. CASE LookHit(r)
    BY <1>0, <2>1, HitCache
  <2>2. CASE LookJoins(r) \/ LookBusy(r) \/ LookStarts(r)
    <3>1. SetCache(Pruned(scope))
      BY <2>2 DEF LookJoins, LookBusy, LookStarts, LookMisses, Looks, Valid
    <3> QED BY <3>1, <1>2
  <2>3. CASE LookRefused(r) \/ WaitTimesOut(r) \/ WaitAnswered(r) \/ Deliver(r)
    BY <1>1, <2>3 DEF LookRefused, WaitTimesOut, WaitAnswered, Deliver
  <2> QED BY <1>3, <2>1, <2>2, <2>3 DEF RequestStep
<1>4. ASSUME NEW r \in Requests, Begin(r) \/ JobStopped(r) PROVE Stays
  BY <1>1, <1>4 DEF Begin, JobStopped
<1>5. ASSUME NEW r \in Requests, StoreTicket(r)
      PROVE  Stays \/ (~(Tickets' \subseteq Tickets) /\ Held' = Tickets') \/ OldKeyStep
  <2>1. CASE key[r][1] = scope
    BY <1>0, <1>5, <2>1, TicketCache
  <2>2. CASE key[r][1] # scope
    <3>1. stage[r] = "storing" /\ stage'[r] # "storing"
      BY <1>0, <1>5 DEF StoreTicket, Goto, TypeOK
    <3> QED BY <2>2, <3>1 DEF OldKeyStep
  <2> QED BY <2>1, <2>2
<1>6. ASSUME NEW f \in Requests, FlightStep(f) PROVE Stays
  <2>1. CASE FetchStores(f)
    BY <1>0, <2>1, StoreCache
  <2>2. CASE FetchFails(f) \/ FetchReturns(f) \/ FetchLockedOut(f) \/ FetchTooLate(f) \/ FetchEnds(f)
    BY <1>1, <2>2 DEF FetchFails, FetchReturns, FetchLockedOut, FetchTooLate, FetchEnds
  <2> QED BY <1>6, <2>1, <2>2 DEF FlightStep, FlightReturned
<1>7. ASSUME NEW s \in Scopes, Save(s) PROVE Stays \/ OldKeyStep
  <2>1. CASE s = scope
    BY <1>2, <1>7, <2>1 DEF Save
  <2>2. CASE s # scope
    <3>1. s \in 0..scope
      BY <1>0, <1>7, DiscoverAssumption DEF Save, TypeOK, Scopes
    <3> QED BY <1>7, <2>2, <3>1 DEF OldKeyStep
  <2> QED BY <2>1, <2>2
<1>8. ASSUME World \/ UNCHANGED vars PROVE Stays
  <2>1. UNCHANGED cacheVars
    BY <1>8 DEF World, Tick, Rotate, Expire, CopyChanges, vars
  <2> QED BY <1>1, <2>1
<1> HIDE DEF Stays
<1>9. CASE Next
  BY <1>3, <1>4, <1>5, <1>6, <1>7, <1>8, <1>9 DEF Next, TicketStep
<1>10. CASE UNCHANGED vars
  BY <1>8, <1>10
<1> QED BY <1>9, <1>10

(* A finished download stays to be saved until it expires, its key changes or   *)
(* newer ones need the room after the last copy, for any number of requests and  *)
(* any sizes of the cache (_make_room, _store_ticket, fetch_ticket).           *)
THEOREM TicketsStay == Spec => TicketsKept
<1>1. DownloadInv /\ CacheInv /\ [Next]_vars =>
        [\A k \in Tickets :
           \/ k \in Held' /\ cache'[k].expiry = cache[k].expiry
           \/ cache[k].expiry <= now \/ k[1] # scope
           \/ ~(Tickets' \subseteq Tickets) /\ Held' = Tickets'
           \/ OldKeyStep]_vars
  BY TicketsStep
<1> QED BY <1>1, DownloadInvariant, CacheInvariant, PTL DEF Spec, TicketsKept
=============================================================================
