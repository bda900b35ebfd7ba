--------------------------- MODULE DiscoverDownload ---------------------------
(***************************************************************************)
(* The shared retrieval of Discover results, discover/download.py: previews *)
(* and download jobs that want the bytes of one result share one provider   *)
(* call (a flight) and a bounded cache, in which a finished download also   *)
(* keeps its file (a ticket) until the user saves it.                       *)
(*                                                                         *)
(* A provider call cannot be interrupted.  A flight nobody waits for any    *)
(* more is retired: it gives its slot back while its thread runs on, and    *)
(* the thread may return beside the flight that replaced it.                *)
(*                                                                         *)
(* The regions under _lock are one step each; a flight is named after the   *)
(* request that started it; time is a clock of coarse units.                *)
(***************************************************************************)
EXTENDS Naturals, FiniteSets

CONSTANTS
  Requests,      \* calls of _artifact, each used once
  Jobs,          \* those made by a download job; the others are previews
  Results,       \* exact results, of one copy and provider each
  LargeResults,  \* those whose subtitle weighs two units, not one
  None,          \* no flight
  Concurrent,    \* FETCH_MAX_CONCURRENT
  ThreadLimit,   \* FETCH_MAX_THREADS
  CacheEntries,  \* CACHE_MAX_ENTRIES
  CacheBytes,    \* CACHE_MAX_BYTES
  FetchWait,     \* FETCH_WAIT_SECONDS
  JobWait,       \* JOB_WAIT_SECONDS
  CacheTtl,      \* CACHE_TTL_SECONDS
  TicketTtl,     \* TICKET_TTL_SECONDS
  RecheckAfter,  \* COPY_RECHECK_AFTER_SECONDS
  MaxTime,       \* bound on the clock
  MaxUpsets      \* bound on changes of the API key, lost handles and changed copies

ASSUME DiscoverAssumption ==
  /\ Jobs \subseteq Requests /\ LargeResults \subseteq Results /\ IsFiniteSet(Results)
  /\ None \notin Requests /\ Requests \cap Results = {}
  /\ Concurrent \in Nat \ {0} /\ ThreadLimit \in Nat \ {0}
  /\ CacheEntries \in Nat \ {0} /\ CacheBytes \in Nat /\ CacheBytes > 1
  /\ FetchWait \in Nat \ {0} /\ JobWait \in Nat \ {0} /\ RecheckAfter \in Nat
  /\ CacheTtl \in Nat \ {0} /\ TicketTtl \in Nat \ {0}
  /\ MaxTime \in Nat /\ MaxUpsets \in Nat

VARIABLES
  now,       \* time.monotonic()
  scope,     \* the current API key; a request keeps the one it came with
  live,      \* the results whose handle still resolves
  changed,   \* changed[x]: when the copy behind result x changed, or Never
  cache,     \* _cache, from the keys it holds; older[k] are the keys before k
  bytes,     \* _cache_bytes
  inflight,  \* _inflight
  abandoned, \* _abandoned
  thread,    \* thread[f]: where the thread of flight f is; ready is set when it ended
  until,     \* until[f]: flight.deadline
  bound,     \* bound[f]: the deadline its thread read before it asked for the lock
  outcome,   \* outcome[f]: flight.artifact, or the kind of flight.error
  stage,     \* stage[r]: where request r is
  key,       \* key[r]: the API key and the result of its cache key
  due,       \* due[r]: its deadline
  seen,      \* seen[r]: when it looked at the copy first
  joined     \* joined[r]: the flight it waits for

worldVars == <<now, scope, live, changed>>
cacheVars == <<cache, bytes>>
slotVars == <<inflight, abandoned>>
flightVars == <<thread, until, bound, outcome>>
requestVars == <<stage, key, due, seen, joined>>
vars == <<worldVars, cacheVars, slotVars, flightVars, requestVars>>

Times == 0..MaxTime
Never == MaxTime + 1
Scopes == 0..MaxUpsets
Keys == Scopes \X Results
TicketKeys == Scopes \X Requests
Weight(x) == IF x \in LargeResults THEN 2 ELSE 1
Entries == [expiry : Nat, size : {1, 2}, older : SUBSET (Keys \cup TicketKeys)]

InFlight(slots) == {slots[k] : k \in Keys} \ {None}
Running == {"calling", "back", "closing"}
Errors == {"late", "locked_out", "failed"}

(* The type invariant: what the slots, flights and requests range over.  What  *)
(* the cache holds and weighs is BytesCounted's.                              *)
TypeOK ==
  /\ now \in Nat /\ scope \in Scopes
  /\ inflight \in [Keys -> Requests \cup {None}] /\ abandoned \subseteq Requests
  /\ thread \in [Requests -> Running \cup {"none", "stillborn", "ended"}]
  /\ until \in [Requests -> Nat]
  /\ outcome \in [Requests -> Errors \cup {"none", "artifact"}]
  /\ stage \in [Requests -> {"idle", "asked", "waiting", "hit", "fetched", "storing", "served",
                             "done"}]
  /\ key \in [Requests -> Keys] /\ due \in [Requests -> Nat]
  /\ joined \in [Requests -> Requests \cup {None}]

Init ==
  /\ now = 0 /\ scope = 0 /\ live = Results /\ changed = [x \in Results |-> Never]
  /\ cache = [k \in {} |-> None] /\ bytes = 0
  /\ inflight = [k \in Keys |-> None] /\ abandoned = {}
  /\ thread = [f \in Requests |-> "none"] /\ until = [f \in Requests |-> 0]
  /\ bound = [f \in Requests |-> 0] /\ outcome = [f \in Requests |-> "none"]
  /\ stage = [r \in Requests |-> "idle"] /\ key \in [Requests -> {0} \X Results]
  /\ due = [r \in Requests |-> 0] /\ seen = [r \in Requests |-> 0]
  /\ joined = [r \in Requests |-> None]

(* A call keeps its deadline while it waits and its look until it hands over.  *)
Goto(r, where) ==
  /\ stage' = [stage EXCEPT ![r] = where]
  /\ joined' = [joined EXCEPT ![r] = None]
  /\ due' = [due EXCEPT ![r] = 0]
  /\ seen' = IF where \in {"hit", "fetched"} THEN seen ELSE [seen EXCEPT ![r] = 0]
WaitFor(r, f) ==
  /\ stage' = [stage EXCEPT ![r] = "waiting"]
  /\ joined' = [joined EXCEPT ![r] = f]
  /\ UNCHANGED <<due, seen>>
Move(f, where) == thread' = [thread EXCEPT ![f] = where]

(* _record: the key is the current one and the handle resolves.              *)
Valid(r) == key[r][1] = scope /\ key[r][2] \in live
(* _require_current_copy.                                                    *)
CopyCurrent(r) == changed[key[r][2]] = Never

-----------------------------------------------------------------------------
(* The cache, always under _lock.                                            *)

Held == DOMAIN cache
IsTicket(k) == k \in TicketKeys
(* What the entries under these keys weigh, in units of one and two.          *)
Weighs(c, keys) == Cardinality(keys) + Cardinality({k \in keys : c[k].size = 2})

(* p is the cache with _cache_bytes; _evict takes each of the keys out.       *)
Without(p, gone) ==
  [cache |-> [k \in DOMAIN p.cache \ gone |-> [p.cache[k] EXCEPT !.older = @ \ gone]],
   bytes |-> p.bytes - Weighs(p.cache, gone \cap DOMAIN p.cache)]

(* What _prune drops for a caller of API key s.                              *)
Outdated(s) == {k \in Held : k[1] # s \/ cache[k].expiry <= now}
Pruned(s) == Without([cache |-> cache, bytes |-> bytes], Outdated(s))

Fits(p, size) == Cardinality(DOMAIN p.cache) < CacheEntries /\ p.bytes + size <= CacheBytes

(* Whom _make_room evicts before k: copies before tickets, oldest first.     *)
Ahead(c, k) ==
  {j \in DOMAIN c : \/ IsTicket(k) /\ ~IsTicket(j)
                    \/ j \in c[k].older /\ (IsTicket(j) => IsTicket(k))}

(* Mutant: a copy may evict a ticket.                                        *)
EvictedForAny(p, size, ticket) ==
  {k \in DOMAIN p.cache : ~Fits(Without(p, Ahead(p.cache, k)), size)}
(* Whom it evicts for `size` more: who stands where there is no room yet, and *)
(* never a ticket unless it is for a ticket.                                 *)
Evicted(p, size, ticket) ==
  {k \in DOMAIN p.cache : (IsTicket(k) => ticket) /\ ~Fits(Without(p, Ahead(p.cache, k)), size)}
MadeRoom(p, size, ticket) == Without(p, Evicted(p, size, ticket))

(* An OrderedDict keeps the place of a key it has.                           *)
Put(p, k, expiry, size) ==
  LET held == DOMAIN p.cache
      entry == [expiry |-> expiry, size |-> size, older |-> IF k \in held THEN p.cache[k].older ELSE held]
  IN [cache |-> [j \in held \cup {k} |-> IF j = k THEN entry ELSE p.cache[j]],
      bytes |-> p.bytes + size]
MovedToEnd(c, k) ==
  [j \in DOMAIN c |-> [c[j] EXCEPT !.older = IF j = k THEN DOMAIN c \ {k} ELSE @ \ {k}]]

SetCache(p) == cache' = p.cache /\ bytes' = p.bytes

-----------------------------------------------------------------------------
(* A request: _artifact.                                                      *)

Wait(r) == IF r \in Jobs THEN JobWait ELSE FetchWait

(* It comes with the current key, a live handle and a current copy; one that  *)
(* does not is refused and leaves no trace.                                   *)
Begin(r) ==
  /\ stage[r] = "idle" /\ now + Wait(r) <= MaxTime
  /\ key[r][2] \in live /\ CopyCurrent(r)
  /\ key' = [key EXCEPT ![r] = <<scope, @[2]>>]
  /\ due' = [due EXCEPT ![r] = now + Wait(r)] /\ seen' = [seen EXCEPT ![r] = now]
  /\ stage' = [stage EXCEPT ![r] = "asked"]
  /\ UNCHANGED <<worldVars, cacheVars, slotVars, flightVars, joined>>

(* The lock, the handle or the time was lost on the way.                      *)
LookRefused(r) ==
  /\ stage[r] = "asked" /\ (~Valid(r) \/ now >= due[r])
  /\ Goto(r, "done")
  /\ UNCHANGED <<worldVars, cacheVars, slotVars, flightVars, key>>

Looks(r) == stage[r] = "asked" /\ Valid(r) /\ now < due[r]

LookHit(r) ==
  LET p == Pruned(key[r][1])
  IN /\ Looks(r) /\ key[r] \in DOMAIN p.cache
     /\ SetCache([p EXCEPT !.cache = MovedToEnd(@, key[r])])
     /\ Goto(r, "hit")
     /\ UNCHANGED <<worldVars, slotVars, flightVars, key>>

LookMisses(r) ==
  /\ Looks(r) /\ key[r] \notin DOMAIN Pruned(key[r][1]).cache
  /\ SetCache(Pruned(key[r][1]))
  /\ UNCHANGED <<worldVars, key>>

(* Flights at or past their deadline are retired before the look for one.     *)
Stale(k) == inflight[k] # None /\ until[inflight[k]] <= now
Kept == [k \in Keys |-> IF Stale(k) THEN None ELSE inflight[k]]
(* Mutant: a retired flight is forgotten.                                     *)
NoneRetired == {}
Retired == {inflight[k] : k \in {j \in Keys : Stale(j)}}

LookJoins(r) ==
  LET f == Kept[key[r]]
  IN /\ LookMisses(r) /\ f # None
     /\ inflight' = Kept /\ abandoned' = abandoned \cup Retired
     /\ until' = [until EXCEPT ![f] = IF @ >= due[r] THEN @ ELSE due[r]]
     /\ WaitFor(r, f)
     /\ UNCHANGED <<thread, bound, outcome>>

Full ==
  \/ Cardinality(InFlight(Kept)) >= Concurrent
  \/ Cardinality(InFlight(Kept)) + Cardinality(abandoned \cup Retired) >= ThreadLimit

LookBusy(r) ==
  /\ LookMisses(r) /\ Kept[key[r]] = None /\ Full
  /\ inflight' = Kept /\ abandoned' = abandoned \cup Retired
  /\ Goto(r, "done")
  /\ UNCHANGED flightVars

(* The flight is entered before its thread is started.  Thread.start() may    *)
(* raise, and then the request fails while the flight stays.                  *)
LookStarts(r) ==
  /\ LookMisses(r) /\ Kept[key[r]] = None /\ ~Full
  /\ inflight' = [Kept EXCEPT ![key[r]] = r] /\ abandoned' = abandoned \cup Retired
  /\ until' = [until EXCEPT ![r] = due[r]] /\ bound' = [bound EXCEPT ![r] = due[r]]
  /\ \/ Move(r, "calling") /\ WaitFor(r, r)
     \/ Move(r, "stillborn") /\ Goto(r, "done")
  /\ UNCHANGED outcome

Ready(f) == thread[f] = "ended"

WaitTimesOut(r) ==
  /\ stage[r] = "waiting" /\ ~Ready(joined[r]) /\ now >= due[r]
  /\ Goto(r, "done")
  /\ UNCHANGED <<worldVars, cacheVars, slotVars, flightVars, key>>

WaitAnswered(r) ==
  /\ stage[r] = "waiting" /\ Ready(joined[r])
  /\ Goto(r, IF Valid(r) /\ outcome[joined[r]] = "artifact" THEN "fetched" ELSE "done")
  /\ UNCHANGED <<worldVars, cacheVars, slotVars, flightVars, key>>

(* Mutant: a fetched artifact is handed over on the first look at the copy.   *)
LooksAgainAtHits(r) == stage[r] = "hit" /\ now - seen[r] > RecheckAfter
(* Whether the copy is looked at again before the bytes are handed over.      *)
LooksAgain(r) == stage[r] = "fetched" \/ now - seen[r] > RecheckAfter
Delivers(r) == Valid(r) /\ (LooksAgain(r) => CopyCurrent(r))

(* The bytes are handed over; a job goes on to keep them.                     *)
Deliver(r) ==
  /\ stage[r] \in {"hit", "fetched"}
  /\ Goto(r, IF ~Delivers(r) THEN "done" ELSE IF r \in Jobs THEN "storing" ELSE "served")
  /\ UNCHANGED <<worldVars, cacheVars, slotVars, flightVars, key>>

-----------------------------------------------------------------------------
(* The thread of a flight: _fetch.                                            *)

FetchUnchanged == UNCHANGED <<worldVars, slotVars, until, requestVars>>

(* The handle went, or the provider failed or gave no usable subtitle.        *)
FetchFails(f) ==
  /\ thread[f] = "calling"
  /\ outcome' = [outcome EXCEPT ![f] = "failed"] /\ Move(f, "closing")
  /\ UNCHANGED <<cacheVars, bound>> /\ FetchUnchanged

(* The provider returned; the deadline of the flight is read without the lock. *)
FetchReturns(f) ==
  /\ thread[f] = "calling"
  /\ bound' = [bound EXCEPT ![f] = until[f]]
  /\ Move(f, "back")
  /\ UNCHANGED <<cacheVars, outcome>> /\ FetchUnchanged

(* Mutant: the time is not looked at again under the lock.                    *)
NeverLate(f) == FALSE
Late(f) == now >= until[f]

(* The lock was not to be had until the deadline that was read.               *)
FetchLockedOut(f) ==
  /\ thread[f] = "back" /\ now >= bound[f]
  /\ outcome' = [outcome EXCEPT ![f] = "locked_out"] /\ Move(f, "closing")
  /\ UNCHANGED <<cacheVars, bound>> /\ FetchUnchanged

FetchTooLate(f) ==
  /\ thread[f] = "back" /\ (~Valid(f) \/ Late(f))
  /\ outcome' = [outcome EXCEPT ![f] = IF Valid(f) THEN "late" ELSE "failed"]
  /\ Move(f, "closing")
  /\ UNCHANGED <<cacheVars, bound>> /\ FetchUnchanged

(* The copy is cached if it fits, for as long as its record has left.         *)
FetchStores(f) ==
  LET size == Weight(key[f][2])
      p == MadeRoom(Pruned(key[f][1]), size, FALSE)
  IN /\ thread[f] = "back" /\ Valid(f) /\ ~Late(f)
     /\ IF Fits(p, size)
        THEN \E life \in 1..CacheTtl : SetCache(Put(p, key[f], now + life, size))
        ELSE SetCache(p)
     /\ outcome' = [outcome EXCEPT ![f] = "artifact"] /\ Move(f, "closing")
     /\ UNCHANGED bound /\ FetchUnchanged

(* Mutant: whatever flight holds the key is taken out.                        *)
OutOfSlotOfKey(f) == [inflight EXCEPT ![key[f]] = None]
OutOfSlot(f) == IF inflight[key[f]] = f THEN [inflight EXCEPT ![key[f]] = None] ELSE inflight

FetchEnds(f) ==
  /\ thread[f] = "closing"
  /\ inflight' = OutOfSlot(f)
  /\ abandoned' = abandoned \ {f}
  /\ Move(f, "ended")
  /\ until' = [until EXCEPT ![f] = 0] /\ bound' = [bound EXCEPT ![f] = 0]
  /\ UNCHANGED <<worldVars, cacheVars, outcome, requestVars>>

-----------------------------------------------------------------------------
(* Tickets.                                                                   *)

TicketKey(r) == <<key[r][1], r>>

(* The job was stopped in the drawer before its file was kept.                *)
JobStopped(r) ==
  /\ stage[r] = "storing"
  /\ Goto(r, "done")
  /\ UNCHANGED <<worldVars, cacheVars, slotVars, flightVars, key>>

StoreTicket(r) ==
  LET size == Weight(key[r][2])
      p == MadeRoom(Without(Pruned(key[r][1]), {TicketKey(r)}), size, TRUE)
  IN /\ stage[r] = "storing"
     /\ SetCache(Put(p, TicketKey(r), now + TicketTtl, size))
     /\ Goto(r, "served")
     /\ UNCHANGED <<worldVars, slotVars, flightVars, key>>

(* fetch_ticket: the key is checked before the lock is asked for, and may have *)
(* been replaced since.                                                       *)
Save(s) ==
  /\ s <= scope
  /\ SetCache(Pruned(s))
  /\ UNCHANGED <<worldVars, slotVars, flightVars, requestVars>>

-----------------------------------------------------------------------------
(* The world.                                                                 *)

Tick ==
  /\ now < MaxTime /\ now' = now + 1
  /\ UNCHANGED <<scope, live, changed, cacheVars, slotVars, flightVars, requestVars>>
Upsets ==
  scope + Cardinality(Results \ live) + Cardinality({x \in Results : changed[x] # Never})

Rotate ==
  /\ Upsets < MaxUpsets /\ scope' = scope + 1
  /\ UNCHANGED <<now, live, changed, cacheVars, slotVars, flightVars, requestVars>>
Expire(x) ==
  /\ Upsets < MaxUpsets /\ x \in live /\ live' = live \ {x}
  /\ UNCHANGED <<now, scope, changed, cacheVars, slotVars, flightVars, requestVars>>
CopyChanges(x) ==
  /\ Upsets < MaxUpsets /\ changed[x] = Never /\ changed' = [changed EXCEPT ![x] = now]
  /\ UNCHANGED <<now, scope, live, cacheVars, slotVars, flightVars, requestVars>>

RequestStep(r) ==
  \/ LookRefused(r) \/ LookHit(r) \/ LookJoins(r) \/ LookBusy(r) \/ LookStarts(r)
  \/ WaitTimesOut(r) \/ WaitAnswered(r) \/ Deliver(r)
FlightReturned(f) == FetchLockedOut(f) \/ FetchTooLate(f) \/ FetchStores(f) \/ FetchEnds(f)
FlightStep(f) == FetchFails(f) \/ FetchReturns(f) \/ FlightReturned(f)
TicketStep(r) == JobStopped(r) \/ StoreTicket(r)
World == Tick \/ Rotate \/ \E x \in Results : Expire(x) \/ CopyChanges(x)

Next ==
  \/ \E r \in Requests : Begin(r) \/ RequestStep(r) \/ TicketStep(r) \/ FlightStep(r)
  \/ \E s \in Scopes : Save(s)
  \/ World

Spec == Init /\ [][Next]_vars

-----------------------------------------------------------------------------
(* Properties.                                                                *)

Alive == {f \in Requests : thread[f] \in Running}
Stillborn == {f \in Requests : thread[f] = "stillborn"}
Counted == InFlight(inflight) \cup abandoned

(* The flights that are counted are the provider calls that run, beside those *)
(* whose thread never started: no call is forgotten when its flight is        *)
(* retired, none is counted after it returned, and there are never more than  *)
(* FETCH_MAX_THREADS, nor more than FETCH_MAX_CONCURRENT that hold a slot.     *)
ThreadsCounted ==
  /\ Alive = Counted \ Stillborn
  /\ Cardinality(Counted) <= ThreadLimit
  /\ Cardinality(InFlight(inflight)) <= Concurrent

(* Every counted flight has a running provider call: "Provider calls still    *)
(* alive" (download.py:28), "Its thread is still running, though, so it stays  *)
(* counted until it returns" (download.py:459).                               *)
CountedIsAlive == Counted \subseteq Alive

(* A request whose time is not up keeps its flight, whoever started it and     *)
(* whatever returns late beside it: the flight holds its slot until it is      *)
(* ready, and is never given up as late.                                      *)
InTimeWaiterKept ==
  \A r \in Requests :
    stage[r] = "waiting" /\ now < due[r] =>
      /\ ~Ready(joined[r]) => inflight[key[r]] = joined[r]
      /\ outcome[joined[r]] # "late"

(* _cache_bytes is what the cache weighs, and the cache stays in its limits:   *)
(* no artifact is stored twice, by a flight and by the one that replaced it.   *)
BytesCounted ==
  /\ bytes = Weighs(cache, Held) /\ bytes <= CacheBytes
  /\ Cardinality(Held) <= CacheEntries

Tickets == {k \in Held : IsTicket(k)}
(* A step of somebody who came with an API key that is no longer current.      *)
OldKeyStep ==
  \/ \E r \in Requests : stage[r] = "storing" /\ stage'[r] # "storing" /\ key[r][1] # scope
  \/ \E s \in 0..scope : s # scope /\ Save(s)

(* A finished download stays available to save until it expires, its key       *)
(* changes or newer downloads need the room once no copy is left to evict;     *)
(* only a request of an older key may drop it.                                *)
TicketsKept ==
  [][\A k \in Tickets :
       \/ k \in Held' /\ cache'[k].expiry = cache[k].expiry
       \/ cache[k].expiry <= now \/ k[1] # scope
       \/ ~(Tickets' \subseteq Tickets) /\ Held' = Tickets'
       \/ OldKeyStep]_vars

(* Bytes are handed over against a look at the chosen copy no older than       *)
(* COPY_RECHECK_AFTER_SECONDS, however long the request waited.                *)
FreshDelivery ==
  [][\A r \in Requests :
       stage[r] \in {"hit", "fetched"} /\ stage'[r] \in {"storing", "served"} =>
         now <= changed[key[r][2]] + RecheckAfter]_vars
=============================================================================
