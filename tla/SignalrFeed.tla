------------------------------ MODULE SignalrFeed ------------------------------
(***************************************************************************)
(* The live feeds of the Sonarr, or the Radarr, instances                    *)
(* (app/signalr_client.py).  A change of the instances fans them out anew:   *)
(* every client is stopped, then the one that always exists is bound to the  *)
(* first instance and further clients are made for the others.  A client is  *)
(* started in a thread of its own, which retries until its connection is up  *)
(* or a later start or stop has moved the client to a new generation.        *)
(*                                                                           *)
(* Requests that change instances do not exclude one another, and a client   *)
(* can be stopped at any point of a start that is still under way.  A        *)
(* connection that reports an error restarts its client, in the thread that  *)
(* received the error.                                                       *)
(*                                                                           *)
(* The names that every specification has carry "Feed" here, so that one     *)
(* proof module can extend this module and SiloScan.                         *)
(***************************************************************************)
EXTENDS Naturals, FiniteSetsExt, SequencesExt

CONSTANTS
  Instances,   \* the instances of the kind, numbered from 1
  Fanners,     \* requests that may change them at the same time
  MaxEdits,    \* bound on changes of the instances
  MaxExtras,   \* bound on clients made for further instances
  MaxStarts    \* bound on starts of a client

Singleton == 0
Clients == 0..MaxExtras
Starts == 1..MaxStarts
None == 0    \* no start, no connection, no instance

ASSUME FeedAssumption ==
  /\ Instances \subseteq Nat \ {None} /\ IsFiniteSet(Instances)
  /\ MaxEdits \in Nat /\ MaxExtras \in Nat /\ MaxStarts \in Nat

VARIABLES
  enabled,    \* the enabled instances
  edits,      \* changes of them so far
  step,       \* step[f]: where the fan-out f is
  list,       \* list[f]: the instances it starts clients for
  idle,       \* idle of the singleton: there is no instance to start it for
  todo,       \* todo[f]: the clients it has yet to stop
  closing,    \* closing[f]: the connection it is about to close
  extras,     \* the clients beside the singleton
  bound,      \* bound[c]: arr_instance_id
  generation, \* generation[c]: _generation
  connection, \* connection[c]: named by the start that built it
  wanted,     \* wanted[c]: the generation began with a start
  holder,     \* holder[c]: the start that keeps its lifecycle lock over a wait
  dismissed,  \* dismissed[c]: a fan-out stopped it, and none has bound it since
  made,       \* clients made for further instances
  starts,     \* starts so far, by a fan-out or by an error
  stage,      \* stage[t]: where start t is
  on,         \* on[t]: the connection whose error it answers, in its thread
  client,     \* client[t]: whose start it is
  mine,       \* mine[t]: the generation it began
  uses,       \* uses[t]: the connection it starts
  link,       \* link[k]: the state of the connection that start k built
  raced       \* two fan-outs ran at once, or a dismissed client was started

fanVars == <<step, list, idle, todo, closing, extras, raced>>
clientsVars == <<bound, generation, connection, wanted, holder, dismissed, made>>
startVars == <<starts, stage, on, client, mine, uses, link>>
feedVars == <<enabled, edits, fanVars, clientsVars, startVars>>

Restarting == {"failed", "stopping", "closing"}
Connecting == {"probing", "joining", "looping", "starting", "checking"}
UnderWay == Restarting \cup {"begun"} \cup Connecting
Running(c) == \E t \in Starts : client[t] = c /\ stage[t] \in UnderWay

(* The type invariant; the listed clients are distinct, and one for each of  *)
(* the instances but the first.                                              *)
FeedTypeOK ==
  /\ enabled \subseteq Instances /\ edits \in 0..MaxEdits
  /\ step \in [Fanners -> {"idle", "enumerating", "retiring", "closing", "binding"}]
  /\ list \in [Fanners -> SUBSET Instances] /\ idle \in BOOLEAN
  /\ todo \in [Fanners -> Seq(Clients)] /\ closing \in [Fanners -> Starts \cup {None}]
  /\ extras \in Seq(Clients \ {Singleton}) /\ IsInjective(extras)
  /\ raced \/ Len(extras) < Max({1, Cardinality(Instances)})
  /\ bound \in [Clients -> Instances \cup {None}]
  /\ generation \in [Clients -> Nat]
  /\ connection \in [Clients -> Starts \cup {None}] /\ wanted \in [Clients -> BOOLEAN]
  /\ holder \in [Clients -> Starts \cup {None}] /\ dismissed \in [Clients -> BOOLEAN]
  /\ made \in 0..MaxExtras /\ starts \in 0..MaxStarts
  /\ stage \in [Starts -> {"none", "ended"} \cup UnderWay] /\ client \in [Starts -> Clients]
  /\ on \in [Starts -> Starts \cup {None}]
  /\ mine \in [Starts -> Nat] /\ uses \in [Starts -> Starts \cup {None}]
  /\ link \in [Starts -> {"none", "built", "active", "closed"}]
  /\ raced \in BOOLEAN

FeedInit ==
  /\ enabled \in SUBSET Instances /\ edits = 0
  /\ step = [f \in Fanners |-> "idle"] /\ list = [f \in Fanners |-> {}] /\ idle = FALSE
  /\ todo = [f \in Fanners |-> <<>>] /\ closing = [f \in Fanners |-> None]
  /\ extras = <<>> /\ raced = FALSE
  /\ bound = [c \in Clients |-> None] /\ generation = [c \in Clients |-> 0]
  /\ connection = [c \in Clients |-> None] /\ wanted = [c \in Clients |-> FALSE]
  /\ holder = [c \in Clients |-> None] /\ dismissed = [c \in Clients |-> FALSE] /\ made = 0
  /\ starts = 0 /\ stage = [t \in Starts |-> "none"] /\ on = [t \in Starts |-> None]
  /\ client = [t \in Starts |-> Singleton]
  /\ mine = [t \in Starts |-> 0] /\ uses = [t \in Starts |-> None] /\ link = [t \in Starts |-> "none"]

-----------------------------------------------------------------------------
(* The fan-out: _start_clients_for_kind, after a change of the instances.    *)

Moves(f, where) == step' = [step EXCEPT ![f] = where]

(* The instances change; the refresh that follows does not wait for another. *)
Edit(f) ==
  /\ step[f] = "idle" /\ edits < MaxEdits /\ edits' = edits + 1
  /\ enabled' \in SUBSET Instances
  /\ Moves(f, "enumerating")
  /\ raced' = (raced \/ \E g \in Fanners : step[g] # "idle")
  /\ UNCHANGED <<list, idle, todo, closing, extras, clientsVars, startVars>>

(* Mutant: only the clients whose connection is up are stopped.              *)
ActiveOnly(f) ==
  <<Singleton>> \o SelectSeq(extras, LAMBDA c : connection[c] # None /\ link[connection[c]] = "active")
(* Every client, whatever the state of its connection.                       *)
ToStop(f) == <<Singleton>> \o extras

(* _enabled_instances, and the clients to stop.                              *)
Enumerate(f) ==
  /\ step[f] = "enumerating" /\ Moves(f, "retiring")
  /\ list' = [list EXCEPT ![f] = enabled]
  /\ todo' = [todo EXCEPT ![f] = ToStop(f)]
  /\ UNCHANGED <<enabled, edits, idle, closing, extras, raced, clientsVars, startVars>>

(* stop(), under the lifecycle lock: the client moves to a new generation... *)
Retire(f) ==
  LET c == Head(todo[f])
  IN /\ step[f] = "retiring" /\ todo[f] # <<>> /\ holder[c] = None /\ Moves(f, "closing")
     /\ dismissed' = [dismissed EXCEPT ![c] = TRUE]
     /\ generation' = [generation EXCEPT ![c] = @ + 1] /\ wanted' = [wanted EXCEPT ![c] = FALSE]
     /\ closing' = [closing EXCEPT ![f] = connection[c]]
     /\ todo' = [todo EXCEPT ![f] = Tail(@)]
     /\ UNCHANGED <<enabled, edits, list, idle, extras, raced, bound, connection, holder, made, startVars>>

Closed(k) == IF k = None THEN link ELSE [link EXCEPT ![k] = "closed"]
(* ...and its connection is closed outside the lock.                         *)
Close(f) ==
  /\ step[f] = "closing" /\ Moves(f, "retiring")
  /\ link' = Closed(closing[f]) /\ closing' = [closing EXCEPT ![f] = None]
  /\ UNCHANGED <<enabled, edits, list, idle, todo, extras, raced, clientsVars,
                 starts, stage, on, client, mine, uses>>

(* Mutant: the extras are not forgotten before the new ones are listed.      *)
Remembered(f) == extras
Forgotten(f) == <<>>
Forget(f) ==
  /\ step[f] = "retiring" /\ todo[f] = <<>> /\ Moves(f, "binding")
  /\ extras' = Forgotten(f)
  /\ UNCHANGED <<enabled, edits, list, idle, todo, closing, raced, clientsVars, startVars>>

Ascending(S) ==
  {o \in [1..Cardinality(S) -> S] : \A i, j \in 1..Cardinality(S) : i < j => o[i] < o[j]}
(* The singleton takes the first instance, a new client each of the others;  *)
(* every one is started in a thread.  Without an instance nothing starts.    *)
Bind(f) ==
  LET n == Cardinality(list[f])
      new == made + 1 .. made + n - 1
  IN /\ step[f] = "binding" /\ Moves(f, "idle")
     /\ list' = [list EXCEPT ![f] = {}] /\ idle' = (list[f] = {})
     /\ \/ list[f] = {} /\ UNCHANGED <<extras, bound, dismissed, made, starts, stage, client>>
        \/ /\ list[f] # {} /\ made + n - 1 <= MaxExtras /\ starts + n <= MaxStarts
           /\ extras' = extras \o [i \in 1..(n - 1) |-> made + i] /\ made' = made + n - 1
           /\ \E order \in Ascending(list[f]) :
                bound' = [c \in Clients |-> IF c = Singleton THEN order[1]
                                            ELSE IF c \in new THEN order[c - made + 1] ELSE bound[c]]
           /\ dismissed' = [c \in Clients |-> dismissed[c] /\ c \notin new \cup {Singleton}]
           /\ starts' = starts + n
           /\ stage' = [t \in Starts |-> IF t \in starts + 1 .. starts + n THEN "begun" ELSE stage[t]]
           /\ client' = [t \in Starts |-> IF t = starts + 1 THEN Singleton
                                           ELSE IF t \in starts + 2 .. starts + n THEN made + t - starts - 1
                                           ELSE client[t]]
     /\ UNCHANGED <<enabled, edits, todo, closing, raced, generation, connection, wanted, holder,
                    on, mine, uses, link>>

-----------------------------------------------------------------------------
(* A start, in its thread: start, _configure_if_current, _connect.           *)

IsCurrent(t) == mine[t] = generation[client[t]]
Gone(t) == bound[client[t]] \notin enabled
(* _keep_retrying                                                            *)
KeepsRetrying(t) == IsCurrent(t) /\ ~Gone(t)
Goes(t, where) == stage' = [stage EXCEPT ![t] = where]
StartOnly ==
  UNCHANGED <<enabled, edits, step, list, idle, todo, closing, extras, bound, dismissed, made,
              starts, on, client>>

(* An error of a connection: exception_handler, in its receive thread.       *)
Errs(k) ==
  /\ link[k] = "active" /\ starts < MaxStarts
  /\ \A t \in Starts : on[t] = k => stage[t] \notin UnderWay
  /\ starts' = starts + 1 /\ stage' = [stage EXCEPT ![starts + 1] = "failed"]
  /\ client' = [client EXCEPT ![starts + 1] = client[k]] /\ on' = [on EXCEPT ![starts + 1] = k]
  /\ UNCHANGED <<enabled, edits, fanVars, clientsVars, mine, uses, link>>

(* restart: a connection that is up is stopped first...                      *)
Onward(t) == IF client[t] = Singleton /\ idle THEN "ended" ELSE "begun"
Restart(t) ==
  /\ stage[t] = "failed"
  /\ Goes(t, IF link[connection[client[t]]] = "active" THEN "stopping" ELSE Onward(t))
  /\ UNCHANGED <<generation, connection, wanted, holder, mine, uses, link, raced>> /\ StartOnly

(* ...by stop(), as a fan-out does, and then the client is started anew.     *)
StopItself(t) ==
  LET c == client[t]
  IN /\ stage[t] = "stopping" /\ holder[c] = None /\ Goes(t, "closing")
     /\ generation' = [generation EXCEPT ![c] = @ + 1] /\ wanted' = [wanted EXCEPT ![c] = FALSE]
     /\ uses' = [uses EXCEPT ![t] = connection[c]]
     /\ UNCHANGED <<connection, holder, mine, link, raced>> /\ StartOnly
CloseItself(t) ==
  /\ stage[t] = "closing" /\ Goes(t, Onward(t))
  /\ link' = Closed(uses[t])
  /\ UNCHANGED <<generation, connection, wanted, holder, mine, uses, raced>> /\ StartOnly

(* Whatever stopped the client since its thread was made, the start begins.  *)
Begin(t) ==
  LET c == client[t]
  IN /\ stage[t] = "begun" /\ holder[c] = None /\ Goes(t, "probing")
     /\ generation' = [generation EXCEPT ![c] = @ + 1] /\ wanted' = [wanted EXCEPT ![c] = TRUE]
     /\ mine' = [mine EXCEPT ![t] = generation[c] + 1]
     /\ raced' = (raced \/ dismissed[c])
     /\ UNCHANGED <<connection, holder, uses, link>> /\ StartOnly

(* The version is not known yet and it is of no use to wait, or too old.     *)
ProbeGivesUp(t) ==
  /\ stage[t] = "probing" /\ Goes(t, "ended")
  /\ UNCHANGED <<generation, connection, wanted, holder, mine, uses, link, raced>> /\ StartOnly

(* Under the lifecycle lock: a current start closes the connection before; one *)
(* whose instance is gone is left with that...                               *)
Configure(t) ==
  LET c == client[t]
  IN /\ stage[t] = "probing" /\ holder[c] = None
     /\ \/ /\ ~IsCurrent(t) \/ (Gone(t) /\ connection[c] = None)
           /\ Goes(t, "ended") /\ UNCHANGED <<holder, uses, link>>
        \/ /\ IsCurrent(t) /\ Gone(t) /\ connection[c] # None
           /\ Goes(t, "looping") /\ uses' = [uses EXCEPT ![t] = connection[c]] /\ UNCHANGED <<holder, link>>
        \/ /\ IsCurrent(t) /\ ~Gone(t)
           /\ Goes(t, "joining") /\ holder' = [holder EXCEPT ![c] = t]
           /\ link' = Closed(connection[c]) /\ UNCHANGED uses
     /\ UNCHANGED <<generation, connection, wanted, mine, raced>> /\ StartOnly

(* ...waits, with the lock, for the thread that receives on it, and builds its *)
(* own.                                                                      *)
Build(t) ==
  LET c == client[t]
  IN /\ stage[t] = "joining" /\ Goes(t, "looping")
     /\ connection[c] = None \/ \A u \in Starts \ {t} : on[u] = connection[c] => stage[u] \notin UnderWay
     /\ uses' = [uses EXCEPT ![t] = t] /\ connection' = [connection EXCEPT ![c] = t]
     /\ link' = [link EXCEPT ![t] = "built"] /\ holder' = [holder EXCEPT ![c] = None]
     /\ UNCHANGED <<generation, wanted, mine, raced>> /\ StartOnly

ConnectOnly == UNCHANGED <<generation, connection, wanted, holder, mine, uses, raced>> /\ StartOnly

Loop(t) ==
  /\ stage[t] = "looping" /\ Goes(t, IF IsCurrent(t) THEN "starting" ELSE "checking")
  /\ UNCHANGED link /\ ConnectOnly

(* connection.start() brought it up.                                         *)
ConnectSucceeds(t) ==
  /\ stage[t] = "starting" /\ Goes(t, "checking")
  /\ link' = [link EXCEPT ![uses[t]] = "active"]
  /\ ConnectOnly

(* It raised: what it left behind is closed, and it is tried again.          *)
ConnectFails(t) ==
  /\ stage[t] = "starting" /\ Goes(t, IF KeepsRetrying(t) THEN "looping" ELSE "checking")
  /\ link' = Closed(uses[t])
  /\ ConnectOnly

(* Mutant: a start that was overtaken leaves its connection as it is.        *)
LeftOpen(t) == link
ClosedIfRetired(t) == IF IsCurrent(t) THEN link ELSE Closed(uses[t])
Check(t) ==
  /\ stage[t] = "checking" /\ Goes(t, "ended")
  /\ link' = ClosedIfRetired(t)
  /\ ConnectOnly

-----------------------------------------------------------------------------
FanOut(f) == Edit(f) \/ Enumerate(f) \/ Retire(f) \/ Close(f) \/ Forget(f) \/ Bind(f)
Start(t) ==
  \/ Errs(t) \/ Restart(t) \/ StopItself(t) \/ CloseItself(t)
  \/ Begin(t) \/ ProbeGivesUp(t) \/ Configure(t) \/ Build(t)
  \/ Loop(t) \/ ConnectSucceeds(t) \/ ConnectFails(t) \/ Check(t)
FeedNext == (\E f \in Fanners : FanOut(f)) \/ \E t \in Starts : Start(t)
FeedSpec == FeedInit /\ [][FeedNext]_feedVars

-----------------------------------------------------------------------------
(* Properties.                                                               *)

Settled(c) == ~Running(c) /\ \A f \in Fanners : step[f] # "closing"

(* No feed runs without an owner: once the starts and stops of a client are  *)
(* over, the only connection of it that may be up is the one it has, and only*)
(* if a start was the last thing that happened to it.                        *)
NoFeedWithoutOwner ==
  \A k \in Starts :
    link[k] = "active" /\ Settled(client[k]) => connection[client[k]] = k /\ wanted[client[k]]

(* Every feed can be stopped: a client that connects, or whose connection may*)
(* stay up, is the singleton or listed, unless fan-outs ran at once or a client *)
(* was started after a fan-out had stopped it for good.                      *)
EveryFeedListedUnlessRaced ==
  \A c \in Clients \ {Singleton} :
    \/ \E t \in Starts : client[t] = c /\ stage[t] \in Connecting /\ IsCurrent(t)
    \/ Settled(c) /\ \E k \in Starts : client[k] = c /\ link[k] = "active"
    => raced \/ c \in ToSet(extras)

(* No start waits, with the lifecycle lock, for a thread that is waiting for *)
(* the lock: "The wrapper takes no lock: signalrcore runs the callbacks on the *)
(* connection's receive thread, and configure() joins that thread, with the  *)
(* lock held" (signalr_client.py:207).                                       *)
JoinedThreadsNeedNoLock ==
  \A t, u \in Starts :
    stage[t] = "joining" /\ connection[client[t]] # None /\ on[u] = connection[client[t]]
      => stage[u] \notin {"stopping", "begun"} \/ u = t
=============================================================================
