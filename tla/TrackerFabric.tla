--------------------------- MODULE TrackerFabric ---------------------------
(***************************************************************************)
(* The tracker with what surrounds it: a clock, the fabric that answers    *)
(* its transactions, and the recovery agent.                               *)
(*                                                                         *)
(* Every transaction has an incarnation <<slot, n>>: the n-th occupant of  *)
(* its slot. Its response travels for any time, may overtake others, be    *)
(* duplicated or be lost; the agent may ask for the reclaim of any recent  *)
(* incarnation, dead or alive. On the wires both carry only {generation,   *)
(* slot}. Generations wrap, so a message can name a later incarnation only *)
(* if it outlives GEN_MOD - 1 reuses of its slot; docs/tracker_contract.md *)
(* rules that out by the choice of GEN_W, and LIFETIME is that bound here. *)
(*                                                                         *)
(* Timestamps are TS_W bits wide and wrap too, so the tracker knows an     *)
(* entry's age modulo TS_MOD only; age is the time that really passed.     *)
(*                                                                         *)
(* A reset empties the fabric with the tracker and is left out.            *)
(***************************************************************************)
EXTENDS OutstandingTracker

CONSTANTS
  LIFETIME,   \* reuses of a slot a message about it can outlive
  MAX_BORN,   \* bound: incarnations per slot
  THRESH,     \* the committed threshold, fixed: it changes only while drained
  Steps,      \* how far the timestamp may move between two edges
  AGE_CAP     \* bound: true ages are recorded up to this value

ASSUME FabricAssumption ==
  /\ LIFETIME \in Nat /\ LIFETIME < GEN_MOD /\ MAX_BORN \in Nat
  /\ THRESH \in Nat \ {0} /\ 2 * THRESH < TS_MOD
  /\ Steps \subseteq 0 .. TS_MOD - THRESH
  /\ AGE_CAP \in Nat /\ AGE_CAP >= THRESH
  /\ None \notin Int \X Int

VARIABLES
  now,        \* the timestamp presented at the last edge
  age,        \* true time since the allocation of each live slot
  born,       \* how many transactions each slot has held
  fabric,     \* incarnations whose response is still travelling
  misfreed,   \* incarnations freed by a message about another one
  unreported  \* reclaimed entries whose requester has not seen the outcome

fabricVars == <<trackerVars, now, age, born, fabric, misfreed, unreported>>

TagOf(m) == [slot |-> m[1], gen |-> m[2] % GEN_MOD]

\* The messages about slots still within their lifetime, given births b.
Recent(b) == {m \in Slots \X (1 .. MAX_BORN) : m[2] <= b[m[1]] /\ b[m[1]] - m[2] <= LIFETIME}

\* Messages about slots that do not exist, when DEPTH is not a power of two.
Strays == (DEPTH .. SLOT_SPACE - 1) \X {0}

FabricInit ==
  /\ TrackerInit
  /\ now = 0 /\ age = [s \in Slots |-> 0]
  /\ born = [s \in Slots |-> 0]
  /\ fabric = {} /\ misfreed = {} /\ unreported = {}

Beat(m) == IF m = None THEN None ELSE TagOf(m)

Capped(a) == IF a > AGE_CAP THEN AGE_CAP ELSE a

\* d has passed since the last edge.
Pass(d) ==
  /\ now' = (now + d) % TS_MOD
  /\ age' = [s \in Slots |-> IF s \in live \cap live' THEN Capped(age[s] + d) ELSE 0]

\* What the requester takes from the response register at this edge.
Reported(ready) ==
  IF ready /\ reclaim_rsp # None /\ reclaim_rsp.class = "OK"
  THEN {[tag |-> reclaim_rsp.tag, meta |-> reclaim_rsp.meta]} ELSE {}

\* An edge that delivers the response of one incarnation, which may stay in the
\* fabric to come again, and presents the reclaim of another.
FabricEdge(d, alloc, delivered, requested, ready) ==
  LET current(s)  == <<s, born[s]>>
      freed       == live \ live'
      reclaimed   == {s \in freed : current(s) # delivered}
      allocated   == live' \ live
  IN /\ \A s \in Slots \ live : born[s] < MAX_BORN
     /\ TrackerEdge([ts |-> (now + d) % TS_MOD, timeout_enable |-> TRUE,
                     timeout_thresh |-> THRESH, alloc |-> alloc, resp |-> Beat(delivered),
                     reclaim |-> Beat(requested), reclaim_rsp_ready |-> ready])
     /\ Pass(d)
     /\ born' = [s \in Slots |-> IF s \in allocated THEN born[s] + 1 ELSE born[s]]
     /\ \E gone \in {{}, {delivered}} :
          fabric' = ((fabric \ gone) \cup {<<s, born'[s]>> : s \in allocated}) \cap Recent(born')
     /\ misfreed' = misfreed \cup {current(s) : s \in {t \in freed : current(t) \notin {delivered, requested}}}
     /\ unreported' = (unreported \ Reported(ready)) \cup
          {[tag |-> TagOf(current(s)), meta |-> entry[s].meta] : s \in reclaimed}

Lose == /\ \E m \in fabric : fabric' = fabric \ {m}
        /\ UNCHANGED <<trackerVars, now, age, born, misfreed, unreported>>

\* Without a response in the register reclaim_rsp_ready has no effect.
FabricNext ==
  \/ \E d \in Steps, alloc \in (Entry \ {ZeroEntry}) \cup {None},
        delivered \in fabric \cup Strays \cup {None},
        requested \in Recent(born) \cup Strays \cup {None},
        ready \in {FALSE, reclaim_rsp # None} :
        FabricEdge(d, alloc, delivered, requested, ready)
  \/ Lose

FabricSpec == FabricInit /\ [][FabricNext]_fabricVars

-----------------------------------------------------------------------------
\* No aliasing: a transaction is freed only by its own response or by a reclaim
\* that names it, never by a delayed or duplicated message about an earlier
\* occupant of the slot (the STALE_GEN and NON_LIVE response classes).
NoAlias == misfreed = {}

\* Exactly-once recovery: each reclaimed entry is reported by one OK response
\* carrying that entry's tag and metadata, however long the requester withholds
\* ready and whatever it asks for meanwhile.
ReclaimReportedOnce ==
  unreported = IF reclaim_rsp # None /\ reclaim_rsp.class = "OK"
               THEN {[tag |-> reclaim_rsp.tag, meta |-> reclaim_rsp.meta]} ELSE {}

\* Quarantine is neither early nor late: at every edge a live entry is marked
\* exactly when its true age has reached the threshold, across any number of
\* timestamp wraps (new_timeout: current_ts - issue_ts modulo 2^TS_W).
TimeoutExact == \A s \in live : s \in timed_out <=> age[s] >= THRESH

-----------------------------------------------------------------------------
(***************************************************************************)
(* Values of the constants for TLC.                                        *)
(***************************************************************************)
FabricZero    == [meta |-> 0]
FabricEntries == {FabricZero, [meta |-> 1]}
NoInputs      == {}    \* the ports are driven by FabricNext
=============================================================================
