----------------------------- MODULE HdmTraffic -----------------------------
(***************************************************************************)
(* hdm_decode_top (rtl/core/hdm_decode_top.sv) with traffic around it. A   *)
(* request whose address is accepted takes a free place in flight and      *)
(* keeps the translation and the epoch it was decoded with until it is     *)
(* answered. The datapath keeps the contract the block publishes           *)
(* (docs/interface_contract.md): it admits nothing while                   *)
(* req_accept_enable is low, and outstanding_cnt counts what is in flight. *)
(***************************************************************************)
EXTENDS HdmConfig

CONSTANT InFlightPlaces   \* where transactions in flight are kept

ASSUME TrafficAssumption == IsFiniteSet(InFlightPlaces)

VARIABLES
  flight,   \* the transaction in each place, or None
  asked     \* observer: the update accepted and not yet answered, or None

trafficVars == <<hdmVars, flight, asked>>

InFlight == {p \in InFlightPlaces : flight[p] # None}

outstanding_cnt == Cardinality(InFlight)

\* What the datapath keeps of a request for address hpa.
Admitted(hpa) == [hpa |-> hpa, dpa |-> dpa_start(act.map, hpa), epoch |-> cfg_epoch]

CanAdmit(hpa) == hdm_accept_enable /\ accept(act.map, hpa)

Ask(in) ==
  asked' = IF hdm_req_accept(in) THEN [map |-> shadow, to |-> in.req]
           ELSE IF hdm_rsp # None /\ in.rsp_ready THEN None
           ELSE asked

\* An edge at which the transactions in the places done are answered and
\* nothing is admitted.
DrainEdge(in, done) ==
  /\ HdmEdge(in, outstanding_cnt, FALSE)
  /\ flight' = [q \in InFlightPlaces |-> IF q \in done THEN None ELSE flight[q]]
  /\ Ask(in)

\* One at which a request for address hpa, admissible, enters place p as well.
AdmitEdge(in, done, hpa, p) ==
  /\ HdmEdge(in, outstanding_cnt, TRUE)
  /\ flight' = [q \in InFlightPlaces |-> IF q = p THEN Admitted(hpa)
                                         ELSE IF q \in done THEN None ELSE flight[q]]
  /\ Ask(in)

TrafficInit ==
  /\ HdmInit
  /\ flight = [p \in InFlightPlaces |-> None] /\ asked = None

\* The reset is shared, so what is in flight goes too.
TrafficReset ==
  /\ HdmReset
  /\ flight' = [p \in InFlightPlaces |-> None] /\ asked' = None

\* The addresses a request could be admitted with now.
Open == {hpa \in Hpas : CanAdmit(hpa)}

Edge(in, done, open) ==
  \/ DrainEdge(in, done)
  \/ \E hpa \in open, p \in InFlightPlaces \ InFlight : AdmitEdge(in, done, hpa, p)

\* The clock ticks; a transaction is answered, a waiting response is taken.
Clock == LET open == Open IN
  \E in \in HdmInputs, done \in SUBSET InFlight : Edge(in, done, open)

Answer(p) == LET open == Open IN
  p \in InFlight /\ \E in \in HdmInputs, done \in SUBSET InFlight : p \in done /\ Edge(in, done, open)

TakeResponse == LET open == Open IN
  hdm_rsp # None /\ \E in \in HdmInputs, done \in SUBSET InFlight : in.rsp_ready /\ Edge(in, done, open)

TrafficNext == TrafficReset \/ Clock

TrafficSpec == TrafficInit /\ [][TrafficNext]_trafficVars

\* The clock runs, a transaction in flight is answered in the end (or is
\* reclaimed), and a waiting response is taken.
TrafficFairSpec ==
  /\ TrafficSpec
  /\ WF_trafficVars(Clock) /\ WF_trafficVars(TakeResponse)
  /\ \A p \in InFlightPlaces : WF_trafficVars(Answer(p))

-----------------------------------------------------------------------------
\* A transaction in flight still has the translation and the epoch it was
\* admitted with: no update of the windows overtakes it, not even one that
\* is accepted on the edge which admits it.
AdmittedStays ==
  \A p \in InFlight :
    /\ flight[p].epoch = cfg_epoch
    /\ accept(act.map, flight[p].hpa) /\ dpa_start(act.map, flight[p].hpa) = flight[p].dpa

\* Every update is answered once and the answer is true: OK with exactly what
\* the shadow held when the update was accepted in force, INVALID only for an
\* illegal one. No answer is left over for a later update to be taken for its
\* own.
AnswerTellsTruth ==
  /\ asked # None <=> hdm_state # "ACTIVE" \/ hdm_rsp # None
  /\ hdm_rsp = "OK" => act = asked
  /\ hdm_rsp = "INVALID" => ~(mapping_ok(asked.map) /\ to_legal(asked.to))

\* An accepted update is answered in the end, however busy the traffic was:
\* freezing admission lets it drain.
UpdateEnds == asked # None ~> asked = None

-----------------------------------------------------------------------------
(***************************************************************************)
(* The differential tests of window validation and decoding                *)
(* (gen_vectors.py, tb_hdm_config.sv, tb_hdm_decoder.sv): windows and      *)
(* addresses are drawn, the model is asked, and then the hardware. Here    *)
(* the windows are those that software leaves in the shadow registers,     *)
(* legal or not, and the addresses are all of them.                        *)
(***************************************************************************)
Ref == INSTANCE HdmModel

\* What the validator and the decoder show, in the fields of the model's answers.
DecoderPorts(m, hpa) ==
  [miss |-> miss(m, hpa), overlap |-> overlap_reject(m, hpa), single |-> single_match(m, hpa),
   unaligned |-> ~aligned(hpa), win_id |-> win_id(m, hpa),
   verdict |-> [line_oob |-> line_oob(m, hpa), ovf |-> xlate_overflow(m, hpa),
                oob |-> dpa_oob(m, hpa),
                dpa |-> IF translated(m, hpa) THEN dpa_start(m, hpa) % DPA_SPACE ELSE 0,
                accept |-> accept(m, hpa)]]

\* The answers of the two implementations on mapping m.
ReasonsAgree(m)  == /\ shadow_reason(m) = Ref!validate(m)
                    /\ mapping_ok(m) <=> Ref!validate(m) = "OK"
DecodingsAgree(m) == \A hpa \in Hpas : DecoderPorts(m, hpa) = Ref!decode(m, hpa)

\* Whatever windows software leaves in the shadow, the hardware refuses them for
\* the reason the model gives, and would decode every address as the model does,
\* the fail-closed verdicts on illegal windows included.
HdmMatchesModel == ReasonsAgree(shadow) /\ DecodingsAgree(shadow)
-----------------------------------------------------------------------------
(***************************************************************************)
(* Values of the constants for TLC. Two windows over eight addresses, in   *)
(* lines of two. Window 0 may be programmed to the lower half, window 1 to *)
(* the upper half, which ends at the top of the address space, or to one   *)
(* that overlaps the lower half; the smaller capacity ends in the middle   *)
(* of window 0. An edge may bring a write, or the taking of a response,    *)
(* together with a request.                                                *)
(***************************************************************************)
lower    == [en |-> TRUE, base |-> 0, size |-> 4, dpa |-> 4]
upper    == [en |-> TRUE, base |-> 4, size |-> 4, dpa |-> 0]
straddle == [en |-> TRUE, base |-> 2, size |-> 4, dpa |-> 0]
ragged   == [en |-> TRUE, base |-> 2, size |-> 3, dpa |-> 6]

NoWrite == [shadow_write |-> None, cap_write |-> None]

HdmWrites ==
  {NoWrite}
  \cup {[NoWrite EXCEPT !.shadow_write = [idx |-> w[1], win |-> w[2]]] :
          w \in {<<0, lower>>, <<1, upper>>, <<1, straddle>>, <<0, ragged>>}}
  \cup {[NoWrite EXCEPT !.cap_write = c] : c \in {6, 8}}

UpdateRequests == {None, [en |-> TRUE, thresh |-> 1], [en |-> TRUE, thresh |-> 2]}

HdmInputSample ==
  {[shadow_write |-> w.shadow_write, cap_write |-> w.cap_write, req |-> r, rsp_ready |-> FALSE] :
     w \in HdmWrites, r \in UpdateRequests}
  \cup {[shadow_write |-> None, cap_write |-> None, req |-> r, rsp_ready |-> TRUE] : r \in UpdateRequests}
=============================================================================
