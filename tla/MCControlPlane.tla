--------------------------- MODULE MCControlPlane ---------------------------
(***************************************************************************)
(* An instance of ControlPlane for TLC. Two configurations differ in every *)
(* field and a third is refused.                                           *)
(***************************************************************************)
EXTENDS ControlPlaneReplay

Cred(n)  == [p \in Pools |-> n]
Config(e, n, en, th, w) ==
  [window |-> w, timeout_en |-> en, timeout_thresh |-> th, cmax |-> Cred(n), epoch |-> e]

Reset0   == Config(0, 0, FALSE, 0, "none")
CfgA     == Config(1, 1, TRUE, 1, "low")
CfgB     == Config(2, 2, FALSE, 0, "high")
CfgWide  == Config(1, COUNT_MAX + 1, TRUE, 1, "low")
MCConfigs  == {Reset0, CfgA, CfgB, CfgWide}
NoWindow   == {"none"}

MCEpochs   == {0, 1, 2}
MCEntries  == [epoch : MCEpochs, meta : {0}, credit : CreditVecs]
Zero       == [epoch |-> 0, meta |-> 0, credit |-> Cred(0)]
OneCredit  == [meta |-> 0, credit |-> Cred(1)]
NoCredit   == [meta |-> 0, credit |-> Cred(0)]
NoInputs   == {}

MCInputs ==
  {in \in [ts : {0, 1}, req : {OneCredit, NoCredit, None}, downstream_ready : BOOLEAN,
           resp : Tags \cup {None}, reclaim : Tags \cup {None},
           reclaim_rsp_ready : {TRUE},
           cfg_req : {CfgA, CfgB, CfgWide, None}, cfg_rsp_ready : BOOLEAN] :
     /\ in.req # None => in.ts = 0 /\ in.downstream_ready
     /\ in.cfg_req # None => in.cfg_rsp_ready /\ in.ts = 0}

\* For progress: at most one arrival at an edge, of one valid or one refused
\* configuration. Time passes while nothing arrives.
Arrivals(in) == {p \in {"req", "resp", "reclaim", "cfg_req"} : in[p] # None}

OneArrival ==
  {in \in [ts : {0, 1}, req : {OneCredit, None}, downstream_ready : BOOLEAN,
           resp : Tags \cup {None}, reclaim : Tags \cup {None},
           reclaim_rsp_ready : {TRUE},
           cfg_req : {CfgA, CfgWide, None}, cfg_rsp_ready : BOOLEAN] :
     /\ Cardinality(Arrivals(in)) <= 1
     /\ in.ts = 1 => Arrivals(in) = {}
     /\ in.req # None => in.downstream_ready
     /\ in.cfg_req # None => in.cfg_rsp_ready}
=============================================================================
