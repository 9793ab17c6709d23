------------------------------ MODULE MCSubsys ------------------------------
(***************************************************************************)
(* The instance of the memory datapath beside its model.                   *)
(***************************************************************************)
EXTENDS MemSubsysReplay

CONSTANTS MCTags, MCAddrs, OtherTags

MCData   == {0, 1}
Zero     == [tag |-> CHOOSE t \in MCTags : TRUE, wr |-> FALSE,
             adr |-> CHOOSE a \in MCAddrs : TRUE, wdat |-> 0]

\* A read carries no data; the writes of each tag carry a value of its own.
Accesses == {t \in Txn : t.wdat = (IF t.wr /\ t.tag # Zero.tag THEN 1 ELSE 0)}

\* Writes and reads that contend for one address, and reads of the other one
\* with tags of their own. There is one tag more than slots, so that a
\* transaction can arrive at a full table.
Contended ==
  {t \in Accesses :
     IF t.adr = Zero.adr THEN t.tag \notin OtherTags ELSE t.tag \in OtherTags /\ ~t.wr}

MCInputs == [iss : Contended \cup {None}, rsp_ready : BOOLEAN]
=============================================================================
