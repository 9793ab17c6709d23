------------------------------ MODULE HdmModel ------------------------------
(***************************************************************************)
(* The independent reference model of window validation and decoding       *)
(* (tb/models/hdm_model.py), a second implementation of HdmDecode. A       *)
(* Config object is a mapping as it is there: windows, and the capacity.   *)
(***************************************************************************)
EXTENDS Integers

CONSTANTS N_WIN, HPA_SPACE, DPA_SPACE, LINE

Enabled(cfg) == {i \in 0 .. N_WIN - 1 : cfg.win[i].en}

\* The rules of one window, in the order in which they are looked at.
broken(w, cap) ==
  IF w.size = 0                       THEN "ZERO_SIZE"
  ELSE IF w.base % LINE # 0           THEN "BASE_ALIGN"
  ELSE IF w.size % LINE # 0           THEN "SIZE_ALIGN"
  ELSE IF w.dpa % LINE # 0            THEN "DPA_ALIGN"
  ELSE IF w.base + w.size > HPA_SPACE THEN "HPA_OVF"
  ELSE IF w.dpa + w.size > DPA_SPACE  THEN "DPA_OVF"
  ELSE IF w.dpa + w.size > cap        THEN "CAP_EXCEED"
  ELSE "OK"

overlapping(cfg) ==
  \E i, j \in Enabled(cfg) :
    LET a == cfg.win[i] b == cfg.win[j]
    IN i < j /\ a.base < b.base + b.size /\ b.base < a.base + a.size

\* The first rule broken by the first window that breaks one, or OK.
validate(cfg) ==
  LET bad == {i \in Enabled(cfg) : broken(cfg.win[i], cfg.cap) # "OK"}
  IN IF bad # {}
     THEN broken(cfg.win[CHOOSE i \in bad : \A j \in bad : i <= j], cfg.cap)
     ELSE IF overlapping(cfg) THEN "OVERLAP" ELSE "OK"

matches(cfg, hpa) ==
  {i \in Enabled(cfg) : cfg.win[i].base <= hpa /\ hpa < cfg.win[i].base + cfg.win[i].size}

\* Mutant: only the first byte of the line is looked at, as the header of
\* hdm_model.py has it.
verdict_StartOnly(w, cap, hpa) ==
  LET dpa      == w.dpa + (hpa - w.base)
      line_oob == hpa + LINE - 1 >= w.base + w.size
      ovf      == dpa >= DPA_SPACE
      oob      == dpa >= cap
  IN [line_oob |-> line_oob, ovf |-> ovf, oob |-> oob, dpa |-> dpa % DPA_SPACE,
      accept |-> hpa % LINE = 0 /\ ~line_oob /\ ~ovf /\ ~oob]

\* The verdict on the line that starts at hpa, from the window w of its only match.
verdict(w, cap, hpa) ==
  LET dpa      == w.dpa + (hpa - w.base)
      line_oob == hpa + LINE - 1 >= w.base + w.size
      ovf      == dpa + LINE - 1 >= DPA_SPACE
      oob      == dpa + LINE - 1 >= cap
  IN [line_oob |-> line_oob, ovf |-> ovf, oob |-> oob, dpa |-> dpa % DPA_SPACE,
      accept |-> hpa % LINE = 0 /\ ~line_oob /\ ~ovf /\ ~oob]

NoVerdict == [line_oob |-> FALSE, ovf |-> FALSE, oob |-> FALSE, dpa |-> 0, accept |-> FALSE]

decode(cfg, hpa) ==
  LET hit == matches(cfg, hpa)
      single == \E i \in hit : hit = {i}
  IN [miss |-> hit = {}, overlap |-> hit # {} /\ ~single, single |-> single,
      unaligned |-> hpa % LINE # 0,
      win_id |-> IF hit = {} THEN 0 ELSE CHOOSE i \in hit : \A j \in hit : i <= j,
      verdict |-> IF single THEN verdict(cfg.win[CHOOSE i \in hit : TRUE], cfg.cap, hpa)
                  ELSE NoVerdict]
=============================================================================
