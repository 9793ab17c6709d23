----------------------------- MODULE HdmDecode -----------------------------
(***************************************************************************)
(* Address windows: what makes a set of them legal (the combinational part *)
(* of rtl/csr/hdm_config.sv), and how an address is decoded against them   *)
(* (rtl/core/hdm_decoder.sv, rtl/core/dpa_translator.sv). All sums have    *)
(* guard bits in the RTL and are plain integers here.                      *)
(***************************************************************************)
EXTENDS Integers, FiniteSets

CONSTANTS
  N_WIN,
  HPA_SPACE,   \* 2^HPA_W
  DPA_SPACE,   \* 2^DPA_W
  LINE         \* bytes of a cache line

ASSUME HdmSizeAssumption ==
  /\ N_WIN \in Nat \ {0} /\ LINE \in Nat \ {0}
  /\ HPA_SPACE \in Nat \ {0} /\ DPA_SPACE \in Nat \ {0}

WinIds == 0 .. N_WIN - 1
Hpas   == 0 .. HPA_SPACE - 1

Window == [en : BOOLEAN, base : Hpas, size : Hpas, dpa : 0 .. DPA_SPACE - 1]

Capacities == 0 .. 2 * DPA_SPACE - 1

\* A set of windows on a device of capacity cap.
Mapping == [win : [WinIds -> Window], cap : Capacities]

limit(w)   == w.base + w.size
aligned(a) == a % LINE = 0

-----------------------------------------------------------------------------
(* Validation. *)

\* Mutant: a window may reach one line past the device.
window_ok_PastCap(w, cap) ==
  w.en => /\ w.size # 0 /\ aligned(w.base) /\ aligned(w.size) /\ aligned(w.dpa)
          /\ limit(w) <= HPA_SPACE
          /\ w.dpa + w.size <= DPA_SPACE /\ w.dpa + w.size <= cap + LINE

window_ok(w, cap) ==
  w.en => /\ w.size # 0 /\ aligned(w.base) /\ aligned(w.size) /\ aligned(w.dpa)
          /\ limit(w) <= HPA_SPACE
          /\ w.dpa + w.size <= DPA_SPACE /\ w.dpa + w.size <= cap

\* The reason the block reports: the first rule broken by the lowest window that
\* breaks one.
win_reason(w, cap) ==
  IF ~w.en                          THEN "OK"
  ELSE IF w.size = 0                THEN "ZERO_SIZE"
  ELSE IF ~aligned(w.base)          THEN "BASE_ALIGN"
  ELSE IF ~aligned(w.size)          THEN "SIZE_ALIGN"
  ELSE IF ~aligned(w.dpa)           THEN "DPA_ALIGN"
  ELSE IF limit(w) > HPA_SPACE      THEN "HPA_OVF"
  ELSE IF w.dpa + w.size > DPA_SPACE THEN "DPA_OVF"
  ELSE IF w.dpa + w.size > cap      THEN "CAP_EXCEED"
  ELSE "OK"

overlap(v, w) == v.en /\ w.en /\ v.base < limit(w) /\ w.base < limit(v)

mapping_ok(m) ==
  /\ \A i \in WinIds : window_ok(m.win[i], m.cap)
  /\ \A i, j \in WinIds : i < j => ~overlap(m.win[i], m.win[j])

shadow_reason(m) ==
  LET bad == {i \in WinIds : win_reason(m.win[i], m.cap) # "OK"}
  IN IF bad # {}
     THEN win_reason(m.win[CHOOSE i \in bad : \A j \in bad : i <= j], m.cap)
     ELSE IF \E i, j \in WinIds : i < j /\ overlap(m.win[i], m.win[j]) THEN "OVERLAP"
     ELSE "OK"

-----------------------------------------------------------------------------
(* Decoding. *)

match_onehot(m, hpa) ==
  {i \in WinIds : m.win[i].en /\ m.win[i].base <= hpa /\ hpa < limit(m.win[i])}

miss(m, hpa)           == match_onehot(m, hpa) = {}
single_match(m, hpa)   == \E i \in WinIds : match_onehot(m, hpa) = {i}
overlap_reject(m, hpa) == ~miss(m, hpa) /\ ~single_match(m, hpa)

\* The diagnostic index: the lowest match, window 0 without one.
win_id(m, hpa) ==
  IF miss(m, hpa) THEN 0
  ELSE CHOOSE i \in match_onehot(m, hpa) : \A j \in match_onehot(m, hpa) : i <= j

selected(m, hpa) == m.win[win_id(m, hpa)]

line_oob(m, hpa) == single_match(m, hpa) /\ hpa + LINE - 1 >= limit(selected(m, hpa))

offset(m, hpa)    == hpa - selected(m, hpa).base
dpa_start(m, hpa) == selected(m, hpa).dpa + offset(m, hpa)
dpa_end(m, hpa)   == dpa_start(m, hpa) + LINE - 1

translated(m, hpa)     == single_match(m, hpa) /\ offset(m, hpa) >= 0
underflow(m, hpa)      == single_match(m, hpa) /\ offset(m, hpa) < 0
xlate_overflow(m, hpa) == translated(m, hpa) /\ dpa_end(m, hpa) >= DPA_SPACE
dpa_oob(m, hpa)        == translated(m, hpa) /\ dpa_end(m, hpa) >= m.cap

accept(m, hpa) ==
  /\ translated(m, hpa) /\ aligned(hpa)
  /\ ~line_oob(m, hpa) /\ ~xlate_overflow(m, hpa) /\ ~dpa_oob(m, hpa)

-----------------------------------------------------------------------------
\* Validator and decoder agree: with legal windows the decoder's fail-closed
\* verdicts never occur, a line that starts in a window is always accepted,
\* and all of it lies on the device.
DecodesCleanly(m) ==
  \A hpa \in Hpas :
    /\ ~overlap_reject(m, hpa) /\ ~underflow(m, hpa)
    /\ aligned(hpa) /\ ~miss(m, hpa) => accept(m, hpa)
    /\ accept(m, hpa) => /\ aligned(dpa_start(m, hpa))
                         /\ dpa_start(m, hpa) >= 0
                         /\ dpa_start(m, hpa) + LINE <= m.cap
=============================================================================
