---------------------------- MODULE CreditModel ----------------------------
(***************************************************************************)
(* The independent reference model of the credit ledger                    *)
(* (tb/models/credit_model.py), written as TrackerModel is.                *)
(***************************************************************************)
EXTENDS Integers, Ports

CONSTANTS N_POOLS, COUNT_MAX, RESET_MAX, DIAG_MAX

Range0 == 0 .. N_POOLS - 1

NoError  == [type |-> "NONE", pool |-> 0, amount |-> 0]
NoEvents == [consume_ok |-> 0, consume_blocked |-> 0, return_ok |-> 0,
             return_illegal |-> 0, cfg_reject |-> 0]

sat1(c) == IF c >= DIAG_MAX THEN c ELSE c + 1

\* Credit(): err is the sticky first error, NoError while sticky is 0.
New ==
  [used |-> [p \in Range0 |-> 0], cmax |-> [p \in Range0 |-> RESET_MAX],
   hwm |-> [p \in Range0 |-> 0], err |-> NoError, c |-> NoEvents]

-----------------------------------------------------------------------------
avail(m, p)              == m.cmax[p] - m.used[p]
consume_legal(m, amount) == \A p \in Range0 : amount[p] <= avail(m, p)

\* Mutant: the return is held against the watermark.
return_legal_Hwm(m, amount) == \A p \in Range0 : amount[p] <= m.hwm[p]

return_legal(m, amount)  == \A p \in Range0 : amount[p] <= m.used[p]
unused(m)                == \A p \in Range0 : m.used[p] = 0
representable(maxima)    == \A p \in Range0 : maxima[p] <= COUNT_MAX

\* What an edge decides; a commit blocks consumption and return alike.
decode(m, inp) ==
  LET c_ok == inp.consume # None /\ consume_legal(m, inp.consume)
      r_ok == inp.return # None /\ return_legal(m, inp.return)
      fire == /\ inp.committed_max # None /\ inp.frozen_and_empty
              /\ unused(m) /\ representable(inp.committed_max)
      refuse == inp.committed_max # None /\ ~fire
  IN [cfg_fire |-> fire, cfg_refuse |-> refuse,
      cfire |-> c_ok /\ ~fire, blocked |-> inp.consume # None /\ ~c_ok /\ ~fire,
      racc  |-> r_ok /\ ~fire, illegal_ret |-> inp.return # None /\ ~r_ok /\ ~fire,
      cfg_reason |-> IF ~refuse THEN "NONE"
                     ELSE IF representable(inp.committed_max) THEN "CFG_BUSY" ELSE "CFG_UNREP"]

outputs(m, inp) ==
  LET d == decode(m, inp) IN
  [consume_ready |-> inp.consume = None \/ consume_legal(m, inp.consume),
   consume_fire |-> d.cfire, return_accepted |-> d.racc,
   cfg_commit_fire |-> d.cfg_fire, cfg_reject |-> d.cfg_refuse, cfg_reason |-> d.cfg_reason,
   used |-> m.used, available |-> [p \in Range0 |-> avail(m, p)],
   configured_max |-> m.cmax, hwm_used |-> m.hwm,
   pool_full |-> {p \in Range0 : m.used[p] = m.cmax[p]},
   pool_empty |-> {p \in Range0 : m.used[p] = 0},
   first_err |-> m.err, counters |-> m.c]

-----------------------------------------------------------------------------
(* step(), part by part; d is what decode returned. *)

new_used(m, inp, d) ==
  [p \in Range0 |-> m.used[p] + (IF d.cfire THEN inp.consume[p] ELSE 0)
                              - (IF d.racc THEN inp.return[p] ELSE 0)]

count_if(event, n) == IF event THEN sat1(n) ELSE n

events(c, d) ==
  [consume_ok      |-> count_if(d.cfire, c.consume_ok),
   consume_blocked |-> count_if(d.blocked, c.consume_blocked),
   return_ok       |-> count_if(d.racc, c.return_ok),
   return_illegal  |-> count_if(d.illegal_ret, c.return_illegal),
   cfg_reject      |-> count_if(d.cfg_refuse, c.cfg_reject)]

first(S) == CHOOSE p \in S : \A q \in S : p <= q

underflow(m, inp) ==
  LET p == first({q \in Range0 : inp.return[q] > m.used[q]})
  IN [type |-> "RETURN_UNDERFLOW", pool |-> p, amount |-> inp.return[p]]

refusal(inp, reason) ==
  [type |-> reason, amount |-> 0,
   pool |-> IF representable(inp.committed_max) THEN 0
            ELSE first({q \in Range0 : inp.committed_max[q] > COUNT_MAX})]

\* The sticky snapshot: the return branch runs first, so it wins.
snapshot(m, inp, d) ==
  IF m.err.type # "NONE" THEN m.err
  ELSE IF d.illegal_ret THEN underflow(m, inp)
  ELSE IF d.cfg_refuse THEN refusal(inp, d.cfg_reason)
  ELSE m.err

peak(hwm, u, d) ==
  [p \in Range0 |-> IF (d.cfire \/ d.racc) /\ u[p] > hwm[p] THEN u[p] ELSE hwm[p]]

step(m, inp) ==
  LET d == decode(m, inp)
      u == new_used(m, inp, d)
      maxima == IF d.cfg_fire THEN inp.committed_max ELSE m.cmax
  IN IF inp.diagnostic_clear
     THEN [used |-> u, cmax |-> maxima, hwm |-> u, err |-> NoError, c |-> NoEvents]
     ELSE [used |-> u, cmax |-> maxima, hwm |-> peak(m.hwm, u, d),
           err |-> snapshot(m, inp, d), c |-> events(m.c, d)]
=============================================================================
