------------------------------ MODULE TokenLife -----------------------------
(***************************************************************************)
(* What a bearer credential promises: it is issued once, and once it is    *)
(* dead it is dead for the rest of its lifetime, whatever happens to the   *)
(* tables that record its death.  When its lifetime is over it has lapsed, *)
(* and does not come back.  A credential may be dead on arrival.           *)
(***************************************************************************)
CONSTANT Token

VARIABLE status

Moves == ({"unissued"} \X {"live", "dead", "lapsed"})
           \cup ({"live"} \X {"dead", "lapsed"}) \cup {<<"dead", "lapsed">>}

Init == status = [t \in Token |-> "unissued"]

Next ==
  /\ status' \in [Token -> {"unissued", "live", "dead", "lapsed"}]
  /\ \A t \in Token : status'[t] = status[t] \/ <<status[t], status'[t]>> \in Moves

Spec == Init /\ [][Next]_status
=============================================================================
