----------------------------- MODULE StatusMirror -----------------------------
(***************************************************************************)
(* What refunds.service.ts and payouts.service.ts promise about the status *)
(* in a local row: objects at Stripe go through statuses, and the row of   *)
(* an object shows one it has had.  It may lag behind and go back, but it  *)
(* shows nothing that never was, and what was recorded is not forgotten.   *)
(***************************************************************************)
CONSTANTS Object, Status, None

VARIABLES had,   \* the statuses each object has had at Stripe
          mirror \* the status in each object's local row, None without a row

Init == /\ had = [o \in Object |-> {}]
        /\ mirror = [o \in Object |-> None]

Reach(o, s) == had' = [had EXCEPT ![o] = @ \cup {s}] /\ UNCHANGED mirror

Show(o, s) == /\ s \in had[o]
              /\ mirror' = [mirror EXCEPT ![o] = s]
              /\ UNCHANGED had

Next == \E o \in Object, s \in Status : Reach(o, s) \/ Show(o, s)

Spec == Init /\ [][Next]_<<had, mirror>>
=============================================================================
