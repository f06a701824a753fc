----------------------------- MODULE MCSettings -----------------------------
(* Instances of Settings for TLC.                                          *)
EXTENDS Settings, TLC

Limits(write, open, move, type, launch, fault) ==
  "write" :> write @@ "open" :> open @@ "move" :> move @@ "type" :> type
    @@ "launch" :> launch @@ "fault" :> fault
LimitAll == Limits(3, 2, 2, 3, 1, 1)
Cities == <<"Tokyo", "Oslo">>
=============================================================================
