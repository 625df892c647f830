----------------------------- MODULE MCTaxiPark -----------------------------
(* Instances of TaxiPark for TLC.                                          *)
EXTENDS TaxiPark

Line(op, p, t) == [op |-> op, pid |-> p, timer |-> t]

(* Every command for two drivers, one of which may be a failed fork.       *)
TwoDriverLines ==
    {Line("create_driver", 0, 0), Line("get_drivers", 0, 0)}
    \cup {Line("send_task", 1, t) : t \in {0, 2}}
    \cup {Line("get_status", 2, 0), Line("send_task", ForkFailed, 1)}

(* One driver and all that can be said to it.                              *)
OneDriverLines ==
    {Line("create_driver", 0, 0), Line("send_task", 1, 2),
     Line("get_status", 1, 0), Line("other", 0, 0)}
=============================================================================
