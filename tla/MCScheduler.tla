---------------------------- MODULE MCScheduler ----------------------------
(* The configurations a schedule is checked with. *)
EXTENDS Scheduler

Conf(type, interval, skip, cap) ==
    [type |-> type, interval |-> interval, skip |-> skip, cap |-> cap]

MCConfigs ==
    {Conf("ONCE", 1, TRUE, Never), Conf("INTERVAL", 1, TRUE, Never),
     Conf("INTERVAL", 2, TRUE, 1), Conf("INTERVAL", 1, FALSE, Never),
     Conf("CRON", 1, TRUE, Never)}
=============================================================================
