----------------------------- MODULE MCCampaign -----------------------------
(***************************************************************************)
(* Campaign for TLC.                                                       *)
(***************************************************************************)
EXTENDS Campaign

Cmd(d, m) == [driver |-> d, mode |-> m]

\* The experiment workflow of README.md, from the fairness experiments on.
MCWorkflow ==
    {<<Cmd("fairness", "KSM_OFF"), Cmd("perf", "KSM_OFF"),
       Cmd("fairness", "KSM_ON"), Cmd("perf", "KSM_ON"),
       Cmd("reboot", "other"),
       Cmd("fairness", "nuKSM"), Cmd("perf", "nuKSM"),
       Cmd("reboot", "other"), Cmd("inversion", "KSM_ON"),
       Cmd("reboot", "other"), Cmd("priority", "other"),
       Cmd("complete_mod", "other")>>}

\* Any two commands: repeated, refused, in a different order.
MCAnyTwo ==
    [1..2 -> {Cmd("fairness", "KSM_OFF"), Cmd("perf", "KSM_ON"), Cmd("perf", "nuKSM"),
              Cmd("fairness", "other"), Cmd("reboot", "other"), Cmd("inversion", "KSM_ON"),
              Cmd("complete_mod", "other")}]

\* The drivers that inherit the link, after a command that leaves it or not.
MCInherited ==
    {<<c, Cmd("reboot", "other"), Cmd("priority", "other")>> :
        c \in {Cmd("inversion", "KSM_ON"), Cmd("inversion", "KSM_OFF"), Cmd("inversion", "other")}}

MCSessions == MCWorkflow \cup MCAnyTwo \cup MCInherited

MCPerf == {<<Cmd("perf", "KSM_ON")>>}
=============================================================================
