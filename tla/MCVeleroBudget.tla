--------------------------- MODULE MCVeleroBudget ---------------------------
(* Revisions: one that fits exactly; larger and smaller pods; another        *)
(* namespace; a size that is left out; one that is not a whole number of     *)
(* units; and one that does not fit.  The units are scaled down.             *)
EXTENDS VeleroBudget

MCUnit == [r \in Resources |-> IF r \in {"requests.memory", "limits.memory"} THEN 4 ELSE 1]
MCDefault == [r \in Sizes |-> IF r \in Requests THEN 4 ELSE 8]
MCMoverLimit == [r \in Limits |-> 16]

Sized(cpu, memory) == [r \in Sizes |->
    CASE r = "requests.cpu" -> cpu [] r = "limits.cpu" -> 2 * cpu
      [] OTHER -> memory]

Of(server, agent, mover, maintenance) ==
    [server |-> server, agent |-> agent, mover |-> mover, maintenance |-> maintenance]

Ceiling(cpu, memory, pods) == [r \in Resources |->
    CASE r = "requests.cpu" -> cpu [] r = "limits.cpu" -> 2 * cpu
      [] r = "pods" -> pods [] OTHER -> memory]

Plain == [size |-> Of(Sized(5, 8), Sized(4, 4), Sized(8, 16), Sized(4, 4)),
          perNode |-> 2, namespaces |-> 1, hard |-> Ceiling(54, 92, 9)]

MCManifests == <<
    Plain,
    [Plain EXCEPT !.size["server"] = Sized(9, 12), !.hard = Ceiling(62, 100, 9)],
    [Plain EXCEPT !.size["mover"]["requests.cpu"] = 6, !.hard["requests.cpu"] = 46],
    [Plain EXCEPT !.namespaces = 2, !.hard = Ceiling(58, 96, 10)],
    [Plain EXCEPT !.size["maintenance"]["requests.cpu"] = 0,
                   !.hard["requests.cpu"] = 50],
    [Plain EXCEPT !.size["agent"] = Sized(4, 7)],
    [Plain EXCEPT !.hard = Ceiling(54, 91, 9)] >>
MCRevisions == DOMAIN MCManifests
=============================================================================
