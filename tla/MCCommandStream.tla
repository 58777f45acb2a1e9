---- MODULE MCCommandStream ----
(* Two instances, of which a behaviour moves one: CommandStream itself, where *)
(* the guest's memory is not limited, and Limit, where it is.                 *)
EXTENDS CommandStream
VARIABLES which, l_gtable, l_table, l_held, l_mem, l_sending, l_stream, l_views,
          l_rend, l_fromHost, l_torn

Limit == INSTANCE CommandStream WITH
  Res <- {"r1", "r2", "r3"}, Sizes <- {1, 2}, MaxMem <- 3, MaxLoads <- 1,
  StreamCap <- 1, ResCap <- 1, gtable <- l_gtable, table <- l_table,
  held <- l_held, mem <- l_mem, sending <- l_sending, stream <- l_stream,
  views <- l_views, rend <- l_rend, fromHost <- l_fromHost, torn <- l_torn

limitVars == <<l_gtable, l_table, l_held, l_mem, l_sending, l_stream, l_views,
               l_rend, l_fromHost, l_torn>>
mcvars == <<which, vars, limitVars>>

MCInit == which \in {"stream", "limit"} /\ Init /\ Limit!Init

MCNext ==
  \/ which = "stream" /\ Next /\ UNCHANGED <<which, limitVars>>
  \/ which = "limit" /\ Limit!Next /\ UNCHANGED <<which, vars>>

MCSpec == MCInit /\ [][MCNext]_mcvars /\ Fairness

\* The renderer never reads a patch list for ever (load_resource_patched); and
\* with a limit backing storage is accounted for however resources end, and is
\* never more than the limit (gpu_device_attach, _detach, _free_res).
EndsWithinLimit == LoadFinishes /\ []Limit!MemoryKept
====
