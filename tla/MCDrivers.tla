------------------------------- MODULE MCDrivers -------------------------------
(***************************************************************************)
(* The drivers and services that share nothing but the main loop, one of   *)
(* them at a time: the part that runs is chosen at the start, and the      *)
(* state of the others stays as it is.                                     *)
(***************************************************************************)
EXTENDS AfFileSource, AfFileDest, AfSocketSource, AfProgram, AfInter, DnsCache, Stats,
        LogWriterWatch

VARIABLE part

Part == {"file source", "file destination", "socket source", "program", "internal",
         "dns cache", "stats", "writer watch"}

\* The counters: the group's own, and one that the two writers share.
Count(user) == IF user \in Group THEN "source(s)" ELSE "pipe(p)"

others(p) ==
  /\ p # "file source" => UNCHANGED sd_vars
  /\ p # "file destination" => UNCHANGED dd_vars
  /\ p # "socket source" => UNCHANGED source_vars
  /\ p # "program" => UNCHANGED program_vars
  /\ p # "internal" => UNCHANGED afinter_vars
  /\ p # "dns cache" => UNCHANGED dns_vars
  /\ p # "stats" => UNCHANGED stats_vars
  /\ p # "writer watch" => UNCHANGED lw_vars

\* The options of a part that does not run are not chosen.
Init ==
  /\ part \in Part
  /\ AfFileSourceInit /\ AfFileDestInit /\ AfSocketSourceInit /\ AfProgramInit
  /\ AfInterInit /\ DnsCacheInit /\ StatsInit /\ LogWriterWatchInit
  /\ part # "file destination" => ~optional /\ ~expand
  /\ part # "socket source" => ~keep_alive /\ ~sd_optional
  /\ part # "program" => dd_pid = CHOOSE p \in Pid : TRUE
  /\ part # "internal" => mark_freq = 0
  /\ part # "dns cache" => ~persist_only /\ dns_cache_size = CHOOSE n \in CacheSize : TRUE
  /\ part # "writer watch" => ~detect_eof /\ flush_lines = CHOOSE n \in FlushLines : TRUE

Next ==
  /\ UNCHANGED part
  /\ others(part)
  /\ \/ part = "file source" /\ AfFileSourceNext
     \/ part = "file destination" /\ AfFileDestNext
     \/ part = "socket source" /\ AfSocketSourceNext
     \/ part = "program" /\ AfProgramNext
     \/ part = "internal" /\ AfInterNext
     \/ part = "dns cache" /\ DnsCacheNext
     \/ part = "stats" /\ StatsNext
     \/ part = "writer watch" /\ LogWriterWatchNext

vars == <<part, sd_vars, dd_vars, source_vars, program_vars, afinter_vars, dns_vars, stats_vars,
          lw_vars>>

\* The fairness of the part that runs.
Spec ==
  /\ Init /\ [][Next]_vars
  /\ WF_vars(part = "file source" /\ DeliverLine /\ others(part) /\ UNCHANGED part)
  /\ WF_vars(part = "file source" /\ ReadFile /\ others(part) /\ UNCHANGED part)
  /\ WF_vars(part = "file source" /\ FileMoved /\ others(part) /\ UNCHANGED part)
  /\ WF_vars(part = "file destination" /\ Second /\ others(part) /\ UNCHANGED part)
  /\ WF_vars(part = "file destination" /\ Reap /\ others(part) /\ UNCHANGED part)
  /\ WF_vars(part = "program" /\ MainLoop /\ others(part) /\ UNCHANGED part)
  /\ WF_vars(part = "internal" /\ AfInterWatch /\ others(part) /\ UNCHANGED part)
  /\ WF_vars(part = "writer watch" /\ WatchStep /\ others(part) /\ UNCHANGED part)
  /\ WF_vars(part = "writer watch" /\ Tick /\ others(part) /\ UNCHANGED part)
  /\ WF_vars(part = "writer watch" /\ MakeRoom /\ others(part) /\ UNCHANGED part)
=============================================================================
