---------------------------- MODULE MCNightPhases ----------------------------
(* Instances of NightPhases for TLC: the handlers the build registers, in    *)
(* the order of night_modules, and an index list with a name that leads to   *)
(* another directory.                                                        *)
EXTENDS NightPhases

MCRegistered ==
    [p \in {Phases[i] : i \in 1..10} |->
        CASE p = "SERVER_REWRITE" -> <<"server_rewrite">>
          [] p = "REWRITE" -> <<"rewrite">>
          [] p = "PREACCESS" -> <<"limit_conn", "limit_req">>
          [] p = "ACCESS" -> <<"auth_basic", "access">>
          [] p = "PRECONTENT" -> <<"mirror", "try_files">>
          [] p = "CONTENT" -> <<"static", "autoindex", "index">>
          [] OTHER -> <<>>]
MCIndices == <<FALSE, TRUE>>
=============================================================================
