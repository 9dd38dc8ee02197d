---------------------------- MODULE MCNamespace ----------------------------
(* Name-space scenarios: one task that does everything, with and without     *)
(* directory renames and memory shortage; two tasks that create.             *)
EXTENDS Namespace

CONSTANTS a, b, t1, t2

MCPaths == {<<a>>, <<b>>, <<a, a>>, <<b, a>>}
MCModes ==
    {[tasks |-> {t1}, what |-> {"file", "dir"}, odd |-> {}, inos |-> 4],
     [tasks |-> {t1}, what |-> {"dir"}, odd |-> {"dirs"}, inos |-> 4],
     [tasks |-> {t1}, what |-> {"file", "dir"}, odd |-> {"dirs"}, inos |-> 3],
     [tasks |-> {t1}, what |-> {"file", "dir", "link"}, odd |-> {"oom"}, inos |-> 3],
     [tasks |-> {t1}, what |-> {"file", "dir"}, odd |-> {"below"}, inos |-> 3],
     [tasks |-> {t1}, what |-> {"file", "link"}, odd |-> {}, inos |-> 3],
     [tasks |-> {t1, t2}, what |-> {"file", "dir", "link", "dev"}, odd |-> {}, inos |-> 3]}
=============================================================================
