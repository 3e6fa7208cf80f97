------------------------- MODULE MCServiceLifecycle -------------------------
(* Small instances of ServiceLifecycle.                                    *)
EXTENDS ServiceLifecycle

CONSTANTS app, db, mine, r1, r2, server, worker

NoDependency == [s \in Services |-> NoService]
AppOnDb == [s \in Services |-> IF s = app THEN db ELSE NoService]

OneServer == [r \in Requests |-> server]

AnyOperation == [r \in Requests |-> Operations \X Services]
OnlyUpdates == [r \in Requests |-> {"install", "update"} \X Services]

(* One administrator; the dependency is installed with its app only.       *)
OnApp ==
  [r \in Requests |->
     {"install", "reinstall", "update", "uninstall", "edit", "start", "stop", "sync"}
       \X {app}]

(* Two tabs and the poll of the Apps page.                                 *)
TwoTabs ==
  [r \in Requests |-> IF r = r1 THEN {"install", "update", "uninstall"} \X {app}
                       ELSE {"install", "reinstall", "update", "sync"} \X {app}]
=============================================================================
