---------------------------- MODULE MCMasterServer ----------------------------
(* Three data servers and two name servers: the two loops get out of step, *)
(* and the data loop reaches an index the name servers do not have.        *)
EXTENDS MasterServer

MCFaultSets == {{}, {"data", "split"}, {"name", "connect"}}
MCNameFaults == {{"name"}}
=============================================================================
