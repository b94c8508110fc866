--------------------------- MODULE MCSeedMutation ---------------------------
(* A switch, a number and a prepared parameter, related in the ways that   *)
(* matter: a default value that crosses types, a control dependency, and   *)
(* two relations of one pair.                                              *)
EXTENDS SeedMutation

Row(kind, a, b) == [kind |-> kind, a |-> a, b |-> b]

MCMutable == <<"switch", "number", "root">>
MCTypeOf == [switch |-> "BOOL", number |-> "INT", root |-> "CHOICE"]
MCDefault == [switch |-> "True", number |-> "0", root |-> "dir"]
MCPrepared == <<[name |-> "root", type |-> "CHOICE", value |-> "prepared"]>>

Crossing == <<Row("Default Value Dependency", "switch", "number")>>
Control == <<Row("Control Dependency", "switch", "number")>>
Twofold == <<Row("Behavior Dependency", "number", "root"), Row("Overwrite", "root", "number")>>

Setting(mutator, guided, plain, project, rows) ==
    [mutator |-> mutator, guided |-> guided, plain |-> plain, project |-> project,
     optioned |-> {"switch", "number"}, rows |-> rows]

MCSettings ==
    {Setting("Single", FALSE, FALSE, "hadoop-common", Crossing),
     Setting("Stacked", FALSE, FALSE, "hadoop-common", Control),
     Setting("Smart", TRUE, FALSE, "hbase", <<>>),
     Setting("Single", FALSE, FALSE, "other", Twofold),
     Setting("Single", FALSE, TRUE, "other", Control),
     Setting("Ceit", FALSE, FALSE, "hbase", <<>>)}
=============================================================================
