----------------------------- MODULE MCLibTime -----------------------------
(***************************************************************************)
(* Small applications for LibTime: the zones are three, of which `paris'   *)
(* is in daylight saving.                                                  *)
(***************************************************************************)
EXTENDS LibTime, TLC

CONSTANTS rome, paris, oslo, nozone, t1, t2

Name(form, zone) == [form |-> form, zone |-> zone]

Sync == [kind |-> "sync"]
SetTz == [kind |-> "set", key |-> "tz", val |-> Name(":", paris)]
SetAutosync == [kind |-> "set", key |-> "autosync", val |-> "0"]
AskNet == [kind |-> "ask"]
UseLocal == [kind |-> "local"]
Remote == [kind |-> "dst", tz |-> Name("", paris)]

\* The network's zone has a slash before it.
NetworkZone == [key |-> "tz", val |-> Name("/", rome)]

SomeCalls ==
  {Sync, SetTz, SetAutosync, Remote, AskNet, UseLocal,
   [kind |-> "read", key |-> "autosync"]}

NetworkChanges == {NetworkZone}

Started ==
  [tz |-> Name(":", oslo), time_format |-> "%R", operator_time |-> "1",
   autosync |-> "1", default_tz |-> Name("", oslo), time |-> "now",
   net_time |-> "none"]

SomeLosses == {"tz", "net_time"}

SameThreads == Permutations(Threads)
=============================================================================
