------------------------------ MODULE MCFhMgr ------------------------------
(* A feed handler that is respawned, in a group with or without a daily      *)
(* restart, and a service of a group that is disabled.                       *)
EXTENDS FhMgr

CONSTANTS feed, idle, live, off

MCGroups == <<live, off>>
MCMembers == live :> <<feed>> @@ off :> <<idle>>
MCConfs ==
  { [serv |-> feed :> [action |-> "respawn", disable |-> "no", cli |-> "yes", shutdown |-> "yes"]
              @@ idle :> [action |-> "wait", disable |-> r, cli |-> "yes", shutdown |-> "missing"],
     grp |-> live :> [disable |-> "no", stats |-> "yes", restart |-> r]
             @@ off :> [disable |-> "missing", stats |-> "yes", restart |-> "missing"]] :
      r \in {"yes", "no"} }
=============================================================================
