----------------------------- MODULE AccessGroups -----------------------------
(* The groups of the daemon's access database and who is in them               *)
(* (node/access/src/db.rs, schema.rs), as the HTTP API changes them             *)
(* (node/daemon/src/api/access_routes.rs).  What a group permits is read by the *)
(* engine, who is in it by the capabilities.                                    *)
CONSTANTS
  Peer, Group,
  BuiltIn     \* default, friends and trusted, seeded with the schema

ASSUME AccessAssumption == BuiltIn \subseteq Group

VARIABLES
  group,      \* group[g]: "new", "there" or "deleted"; an id is never used twice
  member      \* member[p]: the groups of p

accessVars == <<group, member>>

\* run_migrations and seed_built_in_groups; custom groups may be there already.
AccessInit ==
  /\ group \in {s \in [Group -> {"new", "there"}] : \A g \in BuiltIn : s[g] = "there"}
  /\ member \in {s \in [Peer -> SUBSET Group] :
                   \A p \in Peer : \A g \in s[p] : group[g] = "there"}

\* get_group, which every change of a group or of its members begins with.
There(g) == group[g] = "there"

Created(g) == group' = [group EXCEPT ![g] = "there"]
CreateGroup(g) ==
  /\ group[g] = "new" /\ Created(g)
  /\ UNCHANGED member

\* The built-in ones stay; memberships go with the group.
Deleted(g) ==
  /\ group' = [group EXCEPT ![g] = "deleted"]
  /\ member' = [p \in Peer |-> member[p] \ {g}]
DeleteGroup(g) == There(g) /\ g \notin BuiltIn /\ Deleted(g)

\* INSERT OR IGNORE, of a group that exists.
Assigned(p, g) == member' = [member EXCEPT ![p] = @ \cup {g}]
AssignPeer(p, g) ==
  /\ There(g) /\ Assigned(p, g)
  /\ UNCHANGED group

Removed(p, gone) == member' = [member EXCEPT ![p] = @ \ gone]
RemovePeer(p, g) ==
  /\ g \in member[p] /\ Removed(p, {g})
  /\ UNCHANGED group

\* deny_peer; the session it closes is the engine's.
DenyPeer(p) == Removed(p, Group) /\ UNCHANGED group

AccessNext ==
  \/ \E g \in Group : CreateGroup(g) \/ DeleteGroup(g)
  \/ \E p \in Peer : DenyPeer(p) \/ \E g \in Group : AssignPeer(p, g) \/ RemovePeer(p, g)

\* list_peer_groups.
GroupsOf(p) == {g \in member[p] : There(g)}

AccessTypeOK ==
  /\ group \in [Group -> {"new", "there", "deleted"}]
  /\ member \in [Peer -> SUBSET Group]
================================================================================
