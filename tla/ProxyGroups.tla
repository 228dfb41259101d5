----------------------------- MODULE ProxyGroups ------------------------------
(***************************************************************************)
(* Proxy groups: what refers to them (services/                            *)
(* proxy_management_service.py, account groups in api/accounts.py and      *)
(* services/sub2api_service.py) and the image slots of their nodes, taken  *)
(* for each attempt of an image request (services/proxy_service.py and     *)
(* services/openai_backend_api.py, used in _generate_single_image).        *)
(* Groups are edited while requests choose a node, wait for one and hold   *)
(* one, and a request that ends in between may never give its slot back.   *)
(***************************************************************************)
EXTENDS FiniteSets, Naturals

CONSTANTS
  Groups,      \* identifiers of proxy groups
  Nodes,       \* nodes of a group
  Requests,    \* image requests
  MaxLimit,    \* bound: image slots of a node
  MaxEdits,    \* bound: changes of the configuration
  MaxTries     \* bound: attempts of a request

\* A reference to a group names its kind (group:<id>): it is none of the others.
ASSUME ProxyAssumption ==
  /\ MaxLimit \in Nat /\ MaxEdits \in Nat /\ MaxTries \in Nat
  /\ Groups \cap {"unset", "direct", "none"} = {}

VARIABLES
  groups,     \* group -> its enabled nodes with their limits, 0 for none; empty: no such group
  enabled,    \* group -> it may be used
  refs,       \* owner -> the proxy reference it has
  importing,  \* the account groups a Sub2API import has read and not yet written
  overwrote,  \* history: an import wrote account groups that had changed since
  egressInflight,   \* group -> node -> slots taken (_egress_inflight)
  attempts,   \* request -> its attempt
  leaked,     \* history: group -> node -> slots of requests that ended without giving them back
  widest,     \* history: group -> node -> the greatest limit it had
  edits

proxyVars == <<groups, enabled, refs, importing, overwrote, egressInflight, attempts, leaked, widest,
               edits>>
configuration == <<groups, enabled, refs, importing, overwrote, widest, edits>>
slots == <<egressInflight, leaked, attempts>>

Owners == {"account", "account group", "default", "fallback"}
References == {"unset", "direct"} \cup Groups
NoNodes == [n \in {} |-> 0]
Layouts == UNION {[ns -> 0..MaxLimit] : ns \in (SUBSET Nodes) \ {{}}}
NothingRead == "nothing"

NoRequest == [at |-> "idle", account |-> "unset", group |-> "none", node |-> "none", limit |-> 0,
              nodes |-> NoNodes, tries |-> 0, fallback |-> FALSE]
NoSlots == [g \in Groups |-> [n \in Nodes |-> 0]]

ProxyTypeOK ==
  /\ refs \in [Owners -> References]
  /\ importing \in References \cup {NothingRead}
  /\ egressInflight \in [Groups -> [Nodes -> Nat]] /\ leaked \in [Groups -> [Nodes -> Nat]]
  /\ \A r \in Requests : attempts[r].at \in {"idle", "waiting", "building", "streaming", "ended"}

ProxyInit ==
  /\ groups = [g \in Groups |-> NoNodes]
  /\ enabled = [g \in Groups |-> TRUE]
  /\ refs = [o \in Owners |-> IF o = "default" THEN "direct" ELSE "unset"]
  /\ importing = NothingRead /\ overwrote = FALSE
  /\ egressInflight = NoSlots /\ leaked = NoSlots /\ widest = NoSlots
  /\ attempts = [r \in Requests |-> NoRequest]
  /\ edits = 0

-----------------------------------------------------------------------------
(* The configuration *)

Edit == edits < MaxEdits /\ edits' = edits + 1

Usable(g) == enabled[g] /\ groups[g] # NoNodes

\* save_group
SaveGroup(g) ==
  /\ Edit
  /\ \E layout \in Layouts, on \in BOOLEAN :
       /\ groups' = [groups EXCEPT ![g] = layout]
       /\ enabled' = [enabled EXCEPT ![g] = on]
       /\ widest' = [widest EXCEPT ![g] = [n \in Nodes |->
            IF n \in DOMAIN layout /\ layout[n] > widest[g][n] THEN layout[n] ELSE widest[g][n]]]
  /\ UNCHANGED <<refs, importing, overwrote, slots>>

\* _group_reference_map
Referred(g) == \E o \in Owners : refs[o] = g

\* delete_group, under the lock that assignments take
DeleteGroup(g) ==
  /\ Edit
  /\ groups[g] # NoNodes /\ ~Referred(g)
  /\ groups' = [groups EXCEPT ![g] = NoNodes]
  /\ UNCHANGED <<enabled, refs, importing, overwrote, slots, widest>>

\* _normalize_assignment_reference: an account or an account group is given a
\* group that can be used, ...
Assignable(ref) == ref \in Groups => Usable(ref)

\* ... and, _serialize_reference, a default route one that exists.
Routable(ref) == ref \in Groups => groups[ref] # NoNodes

\* mutate_assignment_references: validated and stored under one lock.
Assign(o, ref) ==
  /\ Edit
  /\ ref # refs[o]
  /\ refs' = [refs EXCEPT ![o] = ref]
  /\ UNCHANGED <<groups, enabled, importing, overwrote, slots, widest>>

\* update_account and the accounts that are added
AssignToAccount == \E ref \in References : Assignable(ref) /\ Assign("account", ref)

\* _upsert_account_group
SaveAccountGroup == \E ref \in References : Assignable(ref) /\ Assign("account group", ref)

\* save_defaults
SaveDefaults ==
  \E ref \in References :
    /\ Routable(ref)
    /\ Assign("fallback", ref) \/ (ref # "unset" /\ Assign("default", ref))

\* The account group is deleted.
DeleteAccountGroup ==
  /\ Edit
  /\ refs["account group"] # "unset"
  /\ refs' = [refs EXCEPT !["account group"] = "unset"]
  /\ UNCHANGED <<groups, enabled, importing, overwrote, slots, widest>>

\* _ensure_local_account_group: an import that adds an account group reads the
\* list ...
ImportReadsGroups ==
  /\ Edit
  /\ importing = NothingRead
  /\ importing' = refs["account group"]
  /\ UNCHANGED <<groups, enabled, refs, overwrote, slots, widest>>

\* ... and writes it back, under a lock of its own.
ImportWritesGroups ==
  /\ importing # NothingRead
  /\ overwrote' = (overwrote \/ importing # refs["account group"])
  /\ refs' = [refs EXCEPT !["account group"] = importing]
  /\ importing' = NothingRead
  /\ UNCHANGED <<groups, enabled, slots, widest, edits>>

-----------------------------------------------------------------------------
(* Requests *)

Becomes(r, attempt) == attempts' = [attempts EXCEPT ![r] = attempt]

\* The account as it is read when the backend is made; and a request that runs
\* again asked for the fallback, which it drops: its account is managed, and the
\* head of the loop clears what the last attempt asked for.
Begun(a) == [a EXCEPT !.tries = @ + 1, !.fallback = FALSE, !.account = refs["account"]]

\* get_fallback_profile; get_profile: the account, its group, the default.
Route(a) ==
  IF a.fallback THEN refs["fallback"]
  ELSE IF a.account # "unset" THEN a.account
  ELSE IF refs["account group"] # "unset" THEN refs["account group"]
  ELSE refs["default"]

\* Another attempt begins by resolving its route; a group is read once.
BeginAttempt(r) ==
  /\ attempts[r].at = "idle" /\ attempts[r].tries < MaxTries
  /\ LET begun == Begun(attempts[r])
         route == Route(begun) IN
     \/ route \notin Groups /\ Becomes(r, [begun EXCEPT !.at = "building"])
     \/ /\ route \in Groups /\ Usable(route)
        /\ Becomes(r, [begun EXCEPT !.at = "waiting", !.group = route, !.nodes = groups[route]])
     \/ /\ route \in Groups /\ ~Usable(route)
        /\ Becomes(r, [NoRequest EXCEPT !.at = "ended"])
  /\ UNCHANGED <<configuration, egressInflight, leaked>>

\* _proxy_node_has_image_capacity, by the limits read when the wait began
HasCapacity(r, n) ==
  LET a == attempts[r] IN a.nodes[n] = 0 \/ egressInflight[a.group][n] < a.nodes[n]

\* _resolve_proxy_group: a node is chosen and, when it has a limit, reserved.
TakeNode(r) ==
  /\ attempts[r].at = "waiting"
  /\ \E n \in DOMAIN attempts[r].nodes :
       LET limit == attempts[r].nodes[n] IN
       /\ HasCapacity(r, n)
       /\ Becomes(r, [attempts[r] EXCEPT !.at = "building", !.node = n, !.limit = limit,
                                          !.nodes = NoNodes])
       /\ egressInflight' = IF limit = 0 THEN egressInflight
                      ELSE [egressInflight EXCEPT ![attempts[r].group][n] = @ + 1]
  /\ UNCHANGED <<configuration, leaked>>

\* The deadline passes while it waits.
WaitExpires(r) ==
  /\ attempts[r].at = "waiting"
  /\ Becomes(r, [NoRequest EXCEPT !.at = "ended"])
  /\ UNCHANGED <<configuration, egressInflight, leaked>>

\* The constructor of the backend went through.
BuildBackend(r) ==
  /\ attempts[r].at = "building"
  /\ Becomes(r, [attempts[r] EXCEPT !.at = "streaming"])
  /\ UNCHANGED <<configuration, egressInflight, leaked>>

\* The route of the clearance, resolved anew: the account read before, its group
\* as it is now, then the proxy that was chosen.
ClearanceRoute(a) ==
  IF a.account # "unset" THEN a.account
  ELSE IF refs["account group"] # "unset" THEN refs["account group"]
  ELSE IF a.node # "none" THEN "none" ELSE refs["default"]

\* The constructor raises at the clearance when the group cannot be used any more:
\* there is no backend yet to whose proxy the slot could be given back.
ClearanceFails(r) ==
  LET a == attempts[r]
      route == ClearanceRoute(a) IN
  /\ a.at = "building"
  /\ route \in Groups /\ ~Usable(route)
  /\ leaked' = IF a.limit = 0 THEN leaked ELSE [leaked EXCEPT ![a.group][a.node] = @ + 1]
  /\ Becomes(r, [NoRequest EXCEPT !.at = "ended"])
  /\ UNCHANGED <<configuration, egressInflight>>

\* Mutant: a slot is given back by the limit its node has now.
ReleasesByConfiguration(a) ==
  IF a.group \in Groups /\ a.node \in DOMAIN groups[a.group] /\ groups[a.group][a.node] > 0
     /\ egressInflight[a.group][a.node] > 0
  THEN [egressInflight EXCEPT ![a.group][a.node] = @ - 1] ELSE egressInflight

\* release_image_egress, by the profile of the attempt
Released(a) ==
  IF a.limit > 0 THEN [egressInflight EXCEPT ![a.group][a.node] = @ - 1] ELSE egressInflight

\* The request is over, or tries again: after an early failure of the connection,
\* as long as a fallback is configured.
Leaves(r) ==
  \/ Becomes(r, [NoRequest EXCEPT !.at = "ended"])
  \/ /\ refs["fallback"] # "unset"
     /\ Becomes(r, [NoRequest EXCEPT !.tries = attempts[r].tries, !.fallback = TRUE])

\* The session cannot be made: the constructor gives the slot back itself.
SessionFails(r) ==
  /\ attempts[r].at = "building"
  /\ egressInflight' = Released(attempts[r])
  /\ Leaves(r)
  /\ UNCHANGED <<configuration, leaked>>

\* The attempt ends once it has its backend: the deadline has passed before
\* acquire_image_egress, the stream fails or ends.
AttemptEnds(r) ==
  /\ attempts[r].at = "streaming"
  /\ egressInflight' = Released(attempts[r])
  /\ Leaves(r)
  /\ UNCHANGED <<configuration, leaked>>

ProxyNext ==
  \/ \E g \in Groups : SaveGroup(g) \/ DeleteGroup(g)
  \/ AssignToAccount \/ SaveAccountGroup \/ SaveDefaults
  \/ DeleteAccountGroup \/ ImportReadsGroups \/ ImportWritesGroups
  \/ \E r \in Requests :
       \/ BeginAttempt(r) \/ TakeNode(r) \/ WaitExpires(r) \/ BuildBackend(r)
       \/ SessionFails(r) \/ ClearanceFails(r) \/ AttemptEnds(r)

ProxySpec == ProxyInit /\ [][ProxyNext]_proxyVars

-----------------------------------------------------------------------------
(* Properties *)

\* However groups are edited, disabled and deleted while requests wait for a
\* node and hold one, the slots that count as taken are those of the requests
\* that hold one, and those of the requests whose clearance found its group gone;
\* and they are never more than the node ever allowed (acquire_image_egress,
\* release_image_egress, _resolve_proxy_group, OpenAIBackendAPI.__init__).
SlotsAreThoseHeld ==
  \A g \in Groups, n \in Nodes :
    /\ egressInflight[g][n] =
         leaked[g][n] +
         Cardinality({r \in Requests : /\ attempts[r].group = g /\ attempts[r].node = n
                                       /\ attempts[r].limit > 0})
    /\ egressInflight[g][n] <= widest[g][n]

\* Unless an import wrote back account groups that had changed meanwhile, what
\* refers to a proxy group refers to one that exists (delete_group,
\* mutate_assignment_references).
ReferredGroupsExist ==
  ~overwrote => \A o \in Owners : refs[o] \in Groups => groups[refs[o]] # NoNodes

ProxyRoutesHold == SlotsAreThoseHeld /\ ReferredGroupsExist
=============================================================================
