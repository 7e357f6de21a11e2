----------------------------- MODULE NodeConfig -----------------------------
(***************************************************************************)
(* What a node keeps of Xray's configuration: outbounds, balancers, routing *)
(* profiles, inbounds and their users, and the handlers and jobs that       *)
(* change them. Xray's configuration is generated from all the rows         *)
(* together, and a row that refers to a tag Xray does not have makes the    *)
(* generation fail, for whoever asks for it next. Every handler therefore   *)
(* generates before it commits; two ways of changing rows do not.           *)
(*                                                                          *)
(* A handler holds the runtime lock from its first read to its commit and   *)
(* is one step; creating a profile takes no lock and is two. No tag is a    *)
(* prefix of another (Xray's selectors match prefixes).                     *)
(***************************************************************************)
EXTENDS Naturals, FiniteSets

CONSTANTS
  Tags,         \* names for outbounds and balancers; "direct" is built in
  MaxProfile,   \* bound: ids of routing profiles
  Inbounds,     \* tags of inbounds
  Clients,      \* users of the node
  Home,         \* the inbound each user is created on
  MaxEdits      \* bound: changes made by admins and by a transfer

Direct == "direct"
None == "none"

ASSUME NodeConfigAssumption ==
  /\ {Direct, None} \cap Tags = {}
  /\ MaxProfile \in Nat /\ MaxEdits \in Nat
  /\ Home \in [Clients -> Inbounds]

VARIABLES
  outbound,   \* rows of Outbound: "absent", "off", "on"
  pending,    \* transfer_pending_egress: outbounds whose address a transfer took away
  balancer,   \* rows of Balancer
  profile,    \* rows of RoutingProfile, each with one rule or none
  inbound,    \* rows of Inbound: the tags there are
  uses,       \* routing_profile_id of an inbound, 0 for none
  client,     \* rows of Client: enable with disable_reason, preferred_outbound, what is left
  due,        \* the monthly reset has not been made yet
  creating,   \* the target a creator of a profile has found to exist
  adopted,    \* profiles created under an id an inbound named already
  edits

rows == <<outbound, pending, balancer, profile, inbound, uses, client>>
vars == <<rows, due, creating, adopted, edits>>

Ids == 1..MaxProfile
Targets == Tags \cup {Direct}
NoBalancer == [state |-> "absent", selector |-> {}, fallback |-> None]
NoProfile == [state |-> "absent", target |-> None]
NoClient == [state |-> "absent", preferred |-> None, left |-> "enough"]
Fresh == [state |-> "on", preferred |-> None, left |-> "enough"]
Held == {"quota", "expiry", "manual"}   \* disable_reason of a user that is off

TypeOK ==
  /\ outbound \in [Tags -> {"absent", "off", "on"}]
  /\ pending \subseteq Tags
  /\ balancer \in [Tags -> [state: {"absent", "off", "on"},
                            selector: SUBSET Tags, fallback: Targets \cup {None}]]
  /\ profile \in [Ids -> [state: {"absent", "off", "on"}, target: Targets \cup {None}]]
  /\ inbound \subseteq Inbounds /\ uses \in [Inbounds -> 0..MaxProfile]
  /\ client \in [Clients -> [state: {"absent", "on"} \cup Held,
                             preferred: Targets \cup {None},
                             left: {"enough", "no traffic", "no time"}]]
  /\ due \in BOOLEAN
  /\ creating \in [state: {"absent", "off", "on"}, target: Targets \cup {None}]
  /\ adopted \subseteq Ids
  /\ edits \in 0..MaxEdits

-----------------------------------------------------------------------------
(* The generation of the configuration.                                    *)

Existing == {t \in Tags : outbound[t] # "absent"} \cup {Direct}
Quarantined == pending \cap Existing
KnownOutbounds == {t \in Tags : outbound[t] = "on"} \cup {Direct} \cup Quarantined

BlackholedBalancers ==
  {b \in Tags : /\ balancer[b].state = "on"
                /\ \/ balancer[b].selector \cap Quarantined # {}
                   \/ balancer[b].fallback \in Quarantined}
UsableBalancers ==
  {b \in Tags : balancer[b].state = "on" /\ balancer[b].selector \cap KnownOutbounds # {}}
Routable == KnownOutbounds \cup BlackholedBalancers \cup UsableBalancers

\* A rule is written for every inbound whose profile exists and is enabled.
ProfileRoutes(i) ==
  i \in inbound /\ uses[i] \in Ids /\ profile[uses[i]].state = "on" =>
    profile[uses[i]].target \in Routable \cup {None}

UserRoutes(row) == row.state = "on" => row.preferred \in Routable \cup {None}

\* _generate_config_file, run with these users, raises nothing.
GeneratesFor(users) ==
  /\ \A b \in Tags : balancer[b].state # "absent" => outbound[b] = "absent"
  /\ \A i \in Inbounds : ProfileRoutes(i)
  /\ \A c \in Clients : UserRoutes(users[c])
Generates == GeneratesFor(client)

-----------------------------------------------------------------------------
(* An admin's change: counted, and committed only if what it leaves can be *)
(* generated. Otherwise the handler rolls back and answers 400.            *)

Edit == edits < MaxEdits /\ edits' = edits + 1
(* Mutant: what a handler leaves is not generated before it is committed. *)
Unprepared == Edit /\ UNCHANGED <<due, creating>>
Prepared == Edit /\ Generates' /\ UNCHANGED <<due, creating>>
Commit == Prepared /\ UNCHANGED adopted

CreateOutbound(t, on) ==
  /\ outbound[t] = "absent" /\ balancer[t].state = "absent"
  /\ outbound' = [outbound EXCEPT ![t] = IF on THEN "on" ELSE "off"]
  /\ UNCHANGED <<pending, balancer, profile, inbound, uses, client>>
  /\ Commit

\* Enabling a transferred outbound, with a new address or none, ends its quarantine.
UpdateOutbound(t, on) ==
  /\ outbound[t] # "absent"
  /\ outbound' = [outbound EXCEPT ![t] = IF on THEN "on" ELSE "off"]
  /\ pending' = IF on THEN pending \ {t} ELSE pending
  /\ UNCHANGED <<balancer, profile, inbound, uses, client>>
  /\ Commit

\* _reject_referenced_target
NotReferenced(t) == \A p \in Ids : profile[p].state # "absent" => profile[p].target # t

ForgetPreferred(t) ==
  client' = [c \in Clients |-> IF client[c].preferred = t
                               THEN [client[c] EXCEPT !.preferred = None] ELSE client[c]]

DeleteOutbound(t) ==
  /\ outbound[t] # "absent" /\ NotReferenced(t)
  /\ \A b \in Tags : balancer[b].state # "absent" =>
        t \notin balancer[b].selector /\ balancer[b].fallback # t
  /\ outbound' = [outbound EXCEPT ![t] = "absent"]
  /\ pending' = pending \ {t}
  /\ ForgetPreferred(t)
  /\ UNCHANGED <<balancer, profile, inbound, uses>>
  /\ Commit

CreateBalancer(t, selector, fallback) ==
  /\ outbound[t] = "absent" /\ balancer[t].state = "absent"
  /\ selector # {} /\ selector \subseteq Existing
  /\ fallback \in (Existing \ selector) \cup {None}
  /\ balancer' = [balancer EXCEPT ![t] =
                    [state |-> "on", selector |-> selector, fallback |-> fallback]]
  /\ UNCHANGED <<outbound, pending, profile, inbound, uses, client>>
  /\ Commit

\* A fallback that is not sent stays, also if the new selector contains it.
UpdateBalancer(t, state, selector, fallback) ==
  /\ balancer[t].state # "absent"
  /\ selector # {} /\ selector \subseteq Existing
  /\ fallback \in ((Existing \ selector) \cup {None, balancer[t].fallback})
  /\ balancer' = [balancer EXCEPT ![t] =
                    [state |-> state, selector |-> selector, fallback |-> fallback]]
  /\ UNCHANGED <<outbound, pending, profile, inbound, uses, client>>
  /\ Commit

DeleteBalancer(t) ==
  /\ balancer[t].state # "absent" /\ NotReferenced(t)
  /\ balancer' = [balancer EXCEPT ![t] = NoBalancer]
  /\ ForgetPreferred(t)
  /\ UNCHANGED <<outbound, pending, profile, inbound, uses>>
  /\ Commit

\* _ensure_rule_targets_exist: rows, enabled or not
TargetExists(target) ==
  target \in Existing \cup {None} \/ \E b \in Tags : b = target /\ balancer[b].state # "absent"

\* create_profile takes no lock and generates nothing: it looks for the target ...
FindTarget(target, state) ==
  /\ creating.state = "absent" /\ TargetExists(target)
  /\ creating' = [target |-> target, state |-> state]
  /\ UNCHANGED <<rows, due, adopted, edits>>

\* ... and stores the profile under the id after the largest, whatever has changed.
StoreProfile ==
  LET used == {p \in Ids : profile[p].state # "absent"}
      id == IF used = {} THEN 1 ELSE 1 + CHOOSE p \in used : \A q \in used : p >= q
  IN /\ creating.state # "absent" /\ id \in Ids
     /\ profile' = [profile EXCEPT ![id] = [state |-> creating.state, target |-> creating.target]]
     /\ adopted' = IF \E i \in inbound : uses[i] = id THEN adopted \cup {id} ELSE adopted
     /\ creating' = NoProfile
     /\ Edit
     /\ UNCHANGED <<outbound, pending, balancer, inbound, uses, client, due>>

UpdateProfile(p, state, target) ==
  /\ profile[p].state # "absent"
  /\ TargetExists(target) \/ target = profile[p].target
  /\ profile' = [profile EXCEPT ![p] = [state |-> state, target |-> target]]
  /\ adopted' = adopted \ {p}
  /\ UNCHANGED <<outbound, pending, balancer, inbound, uses, client>>
  /\ Prepared

DeleteProfile(p) ==
  /\ profile[p].state # "absent"
  /\ profile' = [profile EXCEPT ![p] = NoProfile]
  /\ uses' = [i \in Inbounds |-> IF uses[i] = p THEN 0 ELSE uses[i]]
  /\ adopted' = adopted \ {p}
  /\ UNCHANGED <<outbound, pending, balancer, inbound, client>>
  /\ Prepared

-----------------------------------------------------------------------------
(* Inbounds and users. The id of a profile is stored as it is sent: nothing *)
(* looks for the profile, and SQLite enforces no foreign key.               *)

CreateInbound(i, p) ==
  /\ i \notin inbound
  /\ inbound' = inbound \cup {i}
  /\ uses' = [uses EXCEPT ![i] = p]
  /\ UNCHANGED <<outbound, pending, balancer, profile, client>>
  /\ Commit

DropUsers(i) == client' = [c \in Clients |-> IF Home[c] = i THEN NoClient ELSE client[c]]

\* A switch to a protocol without panel users deletes the users.
UpdateInbound(i, p, dropUsers) ==
  /\ i \in inbound
  /\ uses' = [uses EXCEPT ![i] = p]
  /\ IF dropUsers THEN DropUsers(i) ELSE UNCHANGED client
  /\ UNCHANGED <<outbound, pending, balancer, profile, inbound>>
  /\ Commit

DeleteInbound(i) ==
  /\ i \in inbound
  /\ inbound' = inbound \ {i}
  /\ uses' = [uses EXCEPT ![i] = 0]
  /\ DropUsers(i)
  /\ UNCHANGED <<outbound, pending, balancer, profile>>
  /\ Commit

SetClient(c, row) ==
  /\ client' = [client EXCEPT ![c] = row]
  /\ UNCHANGED <<outbound, pending, balancer, profile, inbound, uses>>

AddUser(c, state) ==
  /\ Home[c] \in inbound /\ client[c].state = "absent"
  /\ SetClient(c, [Fresh EXCEPT !.state = state])
  /\ Commit

DeleteUser(c) ==
  /\ client[c].state # "absent"
  /\ SetClient(c, NoClient)
  /\ Commit

\* update_user and bulk_enable_users: an admin's switch, which holds until the next.
SwitchUser(c, state) ==
  /\ client[c].state # "absent" /\ (client[c].state = "on") # (state = "on")
  /\ SetClient(c, [client[c] EXCEPT !.state = state])
  /\ Commit

\* bulk_adjust_days and bulk_adjust_traffic give back time or traffic and switch
\* nobody on; capture_manual_entitlement holds a managed user that is off.
AdjustUser(c, managed) ==
  /\ client[c].left # "enough"
  /\ SetClient(c, [client[c] EXCEPT !.left = "enough",
                     !.state = IF @ # "on" /\ managed THEN "manual" ELSE @])
  /\ Commit

\* reset_user_traffic: reenable asks for the user back, unless time or an admin holds it.
ResetUser(c, reenable) ==
  LET left == IF client[c].left = "no traffic" THEN "enough" ELSE client[c].left
      back == reenable /\ client[c].state \in Held \ {"manual"} /\ left = "enough"
  IN /\ client[c].state # "absent"
     /\ SetClient(c, [client[c] EXCEPT !.left = left, !.state = IF back THEN "on" ELSE @])
     /\ back => Generates'
     /\ Edit /\ UNCHANGED <<due, creating, adopted>>

\* A target is refused if its row is off, or its balancer has no enabled outbound.
SetUserRouting(c, tag) ==
  /\ client[c].state # "absent"
  /\ tag \in Tags => \/ outbound[tag] = "on"
                     \/ /\ balancer[tag].state = "on"
                        /\ \E t \in balancer[tag].selector : t = Direct \/ outbound[t] = "on"
  /\ SetClient(c, [client[c] EXCEPT !.preferred = tag])
  /\ Commit

-----------------------------------------------------------------------------
(* What happens to users without an admin of the node.                     *)

RunsOut(c, what) ==
  /\ client[c].state # "absent" /\ client[c].left \notin {what, "no time"}
  /\ what = "no traffic" => client[c].state = "on"
  /\ SetClient(c, [client[c] EXCEPT !.left = what])
  /\ UNCHANGED <<due, creating, adopted, edits>>

MonthPasses == ~due /\ due' = TRUE /\ UNCHANGED <<rows, creating, adopted, edits>>

\* A purchase is provisioned: time and traffic are back, and so is the user
\* unless an admin holds it off.
Provision(c) ==
  /\ client[c].state # "absent" /\ client[c].left # "enough"
  /\ SetClient(c, [client[c] EXCEPT !.left = "enough",
                     !.state = IF @ = "manual" THEN @ ELSE "on"])
  /\ Generates'
  /\ UNCHANGED <<due, creating, adopted, edits>>

\* check_limits_and_reset, for one user: the reset of the month, can_reenable,
\* then whoever is out of time or traffic is switched off.
AfterReset(row) ==
  LET left == IF due /\ row.left = "no traffic" THEN "enough" ELSE row.left
      back == due /\ row.state = "quota" /\ left = "enough"
  IN [row EXCEPT !.left = left, !.state = IF back THEN "on" ELSE @]
AfterLimits(row) ==
  LET r == AfterReset(row)
  IN IF r.state = "on" /\ r.left # "enough"
     THEN [r EXCEPT !.state = IF r.left = "no time" THEN "expiry" ELSE "quota"] ELSE r

\* All users in one transaction, which is rolled back if one of them would be
\* given a route Xray does not have.
LimitsPass ==
  LET users == [c \in Clients |-> AfterLimits(client[c])]
      changed == \E c \in Clients : (client[c].state = "on") # (users[c].state = "on")
  IN /\ IF changed => GeneratesFor(users)
        THEN client' = users /\ due' = FALSE
        ELSE UNCHANGED <<client, due>>
     /\ UNCHANGED <<outbound, pending, balancer, profile, inbound, uses, creating, adopted, edits>>

\* apply_state on the host the node is moved to: the rows as they were, outbounds
\* with an address of their own disabled and quarantined. Nothing is generated.
Transfer(dedicated) ==
  /\ dedicated # {} /\ \A t \in dedicated : outbound[t] # "absent"
  /\ outbound' = [t \in Tags |-> IF t \in dedicated THEN "off" ELSE outbound[t]]
  /\ pending' = pending \cup dedicated
  /\ creating' = NoProfile
  /\ Edit
  /\ UNCHANGED <<balancer, profile, inbound, uses, client, due, adopted>>

-----------------------------------------------------------------------------
Init ==
  /\ outbound = [t \in Tags |-> "absent"]
  /\ pending = {}
  /\ balancer = [t \in Tags |-> NoBalancer]
  /\ profile = [p \in Ids |-> NoProfile]
  /\ inbound = Inbounds /\ uses = [i \in Inbounds |-> 0]
  /\ client = [c \in Clients |-> Fresh]
  /\ due = FALSE
  /\ creating = NoProfile
  /\ adopted = {}
  /\ edits = 0

EditOutbounds ==
  \E t \in Tags : \/ DeleteOutbound(t)
                  \/ \E on \in BOOLEAN : CreateOutbound(t, on) \/ UpdateOutbound(t, on)
EditBalancers ==
  \E t \in Tags :
    \/ DeleteBalancer(t)
    \/ \E s \in SUBSET Tags, f \in Targets \cup {None} :
         \/ CreateBalancer(t, s, f)
         \/ \E state \in {"off", "on"} : UpdateBalancer(t, state, s, f)
EditProfiles ==
  \/ StoreProfile
  \/ \E state \in {"off", "on"}, target \in Targets \cup {None} :
       \/ FindTarget(target, state)
       \/ \E p \in Ids : UpdateProfile(p, state, target)
  \/ \E p \in Ids : DeleteProfile(p)
EditInbounds ==
  \E i \in Inbounds : \/ DeleteInbound(i)
                      \/ \E p \in 0..MaxProfile :
                           \/ CreateInbound(i, p)
                           \/ \E drop \in BOOLEAN : UpdateInbound(i, p, drop)
EditUsers ==
  \E c \in Clients : \/ DeleteUser(c)
                     \/ \E state \in {"on", "manual"} : AddUser(c, state) \/ SwitchUser(c, state)
                     \/ \E yes \in BOOLEAN : AdjustUser(c, yes) \/ ResetUser(c, yes)
                     \/ \E tag \in Targets \cup {None} : SetUserRouting(c, tag)
Background ==
  \/ \E c \in Clients : Provision(c) \/ RunsOut(c, "no traffic") \/ RunsOut(c, "no time")
  \/ MonthPasses \/ LimitsPass
  \/ \E dedicated \in SUBSET Tags : Transfer(dedicated)

Next == EditOutbounds \/ EditBalancers \/ EditProfiles \/ EditInbounds \/ EditUsers \/ Background

Spec == Init /\ [][Next]_vars

\* The scheduler runs the limits job every minute.
FairSpec == Spec /\ WF_vars(LimitsPass)

-----------------------------------------------------------------------------
(* The rows can always be generated, so that no change one admin makes is  *)
(* refused for what is wrong with another row. One way leads out of it: a  *)
(* profile stored under an id that an inbound names although its profile   *)
(* was deleted. Nothing that such a profile does is counted here.          *)
ConfigGenerates ==
  /\ \A b \in Tags : balancer[b].state # "absent" => outbound[b] = "absent"
  /\ \A i \in Inbounds : uses[i] \notin adopted => ProfileRoutes(i)
  /\ \A c \in Clients : UserRoutes(client[c])

(* "Removes users over their limit or past expiry" (README, check_limits):  *)
(* whoever is out of traffic or time does not stay on the node.             *)
(* The code does not keep this: see the known divergences in the README.    *)
OverLimitIsRemoved ==
  \A c \in Clients : []<>~(client[c].state = "on" /\ client[c].left # "enough")
=============================================================================
