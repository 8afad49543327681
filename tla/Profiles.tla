------------------------------ MODULE Profiles ------------------------------
(***************************************************************************)
(* From a registration to a profile.  auth-service's asynchronous writer   *)
(* sends users.registered; profile-service's consumer creates a profile    *)
(* for it, and so does the first look at a profile that is missing, while  *)
(* its user may already be changing it.  The consumer connects, crashes    *)
(* and restarts as in the three other NestJS services.                     *)
(***************************************************************************)
EXTENDS Naturals, Sequences

CONSTANTS
  Users,
  Values,    \* what a user may enter
  Default,   \* the schema's default of a field
  Looks,     \* GET requests of one's own profile
  NoProfile, NoUser

ProfilesAssumption ==
  Default \notin Values /\ NoUser \notin Users /\ NoProfile \notin [{"displayName", "bio"} -> Values \cup {Default}]
ASSUME ProfilesAssumption

VARIABLES
  registered,
  writing,   \* events in the writer's batch
  events,    \* topic users.registered
  offset,    \* how far the group has handled the events
  placed,    \* the group has committed an offset
  consumer,  \* where start() and restart() are, and whether CRASH has its handler
  hand,      \* the event being handled
  profile,   \* collection profiles
  look,      \* requests that read a profile
  reachable, \* Kafka and MongoDB answer
  wanted,    \* history: the last value a user set of each field
  missed     \* history: users whose event was lost

profilesVars ==
  <<registered, writing, events, offset, placed, consumer, hand, profile, look, reachable, wanted, missed>>

Fields == {"displayName", "bio"}
Blank == [f \in Fields |-> Default]
Patches == UNION {[fs -> Values] : fs \in SUBSET Fields}
Free == [at |-> "free", user |-> NoUser]

ProfilesInit ==
  /\ registered = {} /\ writing = {} /\ events = <<>> /\ offset = 0 /\ placed \in BOOLEAN
  /\ consumer = [at |-> "off", watched |-> FALSE] /\ hand = Free
  /\ profile = [u \in Users |-> NoProfile]
  /\ look = [l \in Looks |-> Free]
  /\ reachable = TRUE /\ missed = {}
  /\ wanted = [u \in Users |-> Blank]

-----------------------------------------------------------------------------
(* auth-service: Register publishes and does not wait; a failed write is not retried.  *)

Register(u) ==
  /\ u \notin registered
  /\ registered' = registered \cup {u} /\ writing' = writing \cup {u}
  /\ UNCHANGED <<events, offset, placed, consumer, hand, profile, look, reachable, wanted, missed>>

Write(u) ==
  /\ u \in writing /\ writing' = writing \ {u}
  /\ \/ events' = Append(events, u) /\ UNCHANGED missed
     \/ ~ reachable /\ missed' = missed \cup {u} /\ UNCHANGED events
  /\ UNCHANGED <<registered, offset, placed, consumer, hand, profile, look, reachable, wanted>>

-----------------------------------------------------------------------------
(* The consumer's life: start(), its crash handler, restart(). *)

Becomes(at, watched) == consumer' = [at |-> at, watched |-> watched]

Deploy ==
  /\ consumer.at = "off" /\ Becomes("start", FALSE)
  /\ UNCHANGED <<registered, writing, events, offset, placed, hand, profile, look, reachable, wanted, missed>>

\* fromBeginning: false: a group that has not committed starts at the end of the topic.
SkipToEnd ==
  /\ offset' = Len(events)
  /\ missed' = missed \cup {events[i] : i \in (offset + 1)..Len(events)}
Resume == IF reachable /\ ~ placed THEN SkipToEnd ELSE UNCHANGED <<offset, missed>>
\* The handler is registered before the connection is tried, anew for each consumer.
Connected(w) == IF reachable THEN Becomes("running", w) ELSE Becomes("failed", w)
\* a variant without the crash handler
StartUnwatched == Connected(FALSE)
Start == Connected(TRUE)
StartConsumer ==
  /\ consumer.at = "start"
  /\ Start /\ Resume
  /\ UNCHANGED <<registered, writing, events, placed, hand, profile, look, reachable, wanted>>

\* A failed start is retried in 30 s, a restarted consumer starts in 5 s.
Restart ==
  /\ \/ consumer.at = "failed" /\ Becomes("restart", consumer.watched)
     \/ consumer.at = "restart" /\ Becomes("start", FALSE)
  /\ UNCHANGED <<registered, writing, events, offset, placed, hand, profile, look, reachable, wanted, missed>>

\* What was being handled is delivered again.
Crash ==
  /\ consumer.at = "running" /\ ~ reachable
  /\ Becomes(IF consumer.watched THEN "restart" ELSE "dead", consumer.watched)
  /\ hand' = Free
  /\ UNCHANGED <<registered, writing, events, offset, placed, profile, look, reachable, wanted, missed>>

Poll ==
  /\ consumer.at = "running" /\ hand = Free /\ offset < Len(events)
  /\ hand' = [at |-> "create", user |-> events[offset + 1]]
  /\ UNCHANGED <<registered, writing, events, offset, placed, consumer, profile, look, reachable, wanted, missed>>

\* createDefaultProfile: its errors are logged, and the event counts as handled.
\* (a variant with $set in place of $setOnInsert)
ResetProfile(u) == profile' = [profile EXCEPT ![u] = Blank]
UpsertProfile(u) == profile' = [profile EXCEPT ![u] = IF @ = NoProfile THEN Blank ELSE @]
CreateDefaultProfile ==
  /\ hand.at = "create" /\ hand' = [hand EXCEPT !.at = "commit"]
  /\ \/ UpsertProfile(hand.user) /\ UNCHANGED missed
     \/ ~ reachable /\ missed' = missed \cup {hand.user} /\ UNCHANGED profile
  /\ UNCHANGED <<registered, writing, events, offset, placed, consumer, look, reachable, wanted>>

Commit ==
  /\ hand.at = "commit" /\ hand' = Free /\ offset' = offset + 1 /\ placed' = TRUE
  /\ UNCHANGED <<registered, writing, events, consumer, profile, look, reachable, wanted, missed>>

-----------------------------------------------------------------------------
(* profile-service's handlers. *)

FindMine(l, u) ==
  /\ look[l] = Free /\ u \in registered
  /\ profile[u] = NoProfile   \* one that is found is the answer
  /\ look' = [look EXCEPT ![l] = [at |-> "create", user |-> u]]
  /\ UNCHANGED <<registered, writing, events, offset, placed, consumer, hand, profile, reachable, wanted, missed>>

\* The unique index refuses a second profile; the request then fails.
Insert(u) == profile' = [profile EXCEPT ![u] = IF @ = NoProfile THEN Blank ELSE @]
CreateMine(l) ==
  /\ look[l].at = "create" /\ look' = [look EXCEPT ![l] = Free]
  /\ Insert(look[l].user) \/ (~ reachable /\ UNCHANGED profile)
  /\ UNCHANGED <<registered, writing, events, offset, placed, consumer, hand, reachable, wanted, missed>>

\* Only the fields of the request are set, on a profile that is created if it is missing.
Patched(doc, patch) ==
  [f \in Fields |-> IF f \in DOMAIN patch THEN patch[f] ELSE IF doc = NoProfile THEN Default ELSE doc[f]]
UpdateMine(u, patch) ==
  /\ u \in registered /\ reachable
  /\ profile' = [profile EXCEPT ![u] = Patched(@, patch)]
  /\ wanted' = [wanted EXCEPT ![u] = [f \in Fields |-> IF f \in DOMAIN patch THEN patch[f] ELSE @[f]]]
  /\ UNCHANGED <<registered, writing, events, offset, placed, consumer, hand, look, reachable, missed>>

Unreachable ==
  /\ reachable' = ~ reachable
  /\ UNCHANGED <<registered, writing, events, offset, placed, consumer, hand, profile, look, wanted, missed>>

ConsumerStep == StartConsumer \/ Restart \/ Poll \/ CreateDefaultProfile \/ Commit
ProfilesNext ==
  \/ ConsumerStep \/ Deploy \/ Crash \/ Unreachable
  \/ \E u \in Users : Register(u) \/ Write(u) \/ (\E l \in Looks : FindMine(l, u))
                      \/ (\E patch \in Patches : UpdateMine(u, patch))
  \/ \E l \in Looks : CreateMine(l)

\* The consumer's timers and its loop, and the writer's.
ProfilesFairness == WF_profilesVars(ConsumerStep) /\ \A u \in Users : WF_profilesVars(Write(u))
ProfilesSpec == ProfilesInit /\ [][ProfilesNext]_profilesVars /\ ProfilesFairness

-----------------------------------------------------------------------------
\* Type correctness of the consumer, the events and the profiles.
ProfilesTypeOK ==
  /\ registered \subseteq Users /\ writing \subseteq Users /\ missed \subseteq Users /\ reachable \in BOOLEAN
  /\ events \in Seq(Users) /\ offset \in 0..Len(events) /\ placed \in BOOLEAN
  /\ consumer \in [at : {"off", "start", "running", "failed", "restart", "dead"}, watched : BOOLEAN]
  /\ hand \in [at : {"free", "create", "commit"}, user : Users \cup {NoUser}]
  /\ profile \in [Users -> [Fields -> Values \cup {Default}] \cup {NoProfile}]
  /\ wanted \in [Users -> [Fields -> Values \cup {Default}]]
  /\ look \in [Looks -> [at : {"free", "create"}, user : Users \cup {NoUser}]]

(* What a user entered stays: neither the event of the registration, late or delivered  *)
(* again (createDefaultProfile), nor a look that found no profile a moment before       *)
(* (findOrCreateByUserId), nor an update of the other field puts a default back.        *)
EntriesStay ==
  \A u \in Users : \A f \in Fields :
    wanted[u][f] # Default => profile[u] # NoProfile /\ profile[u][f] = wanted[u][f]

(* Once Kafka and MongoDB answer a profile-service that is deployed for good, every      *)
(* registered user has a profile, unless the event was lost in the writer, to a         *)
(* database error the consumer swallows, or before the group's first commit: a consumer *)
(* that crashed or could not connect, however often, comes back.                        *)
RegistrationMakesProfile ==
  <>[](reachable /\ consumer.at # "off") =>
    <>[](\A u \in registered : u \in missed \/ profile[u] # NoProfile)
=============================================================================
