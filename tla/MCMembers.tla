----------------------------- MODULE MCMembers -----------------------------
(* Members beside the producers of signals, for TLC.  A behaviour exercises one part: the   *)
(* producers, the profiles of two users, one user with two calls of the tab under way at    *)
(* once, or two users who sign in one after another.  The other parts stay as they start.   *)
EXTENDS MCSignals, BrowserTab, Profiles

VARIABLE part \* "signals", "profiles", "calls" or "users"

CONSTANTS ann, bob, c1, c2

memberVars == <<mcVars, tabVars, profilesVars, part>>

MembersInit ==
  /\ MCInit /\ TabInit /\ ProfilesInit
  /\ part \in {"signals", "profiles", "calls", "users"}
  /\ part # "signals" => mix = "articles"
  /\ part # "profiles" => ~ placed

\* Only a form is answered with an error, and another tab acts once until this one is loaded.
TabWithin ==
  /\ tab'.page # "public"
  /\ \A c \in Calls : call'[c].status = "error" => call'[c].op = "change"
  /\ call' = call /\ jar' # jar => ~ lapped

\* With two calls, one user without a second factor and one kind of form; the network is
\* down or the session ends elsewhere with one call under way, and another tab acts with
\* none and the network does not fail after that.  With two users, of whom one has a second
\* factor, one call at a time, and no outage.
TwoCalls ==
  /\ jar' # bob /\ bob \notin live' /\ \A c \in Calls : call'[c].of # bob /\ call'[c].op # "delete"
  /\ ticket' = Nobody /\ \A c \in Calls : call'[c].status # "challenge"
  /\ call[c1].op = "none" => call'[c2] = None \/ call[c2] # None
  /\ ~ online' \/ (call' = call /\ live' # live) => \E c \in Calls : call'[c] = None
  /\ call' = call /\ jar' # jar => \A c \in Calls : call[c] = None
  /\ lapped' => online'
TwoUsers ==
  /\ call'[c2] = None /\ online'
  /\ \A c \in Calls : call'[c].op # "read" /\ (call'[c].status = "challenge" => call'[c].of = ann)

\* The second user only registers.
OneEditor == wanted'[bob] = wanted[bob] /\ \A l \in Looks : look'[l].user # bob

MembersNext ==
  /\ UNCHANGED part
  /\ \/ part = "signals" /\ MCNext /\ UNCHANGED <<tabVars, profilesVars>>
     \/ part = "profiles" /\ ProfilesNext /\ OneEditor /\ UNCHANGED <<mcVars, tabVars>>
     \/ part = "calls" /\ TabNext /\ TabWithin /\ TwoCalls /\ UNCHANGED <<mcVars, profilesVars>>
     \/ part = "users" /\ TabNext /\ TabWithin /\ TwoUsers /\ UNCHANGED <<mcVars, profilesVars>>

MembersSpec ==
  /\ MembersInit /\ [][MembersNext]_memberVars
  /\ PredictorFairness /\ PollFairness /\ TabFairness /\ ProfilesFairness
=============================================================================
