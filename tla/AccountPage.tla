---------------------------- MODULE AccountPage ----------------------------
(***************************************************************************)
(* The account page of one tab over what the services store: the form of   *)
(* the profile, the section of the second factor, the password form and    *)
(* the dialog that deletes the account.  The tab holds the profile for all *)
(* its pages; the parts of the page start anew whenever they are opened.   *)
(* Calls run side by side, and their answers come in any order or never.   *)
(***************************************************************************)
EXTENDS FiniteSets

CONSTANTS
  Values, Default, \* what an entry of the profile may be; the form's empty one
  Unread,
  Calls            \* calls under way at once

VARIABLES
  stored,   \* the account as the services have it
  profile,  \* what the tab holds of it (AuthContext)
  open,     \* the part of the page that is open, or "none"
  form, section, dialog,
  call,
  doubt     \* history: what the tab was not told of, or was told in another order

accountVars == <<stored, profile, open, form, section, dialog, call, doubt>>

Fields == {"displayName", "preferences"}
Entries == [Fields -> Values]
ASSUME AccountAssumption == Default \in Values /\ Unread \notin Entries
Blank == [f \in Fields |-> Default]
NoForm == [entries |-> Blank, edited |-> {}, off |-> TRUE]
NoSection == [enabled |-> "unknown", setup |-> FALSE]
NoCall == [op |-> "none", sends |-> Blank, phase |-> "sent", got |-> [entries |-> Blank, mfa |-> FALSE], awaited |-> FALSE]
NewCall(op, sends) == [NoCall EXCEPT !.op = op, !.sends = sends, !.awaited = TRUE]

Does(c, op) == call[c].op = op
UnderWay(ops) == \E c \in Calls : call[c].op \in ops /\ call[c].awaited
Free == {c \in Calls : call[c] = NoCall}

\* The first read of the profile starts with the document, and the page does not wait for it.
AccountInit ==
  /\ stored \in [mfa : BOOLEAN, pending : {FALSE}, entries : Entries, gone : {FALSE}]
  /\ profile = Unread /\ open = "none" /\ form = NoForm /\ section = NoSection /\ dialog = FALSE
  /\ \E c \in Calls : call = [d \in Calls |-> IF d = c THEN NewCall("read", Blank) ELSE NoCall]
  /\ doubt = {}

-----------------------------------------------------------------------------
(* Opening and leaving.  A part that is left waits for none of its calls; getMFAStatus, *)
(* which changes nothing, is forgotten with it.                                         *)

Unawaited == [c \in Calls |-> IF Does(c, "status") THEN NoCall
                              ELSE [call[c] EXCEPT !.awaited = @ /\ Does(c, "read")]]
AskStatus(calls) == [calls EXCEPT ![CHOOSE c \in Calls : calls[c] = NoCall] = NewCall("status", Blank)]

ReadsProfile(c) == call[c].op \in {"read", "save"}
EditProfileForm(p) ==
  [entries |-> IF p = Unread THEN Blank ELSE p, edited |-> {},
   off |-> p = Unread \/ "profile" \in doubt \/ \E c \in Calls : ReadsProfile(c)]

ProfilePage(part) ==
  /\ part # open
  /\ part = "profile" => \E c \in Calls : Unawaited[c] = NoCall
  /\ open' = part /\ dialog' = FALSE /\ section' = NoSection
  /\ form' = IF part = "profile" THEN EditProfileForm(profile) ELSE NoForm
  /\ call' = IF part = "profile" THEN AskStatus(Unawaited) ELSE Unawaited
  /\ UNCHANGED <<stored, profile, doubt>>

-----------------------------------------------------------------------------
(* What the parts send. *)

Send(c, op, sends) ==
  /\ call[c] = NoCall /\ call' = [call EXCEPT ![c] = NewCall(op, sends)]
  /\ UNCHANGED <<stored, profile, open, form, section, dialog, doubt>>

Edit(f, v) ==
  /\ open = "profile" /\ form' = [form EXCEPT !.entries[f] = v, !.edited = @ \cup {f}]
  /\ UNCHANGED <<stored, profile, open, section, dialog, call, doubt>>
HandleSubmit(c) == open = "profile" /\ ~ UnderWay({"save"}) /\ Send(c, "save", form.entries)

MFAOps == {"setup", "enable", "disable"}
MFAButton(op) ==
  /\ open = "profile" /\ ~ UnderWay(MFAOps)
  /\ CASE op = "setup" -> section.enabled = "off" /\ ~ section.setup
       [] op = "enable" -> section.enabled = "off" /\ section.setup
       [] op = "disable" -> section.enabled = "on"
MFASection(c, op) == MFAButton(op) /\ Send(c, op, Blank)
CancelSetup ==
  /\ section.setup /\ section.enabled = "off" /\ section' = [section EXCEPT !.setup = FALSE]
  /\ UNCHANGED <<stored, profile, open, form, dialog, call, doubt>>

ChangePasswordForm(c) == open = "password" /\ ~ UnderWay({"password"}) /\ Send(c, "password", Blank)
DeleteDialog ==
  /\ open = "delete" /\ ~ UnderWay({"delete"}) /\ dialog' = ~ dialog
  /\ UNCHANGED <<stored, profile, open, form, section, call, doubt>>
HandleConfirm(c) == dialog /\ ~ UnderWay({"delete"}) /\ Send(c, "delete", Blank)

-----------------------------------------------------------------------------
(* What the services do of it. *)

\* The form leaves an empty name out: it cannot be cleared.
Patched(e, sends) ==
  [f \in Fields |-> IF f = "displayName" /\ sends[f] = Default THEN e[f] ELSE sends[f]]

Effects(a) ==
  CASE a.op = "save" -> {[stored EXCEPT !.entries = Patched(@, a.sends)]}
    [] a.op = "setup" -> {[stored EXCEPT !.pending = TRUE]}
    [] a.op = "enable" -> IF stored.pending THEN {[stored EXCEPT !.mfa = TRUE, !.pending = FALSE]} ELSE {}
    [] a.op = "disable" -> {[stored EXCEPT !.mfa = FALSE]}
    [] a.op = "delete" -> {[stored EXCEPT !.gone = TRUE]}
    [] OTHER -> {stored}
Carried(a, s) == [entries |-> IF a.op \in {"read", "save"} THEN s.entries ELSE Blank,
                  mfa |-> a.op = "status" /\ s.mfa]

\* What a change, or an answer that will not be heard, leaves in doubt.
Doubted(c, s) ==
  LET a == call[c]
      heard == {d \in Calls \ {c} : call[d].phase = "served"}
      profileHeard == {call[d].got.entries : d \in {e \in heard : ReadsProfile(e)}}
      mfaHeard == {call[d].got.mfa : d \in {e \in heard : Does(e, "status")}}
      told == (IF ReadsProfile(c) /\ profileHeard \subseteq {s.entries} THEN {"profile"} ELSE {})
              \cup (IF a.op = "status" /\ mfaHeard \subseteq {s.mfa}
                        /\ \A d \in heard : call[d].op \notin MFAOps THEN {"mfa"} ELSE {})
      overtaken == (IF s.entries # stored.entries /\ profileHeard # {} THEN {"profile"} ELSE {})
                   \cup (IF s.mfa # stored.mfa /\ (~ a.awaited \/ mfaHeard # {}) THEN {"mfa"} ELSE {})
  IN (doubt \ told) \cup overtaken

Serve(c) ==
  /\ call[c].op # "none" /\ call[c].phase = "sent" /\ ~ stored.gone
  /\ \E s \in Effects(call[c]) :
       /\ stored' = s
       /\ call' = [call EXCEPT ![c].phase = "served", ![c].got = Carried(call[c], s)]
       /\ doubt' = Doubted(c, s)
       /\ form' = [form EXCEPT !.off = @ \/ (s.entries # stored.entries /\ ~ call[c].awaited)]
  /\ UNCHANGED <<profile, open, section, dialog>>

\* The request or its answer is lost, or the service refuses or fails (a 401 also ends the
\* session: BrowserTab).
CallFails(c) ==
  /\ call[c].op # "none"
  /\ call' = [call EXCEPT ![c] = NoCall]
  /\ profile' = IF Does(c, "read") THEN Unread ELSE profile
  /\ section' = IF Does(c, "status") THEN [section EXCEPT !.enabled = "off"] ELSE section
  /\ doubt' = doubt \cup (IF call[c].op \in {"save", "read"} THEN {"profile"} ELSE {})
                    \cup (IF call[c].op \in {"status", "enable", "disable"} THEN {"mfa"} ELSE {})
  /\ form' = [form EXCEPT !.off = @ \/ Does(c, "save")]
  /\ UNCHANGED <<stored, open, dialog>>

-----------------------------------------------------------------------------
(* What the answers change. *)

Heard(c, op) == Does(c, op) /\ call[c].phase = "served"
Settle(c) == [call EXCEPT ![c] = NoCall]
\* setProfile renders the provider, whose getMFAStatus is then another function, so the section asks again.
SetProfile(c) == /\ profile' = call[c].got.entries
                 /\ call' = IF open = "profile" THEN AskStatus(Settle(c)) ELSE Settle(c)
UpdateProfileUnheard(c) == Heard(c, "save") /\ call' = Settle(c) /\ UNCHANGED profile
UpdateProfile(c) == Heard(c, "save") /\ SetProfile(c)
FetchProfile(c) == Heard(c, "read") /\ SetProfile(c)
ProfileAnswer(c) ==
  /\ UpdateProfile(c) \/ FetchProfile(c)
  /\ UNCHANGED <<stored, open, form, section, dialog, doubt>>

HandleSetup == [section EXCEPT !.setup = TRUE]
HandleEnable == [section EXCEPT !.enabled = "on", !.setup = FALSE]
HandleDisable == [section EXCEPT !.enabled = "off"]
SectionAnswer(c) ==
  /\ call[c].op \in MFAOps \cup {"status"} /\ call[c].phase = "served"
  /\ call' = Settle(c)
  /\ section' =
       IF ~ call[c].awaited THEN section
       ELSE CASE Does(c, "status") -> [section EXCEPT !.enabled = IF call[c].got.mfa THEN "on" ELSE "off"]
              [] Does(c, "setup") -> HandleSetup
              [] Does(c, "enable") -> HandleEnable
              [] Does(c, "disable") -> HandleDisable
  /\ UNCHANGED <<stored, profile, open, form, dialog, doubt>>

PasswordAnswer(c) ==
  /\ Heard(c, "password") /\ call' = Settle(c)
  /\ UNCHANGED <<stored, profile, open, form, section, dialog, doubt>>
\* The session is cleared, and the page with it.
DeleteAccount(c) ==
  /\ Heard(c, "delete") /\ call' = [Unawaited EXCEPT ![c] = NoCall]
  /\ profile' = Unread /\ open' = "none" /\ form' = NoForm /\ section' = NoSection /\ dialog' = FALSE
  /\ UNCHANGED <<stored, doubt>>

ChangedElsewhere ==
  /\ ~ stored.gone
  /\ \/ \E e \in Entries : stored' = [stored EXCEPT !.entries = e] /\ doubt' = doubt \cup {"profile"}
     \/ stored' = [stored EXCEPT !.mfa = ~ @, !.pending = FALSE] /\ doubt' = doubt \cup {"mfa"}
  /\ form' = [form EXCEPT !.off = @ \/ stored'.entries # stored.entries]
  /\ UNCHANGED <<profile, open, section, dialog, call>>

AccountNext ==
  \/ \E part \in {"none", "profile", "password", "delete"} : ProfilePage(part)
  \/ \E f \in Fields, v \in Values : Edit(f, v)
  \/ CancelSetup \/ DeleteDialog \/ ChangedElsewhere
  \/ \E c \in Calls :
       \/ HandleSubmit(c) \/ ChangePasswordForm(c) \/ HandleConfirm(c)
       \/ \E op \in MFAOps : MFASection(c, op)
       \/ Serve(c) \/ CallFails(c) \/ ProfileAnswer(c) \/ SectionAnswer(c) \/ PasswordAnswer(c) \/ DeleteAccount(c)

AccountSpec == AccountInit /\ [][AccountNext]_accountVars

-----------------------------------------------------------------------------
\* Type correctness of the account, of what the tab holds and shows of it, and of its calls.
AccountTypeOK ==
  /\ stored \in [mfa : BOOLEAN, pending : BOOLEAN, entries : Entries, gone : BOOLEAN]
  /\ profile \in Entries \cup {Unread} /\ open \in {"none", "profile", "password", "delete"} /\ dialog \in BOOLEAN
  /\ form \in [entries : Entries, edited : SUBSET Fields, off : BOOLEAN]
  /\ section \in [enabled : {"unknown", "on", "off"}, setup : BOOLEAN]
  /\ call \in [Calls -> [op : {"none", "read", "status", "save", "password", "delete"} \cup MFAOps, sends : Entries,
                         phase : {"sent", "served"}, got : [entries : Entries, mfa : BOOLEAN], awaited : BOOLEAN]]
  /\ doubt \subseteq {"profile", "mfa"}

Quiet == Free = Calls /\ ~ stored.gone

(* The section shows whether the second factor is on once no call is under way, whatever *)
(* was set up, enabled, cancelled and disabled while its readings of the status were     *)
(* under way, unless a reading overtaken by a change said so.                            *)
ShownMfaIsTrue ==
  Quiet /\ section.enabled # "unknown" /\ "mfa" \notin doubt => section.enabled = (IF stored.mfa THEN "on" ELSE "off")

(* The profile the tab holds, from which the next form starts, is the stored one. *)
HeldProfileIsStored ==
  Quiet /\ profile # Unread /\ "profile" \notin doubt => profile = stored.entries

(* A form that was opened on the profile, with no reading or save under way, has the stored value   *)
(* of every entry its user left alone, so that saving it changes none of them.           *)
FormKeepsTheRest ==
  open = "profile" /\ ~ form.off => \A f \in Fields \ form.edited : form.entries[f] = stored.entries[f]

(* What the account page shows and would save is what the account has, through any order *)
(* of the answers to its calls, except where another device, a lost answer or one that   *)
(* was overtaken left the tab in doubt.                                                  *)
AccountPageIsTrue == ShownMfaIsTrue /\ HeldProfileIsStored /\ FormKeepsTheRest
=============================================================================
