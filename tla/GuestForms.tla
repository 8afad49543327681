----------------------------- MODULE GuestForms -----------------------------
(***************************************************************************)
(* The pages for guests: register, forgot password, and the two that a     *)
(* mailed link opens, verify and reset.  One tab over what auth-service    *)
(* stores (AuthService has its requests in full).  Buttons are off while   *)
(* a call is under way, inputs are not; a page that is left hears no       *)
(* answer, but the request goes on.  An address stands for its account;    *)
(* the deletion of accounts is left out.                                   *)
(***************************************************************************)
EXTENDS Naturals, FiniteSets

CONSTANTS
  Addresses, Passwords,
  Short,     \* the passwords that are too short
  Links,     \* the tokens that are mailed
  Posts,     \* calls under way at once
  Nobody

VARIABLES
  account,   \* whether each address is registered and verified, and its password
  link,      \* what each token is for, and whether it is still good
  page,      \* the page that is open
  post,
  redirects  \* timers of the reset page

guestVars == <<account, link, page, post, redirects>>

ASSUME GuestAssumption == Nobody \notin Addresses \cup Passwords \cup Links

Routes == {"register", "forgot", "verify", "reset", "login"}
Untyped == [address |-> Nobody, password |-> Nobody, confirm |-> Nobody]
NoPost == [op |-> "none", address |-> Nobody, password |-> Nobody, link |-> Nobody,
           phase |-> "sent", heard |-> FALSE]
Unknown == [is |-> "none", pw |-> Nobody]
NoLink == [for |-> "none", of |-> Nobody, good |-> FALSE]
Of(l) == link[l].of

\* The page as it opens.  The history: whether an input changed since the button was pressed
\* (edited), whether nothing but this page has had to do with its link (sure), and whether
\* something else has set the password meanwhile (changed).
Opened(route, l, sure) ==
  [route |-> route, link |-> l, entries |-> Untyped, loading |-> route = "verify" /\ l # Nobody,
   says |-> IF route = "verify" /\ l = Nobody THEN "failed" ELSE "nothing",
   asked |-> FALSE, edited |-> FALSE, sure |-> sure, changed |-> FALSE]
Concerns(e) == page.link # Nobody /\ Of(page.link) = e

GuestInit ==
  /\ account = [e \in Addresses |-> Unknown] /\ link = [l \in Links |-> NoLink]
  /\ page = Opened("login", Nobody, FALSE)
  /\ post = [c \in Posts |-> NoPost] /\ redirects = 0

-----------------------------------------------------------------------------
(* The pages. *)

Unmount == post' = [c \in Posts |-> [post[c] EXCEPT !.heard = FALSE]]
Untouched(l) == link[l].good /\ \A c \in Posts : post[c].link # Nobody => Of(post[c].link) # Of(l)

\* Another document drops the timers, and another page of the same document does not.
Open(route, l) ==
  /\ l # Nobody => route = link[l].for
  /\ page' = Opened(route, l, l # Nobody /\ Untouched(l)) /\ Unmount
  /\ redirects' \in {0, redirects} /\ UNCHANGED <<account, link>>

\* The reset page goes to the login page three seconds after its success, wherever its user has
\* gone by then.
Redirect ==
  /\ redirects > 0 /\ redirects' = redirects - 1
  /\ page' = Opened("login", Nobody, FALSE) /\ Unmount /\ UNCHANGED <<account, link>>

HasForm ==
  /\ page.route \in {"register", "forgot", "reset"} /\ page.says # "done"
  /\ page.route = "reset" => page.link # Nobody

Inputs(route) == CASE route = "register" -> {"address", "password"} [] route = "forgot" -> {"address"}
                   [] route = "reset" -> {"password", "confirm"} [] OTHER -> {}
EditInput(field, v) ==
  /\ HasForm /\ field \in Inputs(page.route) /\ v \in (IF field = "address" THEN Addresses ELSE Passwords)
  /\ page' = [page EXCEPT !.entries[field] = v, !.edited = TRUE]
  /\ UNCHANGED <<account, link, post, redirects>>

Sent(op, field) == IF field \in Inputs(op) THEN page.entries[field] ELSE Nobody
Sends(c, op, l) ==
  /\ post[c] = NoPost
  /\ post' = [post EXCEPT ![c] = [op |-> op, address |-> Sent(op, "address"),
                                  password |-> Sent(op, "password"), link |-> l,
                                  phase |-> "sent", heard |-> TRUE]]
Submitted(says) ==
  page' = [page EXCEPT !.says = says, !.loading = says = "nothing", !.edited = FALSE]

\* The browser wants every input filled in.  It refuses a short password on the register page,
\* and the form does on the reset page.
SubmitForm(c) ==
  /\ HasForm /\ ~ page.loading /\ \A field \in Inputs(page.route) : page.entries[field] # Nobody
  /\ \/ /\ page.route = "reset"
        /\ page.entries.password \in Short \/ page.entries.password # page.entries.confirm
        /\ Submitted("check") /\ UNCHANGED post
     \/ /\ page.route = "register" => page.entries.password \notin Short
        /\ page.route = "reset" => /\ page.entries.password \notin Short
                                  /\ page.entries.password = page.entries.confirm
        /\ Submitted("nothing") /\ Sends(c, page.route, page.link)
  /\ UNCHANGED <<account, link, redirects>>

\* React may run the effect of the verify page again; a ref makes that harmless.
VerifyEffectAgain(c) ==
  /\ page.route = "verify" /\ page.link # Nobody
  /\ page' = [page EXCEPT !.asked = TRUE] /\ Sends(c, "verify", page.link)
  /\ UNCHANGED <<account, link, redirects>>
VerifyEffect(c) ==
  /\ page.route = "verify" /\ page.link # Nobody /\ ~ page.asked
  /\ page' = [page EXCEPT !.asked = TRUE] /\ Sends(c, "verify", page.link)
  /\ UNCHANGED <<account, link, redirects>>

-----------------------------------------------------------------------------
(* auth-service.  A lookup of a token and the write that follows are two steps. *)

At(c, op, phase) == post[c].op = op /\ post[c].phase = phase
Replies(c, phase) == post' = [post EXCEPT ![c].phase = phase]

\* The token goes out by mail, which may be lost.
Mails(for, e) ==
  \/ UNCHANGED link
  \/ \E l \in Links : link[l] = NoLink /\ link' = [link EXCEPT ![l] = [for |-> for, of |-> e, good |-> TRUE]]

Register(c) ==
  LET e == post[c].address IN
  /\ At(c, "register", "sent")
  /\ IF account[e] = Unknown
       THEN /\ account' = [account EXCEPT ![e] = [is |-> "new", pw |-> post[c].password]]
            /\ Mails("verify", e) /\ Replies(c, "ok")
       ELSE Replies(c, "taken") /\ UNCHANGED <<account, link>>
  /\ UNCHANGED <<page, redirects>>

\* The answer does not tell whether there is such an account.
RequestPasswordReset(c) ==
  LET e == post[c].address IN
  /\ At(c, "forgot", "sent") /\ Replies(c, "ok")
  /\ IF account[e].is = "verified" THEN Mails("reset", e) ELSE UNCHANGED link
  /\ UNCHANGED <<account, page, redirects>>

LookUp(c) ==
  /\ post[c].op \in {"verify", "reset"} /\ post[c].phase = "sent"
  /\ Replies(c, IF link[post[c].link].good THEN "found" ELSE "refused")
  /\ UNCHANGED <<account, link, page, redirects>>

VerifyEmail(c) ==
  LET l == post[c].link IN
  /\ At(c, "verify", "found") /\ Replies(c, "ok")
  /\ account' = [account EXCEPT ![Of(l)].is = "verified"]
  /\ link' = [link EXCEPT ![l].good = FALSE] /\ UNCHANGED <<page, redirects>>

\* An error of Redis that leaves the token is ignored.
ResetPassword(c) ==
  LET l == post[c].link IN
  /\ At(c, "reset", "found") /\ Replies(c, "ok")
  /\ account' = [account EXCEPT ![Of(l)].pw = post[c].password]
  /\ link' \in {link, [link EXCEPT ![l].good = FALSE]}
  /\ page' = [page EXCEPT !.changed = @ \/ (Concerns(Of(l)) /\ ~ post[c].heard)]
  /\ UNCHANGED redirects

Expires(l) ==
  /\ link[l].for = "reset" /\ link[l].good /\ link' = [link EXCEPT ![l].good = FALSE]
  /\ page' = [page EXCEPT !.sure = @ /\ page.link # l] /\ UNCHANGED <<account, post, redirects>>

\* Another device registers the address, uses its links or, signed in, changes its password.
Elsewhere(e, p) ==
  /\ \/ /\ account[e] = Unknown /\ account' = [account EXCEPT ![e] = [is |-> "new", pw |-> p]]
        /\ Mails("verify", e) /\ UNCHANGED page
     \/ /\ account[e] # Unknown
        /\ account' = [account EXCEPT ![e] = [is |-> "verified", pw |-> p]]
        /\ \/ link' = [l \in Links |-> [link[l] EXCEPT !.good = @ /\ Of(l) # e]]
           \/ account[e].is = "verified" /\ UNCHANGED link
        /\ page' = [page EXCEPT !.sure = @ /\ ~ Concerns(e), !.changed = @ \/ Concerns(e)]
  /\ UNCHANGED <<post, redirects>>

-----------------------------------------------------------------------------
(* What an answer makes the page say. *)

Says(c) == CASE post[c].phase = "ok" -> "done" [] post[c].phase = "taken" -> "taken"
             [] post[c].phase = "refused" -> "failed"

Deliver(c) ==
  /\ post[c].heard /\ post[c].phase \in {"ok", "taken", "refused"}
  /\ page' = [page EXCEPT !.says = Says(c), !.loading = FALSE]
  /\ redirects' = IF post[c].op = "reset" /\ Says(c) = "done" THEN redirects + 1 ELSE redirects
  /\ post' = [post EXCEPT ![c] = NoPost] /\ UNCHANGED <<account, link>>

\* The request or its answer is lost, or a service in between fails: the request may go on.
Lost(c) ==
  /\ post[c].heard
  /\ page' = [page EXCEPT !.says = "failed", !.loading = FALSE, !.sure = FALSE]
  /\ post' = [post EXCEPT ![c].heard = FALSE] /\ UNCHANGED <<account, link, redirects>>
Ends(c) ==
  /\ post[c] # NoPost /\ ~ post[c].heard /\ post' = [post EXCEPT ![c] = NoPost]
  /\ UNCHANGED <<account, link, page, redirects>>

GuestNext ==
  \/ \E route \in Routes, l \in Links \cup {Nobody} : Open(route, l)
  \/ Redirect
  \/ \E field \in {"address", "password", "confirm"}, v \in Addresses \cup Passwords : EditInput(field, v)
  \/ \E c \in Posts : \/ SubmitForm(c) \/ VerifyEffect(c) \/ Deliver(c) \/ Lost(c) \/ Ends(c)
                      \/ Register(c) \/ RequestPasswordReset(c) \/ LookUp(c)
                      \/ VerifyEmail(c) \/ ResetPassword(c)
  \/ \E l \in Links : Expires(l)
  \/ \E e \in Addresses, p \in Passwords \ Short : Elsewhere(e, p)

GuestSpec == GuestInit /\ [][GuestNext]_guestVars
-----------------------------------------------------------------------------
\* Type correctness of the accounts, the links, the page and its calls.
GuestTypeOK ==
  /\ account \in [Addresses -> [is : {"none", "new", "verified"}, pw : Passwords \cup {Nobody}]]
  /\ link \in [Links -> [for : {"none", "verify", "reset"}, of : Addresses \cup {Nobody}, good : BOOLEAN]]
  /\ page \in [route : Routes, link : Links \cup {Nobody}, loading : BOOLEAN,
               entries : [address : Addresses \cup {Nobody}, password : Passwords \cup {Nobody},
                          confirm : Passwords \cup {Nobody}],
               says : {"nothing", "check", "done", "taken", "failed"},
               asked : BOOLEAN, edited : BOOLEAN, sure : BOOLEAN, changed : BOOLEAN]
  /\ post \in [Posts -> [op : Routes \cup {"none"}, address : Addresses \cup {Nobody},
                         password : Passwords \cup {Nobody}, link : Links \cup {Nobody},
                         phase : {"sent", "found", "ok", "taken", "refused"}, heard : BOOLEAN]]
  /\ redirects \in Nat

(* Whatever is lost, left or typed on meanwhile: an address that the register page says has *)
(* been registered, now or before, is; an address whose link the verify page says was good  *)
(* is verified; and the password that the reset page says is updated is the one typed in,   *)
(* unless an input was changed after the button was pressed, or something else has set the  *)
(* password since the page opened.                                                          *)
WhatIsSaidIsSo ==
  /\ page.route = "register" /\ page.says \in {"done", "taken"} /\ ~ page.edited =>
       account[page.entries.address] # Unknown
  /\ page.route = "verify" /\ page.says = "done" => account[Of(page.link)].is = "verified"
  /\ page.route = "reset" /\ page.says = "done" /\ ~ page.edited /\ ~ page.changed =>
       account[Of(page.link)].pw = page.entries.password

(* A link that is good when it is opened, and that nobody else uses, is not refused, however *)
(* often React runs the effect of the page, unless it expires or an answer is lost.          *)
GoodLinksWork == page.sure => page.says # "failed"

(* What the pages for guests tell: no success that was not, and no failure that need not be. *)
GuestPagesAreTrue == WhatIsSaidIsSo /\ GoodLinksWork
=============================================================================
