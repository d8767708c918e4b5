----------------------------- MODULE ContactEmail -----------------------------
(***************************************************************************)
(* The contact address of a signed-in identity                             *)
(* (internal/relay/contact.go, internal/portal/email.go).                  *)
(*                                                                         *)
(* The portal asks the relay for a link, mails it, and tells the relay how *)
(* the mail went; the address takes effect when the page behind the link   *)
(* is submitted.  The relay keeps one row per link minted and judges every *)
(* expiry by now(), which in Postgres is the start of the transaction.     *)
(* A transaction is modelled by the points where another one can come      *)
(* between: what it locks is held from one of its steps to the last.       *)
(***************************************************************************)
EXTENDS Naturals, Sequences, FiniteSets

CONSTANTS
    EmWho,         \* identities (provider, subject)
    EmAddr,        \* mailboxes
    EmSenders,     \* "send" requests the portal may be serving at once
    EmPresses,     \* submissions of the page behind a link
    EmPerDay,      \* emailSendsPerDay
    EmDay,         \* emailSendWindow and emailTokenTTL, in ticks
    EmInterval,    \* emailAddressInterval, in ticks
    MaxEmLinks,    \* bound on rows minted
    MaxEmTime      \* bound on the clock

ASSUME EmAssumption == /\ EmPerDay \in Nat \ {0} /\ EmDay \in Nat \ {0}
                       /\ EmInterval \in 1..EmDay

VARIABLES
    emNow,      \* the database clock
    emLinks,    \* email_confirmations, in id order
    emContact,  \* contact_emails: {} or the confirmed address of an identity
    emOff,      \* identities whose account is disabled
    emSend,     \* the "send" requests
    emPress     \* the submissions

emVars == <<emNow, emLinks, emContact, emOff, emSend, emPress>>

EmIds == DOMAIN emLinks
EmIdle == [at |-> "idle"]

EmInit ==
    /\ emNow = 0
    /\ emLinks = <<>>
    /\ emContact = [w \in EmWho |-> {}]
    /\ emOff = {}
    /\ emSend = [s \in EmSenders |-> EmIdle]
    /\ emPress = [p \in EmPresses |-> EmIdle]

(* A row a press beginning at t may still spend. *)
EmLiveAt(l, t) == ~l.used /\ l.exp > t
EmLive(i) == EmLiveAt(emLinks[i], emNow)

(* The rows of an identity, and those inside its sending window. *)
EmOf(w) == {i \in EmIds : emLinks[i].who = w}
EmRecent(i, span) == emLinks[i].born + span > emNow
EmSendsOf(w) == {i \in EmOf(w) : EmRecent(i, EmDay)}
EmMailsTo(a) == {i \in EmIds : emLinks[i].addr = a /\ ~emLinks[i].failed /\ EmRecent(i, EmInterval)}

(* The transaction lock every issuing transaction takes before it counts. *)
EmLockFreeBlind == TRUE
EmLockFree == \A s \in EmSenders : emSend[s].at # "counted"

(* The user row an issuing transaction has read FOR SHARE. *)
EmSharesBlind(w) == FALSE
EmShares(w) == \E s \in EmSenders : emSend[s].at \in {"checked", "counted"} /\ emSend[s].who = w

(***************************************************************************)
(* Sending a link.                                                         *)
(***************************************************************************)

(* contactAccountEnabled: a disabled account is refused; an applicant has  *)
(* no user row yet and is not.                                             *)
EmEnabled(w) == w \notin emOff

(* The portal looks at the account, then asks the relay for a link. *)
EmAsk(s, w, a) ==
    /\ emSend[s].at = "idle"
    /\ Len(emLinks) + Cardinality({r \in EmSenders : emSend[r].at \in {"asked", "checked", "counted"}}) < MaxEmLinks
    /\ EmEnabled(w)
    /\ emSend' = [emSend EXCEPT ![s] = [at |-> "asked", who |-> w, addr |-> a]]
    /\ UNCHANGED <<emNow, emLinks, emContact, emOff, emPress>>

(* The relay's transaction looks again and keeps the row it read. *)
EmBegin(s) ==
    /\ emSend[s].at = "asked"
    /\ emSend' = [emSend EXCEPT ![s] = IF EmEnabled(@.who) THEN [@ EXCEPT !.at = "checked"] ELSE EmIdle]
    /\ UNCHANGED <<emNow, emLinks, emContact, emOff, emPress>>

EmWithin(w, a) ==
    /\ a \notin emContact[w]
    /\ Cardinality(EmSendsOf(w)) < EmPerDay
    /\ EmMailsTo(a) = {}

(* Under the lock: the address is new, and neither limit is reached. *)
EmCount(s) ==
    /\ emSend[s].at = "checked"
    /\ EmLockFree
    /\ emSend' = [emSend EXCEPT ![s] = IF EmWithin(emSend[s].who, emSend[s].addr)
                                       THEN [@ EXCEPT !.at = "counted"] ELSE EmIdle]
    /\ UNCHANGED <<emNow, emLinks, emContact, emOff, emPress>>

EmMint(s) ==
    /\ emSend[s].at = "counted"
    /\ emLinks' = Append(emLinks, [who |-> emSend[s].who, addr |-> emSend[s].addr, born |-> emNow,
                                   exp |-> emNow + EmDay, used |-> FALSE, failed |-> FALSE,
                                   inbox |-> FALSE, by |-> 0])
    /\ emSend' = [emSend EXCEPT ![s] = [at |-> "mail", id |-> Len(emLinks) + 1]]
    /\ UNCHANGED <<emNow, emContact, emOff, emPress>>

(* The SMTP server takes the mail, or an error ends the conversation; the  *)
(* error may come after the message was taken.                             *)
EmMail(s) ==
    /\ emSend[s].at = "mail"
    /\ \E ok, arrives \in BOOLEAN :
          /\ ok => arrives
          /\ emLinks' = [emLinks EXCEPT ![emSend[s].id].inbox = arrives]
          /\ emSend' = [emSend EXCEPT ![s] = [at |-> IF ok THEN "sent" ELSE "refused", id |-> @.id]]
    /\ UNCHANGED <<emNow, emContact, emOff, emPress>>

(* A delivered link makes every other live link of its identity expire;    *)
(* "by" remembers which link did it.                                       *)
EmSupersede(n) ==
    [i \in EmIds |-> IF i \in EmOf(emLinks[n].who) \ {n} /\ EmLive(i)
                     THEN [emLinks[i] EXCEPT !.exp = emNow, !.by = n] ELSE emLinks[i]]

EmMarkSent(s) ==
    /\ emSend[s].at = "sent"
    /\ emLinks' = EmSupersede(emSend[s].id)
    /\ emSend' = [emSend EXCEPT ![s] = EmIdle]
    /\ UNCHANGED <<emNow, emContact, emOff, emPress>>

(* A refused one is dead and no longer holds the mailbox's interval. *)
EmKill(n) ==
    IF emLinks[n].used THEN emLinks
    ELSE [emLinks EXCEPT ![n].failed = TRUE, ![n].exp = IF @ < emNow THEN @ ELSE emNow]

EmMarkFailed(s) ==
    /\ emSend[s].at = "refused"
    /\ emLinks' = EmKill(emSend[s].id)
    /\ emSend' = [emSend EXCEPT ![s] = EmIdle]
    /\ UNCHANGED <<emNow, emContact, emOff, emPress>>

(* The relay was out of reach when the outcome was to be recorded. *)
EmRecordLost(s) ==
    /\ emSend[s].at \in {"sent", "refused"}
    /\ emSend' = [emSend EXCEPT ![s] = EmIdle]
    /\ UNCHANGED <<emNow, emLinks, emContact, emOff, emPress>>

(***************************************************************************)
(* Withdrawing, confirming, disabling.                                     *)
(***************************************************************************)

(* Every live link of the identity dies; the address stays. *)
EmWithdraw(w) ==
    [i \in EmIds |-> IF i \in EmOf(w) /\ EmLive(i) THEN [emLinks[i] EXCEPT !.exp = emNow] ELSE emLinks[i]]

EmCancel(w) ==
    /\ EmEnabled(w)
    /\ \E i \in EmOf(w) : EmLive(i)
    /\ emLinks' = EmWithdraw(w)
    /\ UNCHANGED <<emNow, emContact, emOff, emSend, emPress>>

(* The button on the page: the transaction starts, and with it its now().  *)
(* "late" remembers that the link was already dead.                        *)
EmPressed(p, i) ==
    /\ emPress[p].at = "idle"
    /\ emLinks[i].inbox
    /\ emPress' = [emPress EXCEPT ![p] = [at |-> "begun", id |-> i, start |-> emNow, late |-> ~EmLive(i)]]
    /\ UNCHANGED <<emNow, emLinks, emContact, emOff, emSend>>

EmSpendableEarly(l, t) == ~l.used /\ l.exp >= t
EmSpendable(l, t) == EmLiveAt(l, t)

(* The row locked and spent; every other link that is live by this         *)
(* transaction's clock dies with it.                                       *)
EmSpend(n, t) ==
    [i \in EmIds |-> IF i = n THEN [emLinks[n] EXCEPT !.used = TRUE]
                     ELSE IF i \in EmOf(emLinks[n].who) /\ EmLiveAt(emLinks[i], t)
                     THEN [emLinks[i] EXCEPT !.exp = t] ELSE emLinks[i]]

EmConfirm(p) ==
    /\ emPress[p].at = "begun"
    /\ LET n == emPress[p].id
           l == emLinks[n]
       IN IF EmSpendable(l, emPress[p].start)
          THEN /\ emLinks' = EmSpend(n, emPress[p].start)
               /\ emContact' = [emContact EXCEPT ![l.who] = {l.addr}]
               /\ emPress' = [emPress EXCEPT ![p] = [at |-> "took", late |-> @.late]]
          ELSE /\ emPress' = [emPress EXCEPT ![p] = EmIdle]
               /\ UNCHANGED <<emLinks, emContact>>
    /\ UNCHANGED <<emNow, emOff, emSend>>

(* Disabling waits for a transaction that has read the user row. *)
EmDisable(w) ==
    /\ w \notin emOff
    /\ ~EmShares(w)
    /\ emOff' = emOff \cup {w}
    /\ UNCHANGED <<emNow, emLinks, emContact, emSend, emPress>>

EmTick ==
    /\ emNow < MaxEmTime
    /\ emNow' = emNow + 1
    /\ UNCHANGED <<emLinks, emContact, emOff, emSend, emPress>>

EmNext ==
    \/ \E s \in EmSenders : \/ \E w \in EmWho, a \in EmAddr : EmAsk(s, w, a)
                            \/ EmBegin(s) \/ EmCount(s) \/ EmMint(s) \/ EmMail(s)
                            \/ EmMarkSent(s) \/ EmMarkFailed(s) \/ EmRecordLost(s)
    \/ \E w \in EmWho : EmCancel(w) \/ EmDisable(w)
    \/ \E p \in EmPresses : EmConfirm(p) \/ \E i \in EmIds : EmPressed(p, i)
    \/ EmTick

EmSpec == EmInit /\ [][EmNext]_emVars

(* Two clicks on "send", of one identity or of two naming one mailbox,     *)
(* never slip under a limit together: an identity's links in any day stay  *)
(* within its allowance, and a mailbox is mailed once per interval         *)
(* (IssueEmailConfirmation's advisory lock).                               *)
EmWithinLimits ==
    /\ \A w \in EmWho : Cardinality(EmSendsOf(w)) <= EmPerDay
    /\ \A a \in EmAddr : Cardinality(EmMailsTo(a)) <= 1

(* A link that had expired, been withdrawn, been refused or been           *)
(* superseded before its button was pressed never becomes an address, even *)
(* when another transaction on the same identity is under way              *)
(* (emailConfirmationState, ConfirmEmail).                                 *)
EmDeadStaysDead == \A p \in EmPresses : emPress[p].at = "took" => ~emPress[p].late

(* Once disabling an account has finished, no link is minted for it: a     *)
(* request that passed the check before is committed before               *)
(* (contactAccountEnabled's FOR SHARE).                                    *)
EmDisabledMintsNothing ==
    [][\A w \in emOff : {i \in 1..Len(emLinks') : emLinks'[i].who = w} = EmOf(w)]_emVars

(* MarkEmailConfirmationSent: "only the newest mail works, which is what a *)
(* person who pressed resend or corrected a typo expects".  A link is      *)
(* superseded only by a newer one.                                         *)
EmNewestWorks == \A i \in EmIds : emLinks[i].by = 0 \/ emLinks[i].by > i

(* contact.go: the limits on mail hold, and neither a dead link nor a       *)
(* disabled account is worth anything.                                      *)
EmSafe == []EmWithinLimits /\ []EmDeadStaysDead /\ EmDisabledMintsNothing
===============================================================================
