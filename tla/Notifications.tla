--------------------------- MODULE Notifications ---------------------------
(***************************************************************************)
(* Notifications: what is put in the inboxes of the people it is for, and    *)
(* what is pushed to the devices they have registered.                       *)
(*                                                                           *)
(* A device has one row, whoever registers it last.  The push job runs after *)
(* the answer has gone out, with recipients fixed when the notification was  *)
(* sent; it lists their browsers and calls on them one by one, then their    *)
(* apps.  Only then is the transaction of the sending request committed:     *)
(* the background tasks belong to the response, get_db is left after it.     *)
(***************************************************************************)
EXTENDS Service

CONSTANTS
    Devices, Apps,    \* endpoints of browsers and tokens of apps; those of apps
    Messages,         \* ids of notifications
    OneWriter,        \* the database lets one transaction write at a time (SQLite)
    NoAsking

ASSUME NotificationsAssumption == Apps \subseteq Devices /\ OneWriter \in BOOLEAN

Registering == [user: Users, device: Devices, saw: {"none", "row", "lost row"}]
Addressee == [device: Devices, to: Users]
Sending == [state: {"unsent", "browsers", "apps", "pushed", "quiet", "crashed"}, to: SUBSET Users,
            list: SUBSET Addressee, gone: SUBSET Devices, listed: BOOLEAN]
Hearing == [message: Messages, device: Devices, to: Users]

VARIABLES
    holder,      \* Devices -> whose registration it is, or Nobody
    asking,      \* Requests -> the registration under way
    sending,     \* Messages -> the push job
    message,     \* Messages -> "unsent", "open" (not committed), "stored", "lost"
    delivery,    \* Messages -> Users -> "none", "unread", "read", "dismissed"
    \* history, read by the properties and by no action:
    heard,       \* which device was called for whom
    steady,      \* Messages -> devices whose person has been there since it was sent
    absent,      \* Messages -> <<recipient, device>> not there when it was sent, nor come back to
    left         \* <<user, device>> where the user has left, or has never been

notificationVars == <<now, holder, asking, sending, message, delivery, heard, steady, absent, left>>

Unsent == [state |-> "unsent", to |-> {}, list |-> {}, gone |-> {}, listed |-> FALSE]
Pushing(m) == sending[m].state \in {"browsers", "apps"}
Locked(d) == \E m \in Messages : d \in sending[m].gone

\* The state has its types, and a notification is in inboxes once it is stored.
NotificationsTypeOK ==
    /\ holder \in [Devices -> Users \cup {Nobody}]
    /\ asking \in [Requests -> Registering \cup {NoAsking}]
    /\ sending \in [Messages -> Sending] /\ heard \subseteq Hearing
    /\ message \in [Messages -> {"unsent", "open", "stored", "lost"}]
    /\ delivery \in [Messages -> [Users -> {"none", "unread", "read", "dismissed"}]]
    /\ steady \in [Messages -> SUBSET Devices]
    /\ left \subseteq Users \X Devices /\ absent \in [Messages -> SUBSET (Users \X Devices)]
    /\ \A m \in Messages, u \in Users : delivery[m][u] # "none" => message[m] = "stored" /\ u \in sending[m].to
    /\ \A m \in Messages : sending[m].gone # {} => Pushing(m) /\ message[m] = "open"

NotificationsInit ==
    /\ now = 0 /\ holder = [d \in Devices |-> Nobody]
    /\ asking = [r \in Requests |-> NoAsking]
    /\ sending = [m \in Messages |-> Unsent] /\ message = [m \in Messages |-> "unsent"]
    /\ delivery = [m \in Messages |-> [u \in Users |-> "none"]]
    /\ heard = {} /\ left = Users \X Devices /\ steady = [m \in Messages |-> {}] /\ absent = [m \in Messages |-> {}]

-----------------------------------------------------------------------------
(* Registering and leaving a device.                                        *)

\* The registrations that have read a row which is now deleted update nothing.
RowsDeleted(D) ==
    asking' = [r \in Requests |-> IF asking[r] # NoAsking /\ asking[r].device \in D /\ asking[r].saw = "row"
                                  THEN [asking[r] EXCEPT !.saw = "lost row"] ELSE asking[r]]

\* Who is about to register the device.
ComesBack(u, d) == \E r \in Requests : asking[r] # NoAsking /\ asking[r].user = u /\ asking[r].device = d

Moves(D) == steady' = [m \in Messages |-> steady[m] \ D]

\* SubscribeToPush and RegisterDevice look the row up ...
AsksToRegister(r, u, d) ==
    /\ asking[r] = NoAsking
    /\ asking' = [asking EXCEPT ![r] = [user |-> u, device |-> d, saw |-> IF holder[d] = Nobody THEN "none" ELSE "row"]]
    /\ left' = left \ {<<u, d>>} /\ absent' = [m \in Messages |-> absent[m] \ {<<u, d>>}]
    /\ UNCHANGED <<now, holder, sending, message, delivery, heard, steady>>

\* Variant: the person of a row that is there is not written over.
OwnerOfTheFirst(a) == IF holder[a.device] = Nobody THEN a.user ELSE holder[a.device]

\* save: the row is the caller's from now on.
Owner(a) == a.user

\* ... and insert one, or take over the one they have read.
Registers(r) ==
    LET a == asking[r] IN
    /\ a # NoAsking /\ ~Locked(a.device)
    /\ asking' = [asking EXCEPT ![r] = NoAsking]
    /\ IF a.saw = "row" \/ (a.saw = "none" /\ holder[a.device] = Nobody)
       THEN /\ holder' = [holder EXCEPT ![a.device] = Owner(a)]
            /\ left' = (left \cup Users \X {a.device}) \ {<<a.user, a.device>>}
            /\ IF holder[a.device] = a.user THEN UNCHANGED steady ELSE Moves({a.device})
       ELSE /\ left' = left \cup ({<<a.user, a.device>>} \ {<<holder[a.device], a.device>>})
            /\ UNCHANGED <<holder, steady>>
    /\ UNCHANGED <<now, sending, message, delivery, heard, absent>>

\* Variant: the row is found by the device alone.
RowOfAnybody(u, d) == holder[d] # Nobody

\* remove: the row of the device, if it is the caller's.
RowOf(u, d) == holder[d] = u

\* UnsubscribeFromPush and UnregisterDevice.  The request may arrive when
\* somebody else has signed in on the device.
Unregisters(u, d) ==
    /\ ~Locked(d)
    /\ ~ComesBack(u, d) /\ left' = left \cup {<<u, d>>}
    /\ IF holder[d] = u THEN Moves({d}) ELSE UNCHANGED steady
    /\ IF RowOf(u, d) THEN holder' = [holder EXCEPT ![d] = Nobody] /\ RowsDeleted({d}) ELSE UNCHANGED <<holder, asking>>
    /\ UNCHANGED <<now, sending, message, delivery, heard, absent>>

-----------------------------------------------------------------------------
(* Sending and pushing.                                                     *)

SendNotification(m, to, push) ==
    /\ message[m] = "unsent" /\ to # {}
    /\ message' = [message EXCEPT ![m] = "open"]
    /\ sending' = [sending EXCEPT ![m] = [Unsent EXCEPT !.state = IF push THEN "browsers" ELSE "quiet", !.to = to]]
    /\ steady' = [steady EXCEPT ![m] = {d \in Devices : holder[d] \in to}]
    /\ absent' = [absent EXCEPT ![m] = {x \in (to \X Devices) \cap left : ~ComesBack(x[1], x[2])}]
    /\ UNCHANGED <<now, holder, asking, delivery, heard, left>>

Kind(m) == IF sending[m].state = "apps" THEN Apps ELSE Devices \ Apps

\* for_users: the devices that are the recipients' when they are listed.
ForUsers(m) == {x \in [device: Kind(m), to: sending[m].to] : holder[x.device] = x.to}

ListsDevices(m) ==
    /\ Pushing(m) /\ ~sending[m].listed
    /\ sending' = [sending EXCEPT ![m].listed = TRUE, ![m].list = ForUsers(m)]
    /\ UNCHANGED <<now, holder, asking, message, delivery, heard, steady, absent, left>>

\* One device is called.  If the service knows it no more its row is deleted,
\* whoever has it; other failures change nothing.  Where one transaction writes
\* at a time the sending request is that one, and the job fails.
Calls(m, x, gone) ==
    LET d == x.device IN
    /\ Pushing(m) /\ x \in sending[m].list
    /\ gone => \A other \in Messages \ {m} : d \notin sending[other].gone
    /\ heard' = heard \cup {[message |-> m, device |-> d, to |-> x.to]}
    /\ sending' =
         IF gone /\ OneWriter THEN [sending EXCEPT ![m].state = "crashed", ![m].list = {}, ![m].gone = {}]
         ELSE IF gone THEN [sending EXCEPT ![m].list = @ \ {x}, ![m].gone = @ \cup {d}]
         ELSE [sending EXCEPT ![m].list = @ \ {x}]
    /\ UNCHANGED <<now, holder, asking, message, delivery, steady, absent, left>>

After(m) == IF sending[m].state = "browsers" THEN "apps" ELSE "pushed"

\* All browsers have been called, or all apps; the job ends with a commit.
GoesOn(m) ==
    LET D == sending[m].gone IN
    /\ Pushing(m) /\ sending[m].listed /\ sending[m].list = {}
    /\ sending' = [sending EXCEPT ![m].state = After(m), ![m].listed = FALSE,
                                  ![m].gone = IF After(m) = "pushed" THEN {} ELSE D]
    /\ IF After(m) = "pushed"
       THEN /\ holder' = [d \in Devices |-> IF d \in D THEN Nobody ELSE holder[d]]
            /\ RowsDeleted(D) /\ Moves(D)
            /\ left' = left \cup {x \in Users \X D : ~ComesBack(x[1], x[2])}
       ELSE UNCHANGED <<holder, asking, steady, left>>
    /\ UNCHANGED <<now, message, delivery, heard, absent>>

\* An error the senders do not expect ends the job; its deletions are undone.
JobFails(m) ==
    /\ Pushing(m)
    /\ sending' = [sending EXCEPT ![m].state = "crashed", ![m].list = {}, ![m].gone = {}]
    /\ UNCHANGED <<now, holder, asking, message, delivery, heard, steady, absent, left>>

\* Variant: the deliveries are written in a transaction of their own.
DeliversAnyway(m, u, committed) == u \in sending[m].to

\* SqlNotificationRepository.add: the deliveries are in the same transaction.
Delivers(m, u, committed) == committed /\ u \in sending[m].to

\* get_db is left: the notification and its deliveries are there, or are not.
SendingEnds(m, committed) ==
    /\ message[m] = "open" /\ sending[m].state \in {"pushed", "quiet", "crashed"}
    /\ message' = [message EXCEPT ![m] = IF committed THEN "stored" ELSE "lost"]
    /\ delivery' = [delivery EXCEPT ![m] = [u \in Users |-> IF Delivers(m, u, committed) THEN "unread" ELSE "none"]]
    /\ UNCHANGED <<now, holder, asking, sending, heard, steady, absent, left>>

-----------------------------------------------------------------------------
(* The inbox.                                                               *)

Delivered(m, u) == delivery[m][u] # "none"

ReadAs(m, u, state) ==
    /\ delivery' = [delivery EXCEPT ![m][u] = state]
    /\ UNCHANGED <<now, holder, asking, sending, message, heard, steady, absent, left>>

MarkRead(m, u) == delivery[m][u] = "unread" /\ ReadAs(m, u, "read")
Dismiss(m, u) == Delivered(m, u) /\ delivery[m][u] # "dismissed" /\ ReadAs(m, u, "dismissed")

MarkAllRead(u) ==
    /\ \E m \in Messages : delivery[m][u] = "unread"
    /\ delivery' = [m \in Messages |-> [delivery[m] EXCEPT ![u] = IF @ = "unread" THEN "read" ELSE @]]
    /\ UNCHANGED <<now, holder, asking, sending, message, heard, steady, absent, left>>

NotificationsNext ==
    \/ \E r \in Requests : Registers(r) \/ \E u \in Users, d \in Devices : AsksToRegister(r, u, d)
    \/ \E u \in Users : MarkAllRead(u) \/ \E d \in Devices : Unregisters(u, d)
    \/ \E m \in Messages : \E to \in SUBSET Users, push \in BOOLEAN : SendNotification(m, to, push)
    \/ \E m \in Messages : ListsDevices(m) \/ GoesOn(m) \/ JobFails(m)
    \/ \E m \in Messages : \E yes \in BOOLEAN : SendingEnds(m, yes) \/ \E x \in Addressee : Calls(m, x, yes)
    \/ \E m \in Messages, u \in Users : MarkRead(m, u) \/ Dismiss(m, u)

NotificationsSpec == NotificationsInit /\ [][NotificationsNext]_notificationVars

-----------------------------------------------------------------------------
(* Properties.                                                              *)

\* Whoever signs out of a device, or is followed there by somebody else, before
\* a notification is sent is not called there for it, however late the push job.
SignedOutHearNothing == \A h \in heard : <<h.to, h.device>> \notin absent[h.message]

\* A push job that comes to its end has called every device whose person was
\* there all the time: no late sign-out of a former person, and no removal for
\* another notification, takes away a registration that is meant to stand.
EveryDeviceIsCalled ==
    \A m \in Messages : sending[m].state = "pushed" =>
        \A d \in steady[m] : \E h \in heard : h.message = m /\ h.device = d

\* What is pushed comes to the devices of the person it is for, and to no other.
PushesReachTheirOwn == SignedOutHearNothing /\ EveryDeviceIsCalled
=============================================================================
